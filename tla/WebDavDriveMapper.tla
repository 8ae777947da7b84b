------------------------- MODULE WebDavDriveMapper -------------------------
(***************************************************************************)
(* Mounting a phone's files on a drive letter (utils/WebDavDriveMapper.cpp *)
(* and, when built with WIFIDROP_ENABLE_WINFSP, Mount and Unmount of       *)
(* utils/WinFspDriveHost.cpp).  Mount runs on the thread that serves the   *)
(* connect request and takes no lock: looking for a free letter and        *)
(* attaching to it are two system calls, two steps here, and other threads *)
(* and programs run in between.                                            *)
(***************************************************************************)
EXTENDS Naturals, AndroidClient

CONSTANTS WinFsp,      \* WIFIDROP_ENABLE_WINFSP
          Letters,     \* drive letters as numbers, D: the smallest
          Foreign,     \* whoever else holds a drive
          Remembered,  \* letters the user profile remembers a connection for
          Detachable   \* letters the user may disconnect in Explorer

NoLetter == 0

ASSUME WinFspAssumption == WinFsp \in BOOLEAN

ASSUME LettersAssumption ==
    /\ Letters \subseteq Nat \ {NoLetter}
    /\ Remembered \subseteq Letters
    /\ Detachable \subseteq Letters

ASSUME ForeignAssumption == Foreign \notin Clients \cup {Nobody}

VARIABLES drives,       \* who holds each letter in the logon session
          driveLetter,  \* AndroidClient::driveLetter
          refused       \* history: the clients whose drive Windows refused to disconnect

driveVars == <<drives, driveLetter, refused>>

DriveTypeOK ==
    /\ drives \in [Letters -> Clients \cup {Nobody, Foreign}]
    /\ driveLetter \in [Clients -> Letters \cup {NoLetter}]
    /\ refused \subseteq Clients

DriveInit ==
    /\ drives \in [Letters -> {Nobody, Foreign}]
    /\ driveLetter = [c \in Clients |-> NoLetter]
    /\ refused = {}

\* Mutated form: the search does not look at which letters are taken.
AnyLetter == Letters

\* The letters GetLogicalDrives does not report.
FreeLetters == {l \in Letters : drives[l] = Nobody}

\* FindFreeDriveLetter searches from Z: down.
IsHighestFree(l) ==
    /\ l \in FreeLetters
    /\ \A m \in FreeLetters : m =< l

\* WNetAddConnection2W returns NO_ERROR, or fuse_mount 0 ...
AttachSucceeds(c, l) ==
    /\ drives[l] = Nobody
    /\ WinFsp \/ l \notin Remembered
    /\ drives' = [drives EXCEPT ![l] = c]
    /\ driveLetter' = [driveLetter EXCEPT ![c] = l]
    /\ UNCHANGED refused

\* WinFspDriveHost::Mount tries one letter only.
MountRetries == ~WinFsp

\* ... or ERROR_ALREADY_ASSIGNED or ERROR_DEVICE_ALREADY_REMEMBERED, for which Mount
\* has a retry.  Any other error is possible at any time; with WinFsp it is the
\* answer to a collision too.
AttachCollides(l) == MountRetries /\ (drives[l] # Nobody \/ l \in Remembered)

\* WNetCancelConnection2W closes whatever the letter is connected to, by force.
\* A letter that is not connected counts as unmounted.
CancelSucceeds(l) ==
    /\ drives' = [drives EXCEPT ![l] = Nobody]
    /\ UNCHANGED refused

\* On any other error the code logs a warning and returns: the letter stays connected
\* to the phone, and the record that named it is dropped by the caller.
CancelFails(c, l) ==
    /\ drives[l] # Nobody
    /\ refused' = IF drives[l] = c THEN refused \cup {c} ELSE refused
    /\ UNCHANGED drives

UnmountByLetter(c) ==
    IF driveLetter[c] = NoLetter
    THEN UNCHANGED <<drives, refused>>
    ELSE CancelSucceeds(driveLetter[c]) \/ CancelFails(c, driveLetter[c])

\* WinFspDriveHost::Unmount: the mount is found in g_mounts by the client's id.
UnmountById(c) ==
    /\ drives' = [l \in Letters |-> IF drives[l] = c THEN Nobody ELSE drives[l]]
    /\ UNCHANGED refused

Unmount(c) ==
    /\ IF WinFsp THEN UnmountById(c) ELSE UnmountByLetter(c)
    /\ UNCHANGED driveLetter

\* Another program takes a letter (a stick is plugged in, a share is mapped).
OtherProgramMaps(l) ==
    /\ drives[l] = Nobody
    /\ drives' = [drives EXCEPT ![l] = Foreign]
    /\ UNCHANGED <<driveLetter, refused>>

\* The user disconnects a client's drive in Explorer, where a WinFsp drive is a
\* local disk.
UserDisconnects(l) ==
    /\ ~WinFsp
    /\ l \in Detachable
    /\ drives[l] \in Clients
    /\ drives' = [drives EXCEPT ![l] = Nobody]
    /\ UNCHANGED <<driveLetter, refused>>
=============================================================================
