------------------------- MODULE MCWinFspDriveHost -------------------------
(***************************************************************************)
(* Small instances of WinFspDriveHost for TLC.                             *)
(***************************************************************************)
EXTENDS WinFspDriveHost

\* The FUSE layer passes O_TRUNC to open only to a file system that asks for it
\* (FUSE_CAP_ATOMIC_O_TRUNC); WinFspInit does not, and truncate is called instead.
MCOpenFlags == {FALSE}
=============================================================================
