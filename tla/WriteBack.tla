------------------------------ MODULE WriteBack ------------------------------
(***************************************************************************)
(* What a mounted phone promises the programs that write to it, with no    *)
(* callbacks, no temporary files and no requests under way.  A change is   *)
(* pending from the moment a program was told that it is made.  It ends in *)
(* one of two ways: the phone has exactly what the program left (or what   *)
(* calls that failed made of it), or the program was told that it is lost. *)
(* A file that is closed has one attempt more, of which nobody hears: when *)
(* it fails, the change is gone.                                           *)
(***************************************************************************)
EXTENDS AndroidFsHttpClient

CONSTANTS Handles, NoPath

VARIABLE change  \* for each open file, what its program has changed

writeBackVars == <<remote, change>>

None == [state |-> "none", path |-> NoPath, copy |-> Empty]
Lost == [state |-> "lost", path |-> NoPath, copy |-> Empty]
Pending(p, data) == [state |-> "pending", path |-> p, copy |-> data]
Closing(p, data) == [state |-> "closing", path |-> p, copy |-> data]

Init ==
    /\ remote \in [Paths -> Nodes]
    /\ change = [h \in Handles |-> None]

Changes(h, c) == change' = [change EXCEPT ![h] = c]

\* A program changes a file, or a call that fails spoils the copy; while a change is
\* pending, it is the same file.
Edit(h) ==
    /\ change[h].state # "closing"
    /\ \E p \in Paths, data \in Contents :
          /\ change[h].state = "pending" => change[h].path = p
          /\ Changes(h, Pending(p, data))
    /\ UNCHANGED remote

\* The program closes the file.
Close(h) ==
    /\ change[h].state = "pending"
    /\ Changes(h, Closing(change[h].path, change[h].copy))
    /\ UNCHANGED remote

\* The phone gets what the program wrote last.
Save(h) ==
    /\ change[h].state \in {"pending", "closing"}
    /\ UploadFile(change[h].path, change[h].copy)
    /\ Changes(h, None)

\* Saving fails, with the phone's file as it was or as a broken upload left it, and
\* the program is told: the change is lost.
Lose(h) ==
    /\ change[h].state = "pending"
    /\ UNCHANGED remote \/ UploadBreaks(change[h].path)
    /\ Changes(h, Lost)

\* Saving at the close fails, and nobody is told.
Drop(h) ==
    /\ change[h].state = "closing"
    /\ UNCHANGED remote \/ UploadBreaks(change[h].path)
    /\ Changes(h, None)

\* A program that was told goes on to something else.
MoveOn(h) ==
    /\ change[h].state = "lost"
    /\ Changes(h, None)
    /\ UNCHANGED remote

\* The phone's files change otherwise: by the phone, by a request to delete, move or
\* make something, by an upload that broke off and may be repeated.
Elsewhere ==
    /\ \/ \E p \in Paths : PhoneChanges(p)
       \/ \E p, q \in Paths : MovePath(p, q)
    /\ UNCHANGED change

Next ==
    \/ \E h \in Handles : Edit(h) \/ Close(h) \/ Save(h) \/ Lose(h) \/ Drop(h) \/ MoveOn(h)
    \/ Elsewhere

Spec == Init /\ [][Next]_writeBackVars
=============================================================================
