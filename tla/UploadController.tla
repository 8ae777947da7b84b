-------------------------- MODULE UploadController --------------------------
(***************************************************************************)
(* PUT /wifidrop/upload (server/UploadController.cpp): uploads run on the  *)
(* threads of their connections and share one folder.  Each looks for a    *)
(* free name (MakeUniquePath in utils/FileName.cpp: one look at the folder *)
(* per candidate), opens that file, which truncates it if it is there by   *)
(* now, and writes the body.  No lock is taken.                            *)
(*                                                                         *)
(* A request whose name is missing or not valid is answered 400 and        *)
(* touches nothing.  A name that is not UTF-8 makes Utf8ToWide throw where *)
(* nothing catches it: the thread is detached, and the process ends.  The  *)
(* names of devices pass: Windows opens the device, no file comes of it.   *)
(***************************************************************************)
EXTENDS FileName

CONSTANTS Uploads,   \* upload requests
          RawNames,  \* the names in their queries
          Existing,  \* files that may be in the folder before
          Nobody     \* the writer of these

ASSUME NobodyAssumption == Nobody \notin Uploads

ASSUME RawNamesAssumption == RawNames \subseteq Seq([char : Text, escaped : BOOLEAN])

VARIABLES content,  \* for each file of the folder, the uploads its bytes come from
          pc,       \* where each upload is
          name,     \* sanitizedName of each
          index,    \* the candidate MakeUniquePath looks at
          before    \* the files that were in the folder when the upload began
                    \* and have not been taken out since

vars == <<content, pc, name, index, before>>

Files == DOMAIN content

Path(u) == Candidate(name[u], index[u])

\* The folder, with these writers' bytes in the file that u has open; a device leaves it
\* as it is.
Store(u, writers) ==
    content' = IF NamesDevice(Path(u)) THEN content
               ELSE [p \in Files \cup {Path(u)} |-> IF p = Path(u) THEN writers ELSE content[p]]

Writers(u) == IF Path(u) \in Files THEN content[Path(u)] ELSE {}

UploadStates == {"none", "rejected", "thrown", "probe", "open", "write", "saved", "failed"}

\* An exception that nothing catches ends the process and every upload with it.
Terminated == \E u \in Uploads : pc[u] = "thrown"

\* The files are those that were there before and those that uploads have opened.
TypeOK ==
    /\ Files \subseteq Existing \cup {Path(u) : u \in {w \in Uploads : pc[w] \in {"write", "saved", "failed"}}}
    /\ \A p \in Files : content[p] \subseteq Uploads \cup {Nobody}
    /\ pc \in [Uploads -> UploadStates]
    /\ name \in [Uploads -> {SanitizeFileName(UrlDecode(raw)) : raw \in RawNames} \cup {<<>>}]
    /\ index \in [Uploads -> Nat]
    /\ before \in [Uploads -> SUBSET Files]

Init ==
    /\ \E F \in SUBSET Existing : content = [p \in F |-> {Nobody}]
    /\ pc = [u \in Uploads |-> "none"]
    /\ name = [u \in Uploads |-> <<>>]
    /\ index = [u \in Uploads |-> 0]
    /\ before = [u \in Uploads |-> {}]

Accepts(u, decoded) ==
    /\ name' = [name EXCEPT ![u] = SanitizeFileName(decoded)]
    /\ before' = [before EXCEPT ![u] = Files]
    /\ pc' = [pc EXCEPT ![u] = "probe"]

Ends(u, state) == pc' = [pc EXCEPT ![u] = state] /\ UNCHANGED <<name, before>>

\* Mutated form: the name is validated as it was sent.
BeginDecodingLate(u) ==
    /\ pc[u] = "none"
    /\ \E raw \in RawNames :
          \/ ValidUploadFileName(DecodeLiteral(raw)) /\ Accepts(u, UrlDecode(raw))
          \/ ~ValidUploadFileName(DecodeLiteral(raw)) /\ Ends(u, "rejected")
    /\ UNCHANGED <<content, index>>

\* A request arrives.
Begin(u) ==
    /\ pc[u] = "none"
    /\ \E raw \in RawNames :
          LET decoded == UrlDecode(raw)
              sanitized == SanitizeFileName(decoded)
          IN  \/ ~ValidUploadFileName(decoded) /\ Ends(u, "rejected")
              \/ ValidUploadFileName(decoded) /\ Undecodable(sanitized) /\ Ends(u, "thrown")
              \/ ValidUploadFileName(decoded) /\ ~Undecodable(sanitized) /\ Accepts(u, decoded)
    /\ UNCHANGED <<content, index>>

\* Mutated form: the first candidate is taken without a look.
TakeFirstName(u) ==
    /\ pc[u] = "probe"
    /\ pc' = [pc EXCEPT ![u] = "open"]
    /\ UNCHANGED <<content, name, index, before>>

\* The candidate is free.  A device is in no folder.
FindFreeName(u) ==
    /\ pc[u] = "probe"
    /\ Path(u) \notin Files
    /\ pc' = [pc EXCEPT ![u] = "open"]
    /\ UNCHANGED <<content, name, index, before>>

\* Mutated form: the number is not counted up.
NextNameSame(u) ==
    /\ pc[u] = "probe"
    /\ Path(u) \in Files
    /\ index' = [index EXCEPT ![u] = 1]
    /\ UNCHANGED <<content, pc, name, before>>

\* Mutated form: the number is counted down.
NextNameDown(u) ==
    /\ pc[u] = "probe"
    /\ Path(u) \in Files
    /\ index' = [index EXCEPT ![u] = @ - 1]
    /\ UNCHANGED <<content, pc, name, before>>

\* The candidate exists: the next one.
NextName(u) ==
    /\ pc[u] = "probe"
    /\ Path(u) \in Files
    /\ index' = [index EXCEPT ![u] = @ + 1]
    /\ UNCHANGED <<content, pc, name, before>>

\* std::filesystem::exists throws, and the answer is 500.
ProbeFails(u) ==
    /\ pc[u] = "probe"
    /\ pc' = [pc EXCEPT ![u] = "failed"]
    /\ UNCHANGED <<content, name, index, before>>

\* std::ofstream creates the file, or empties it, or opens the device.
OpenFile(u) ==
    /\ pc[u] = "open"
    /\ Store(u, {})
    /\ pc' = [pc EXCEPT ![u] = "write"]
    /\ UNCHANGED <<name, index, before>>

OpenFails(u) ==
    /\ pc[u] = "open"
    /\ pc' = [pc EXCEPT ![u] = "failed"]
    /\ UNCHANGED <<content, name, index, before>>

\* The body is written.  Another upload that has the same file open writes over it
\* from the start: what is longer shows behind what is later.
WriteFile(u) ==
    /\ pc[u] = "write"
    /\ Store(u, Writers(u) \cup {u})
    /\ pc' = [pc EXCEPT ![u] = "saved"]
    /\ UNCHANGED <<name, index, before>>

\* good() is asked before the stream is closed: when only the flush at the end
\* fails, the answer is 200 and the bytes are missing.
FlushFails(u) ==
    /\ pc[u] = "write"
    /\ pc' = [pc EXCEPT ![u] = "saved"]
    /\ UNCHANGED <<content, name, index, before>>

\* Writing fails in the middle: the answer is 500 and the file stays as it is.
WriteFails(u) ==
    /\ pc[u] = "write"
    /\ Store(u, Writers(u) \cup {u})
    /\ pc' = [pc EXCEPT ![u] = "failed"]
    /\ UNCHANGED <<name, index, before>>

\* The user takes a file out of the folder; not while it is open for writing.
UserRemoves(p) ==
    /\ \A u \in Uploads : ~(pc[u] = "write" /\ Path(u) = p)
    /\ content' = [q \in Files \ {p} |-> content[q]]
    /\ before' = [u \in Uploads |-> before[u] \ {p}]
    /\ UNCHANGED <<pc, name, index>>

UploadWork(u) ==
    \/ FindFreeName(u) \/ NextName(u)
    \/ OpenFile(u) \/ OpenFails(u)
    \/ WriteFile(u) \/ FlushFails(u) \/ WriteFails(u)

Next ==
    \/ \E u \in Uploads : ~Terminated /\ (Begin(u) \/ UploadWork(u) \/ ProbeFails(u))
    \/ \E p \in Files : UserRemoves(p)

Spec == Init /\ [][Next]_vars

\* The threads run; no phone has to send anything, and no look at the folder has
\* to fail.
FairSpec == Spec /\ \A u \in Uploads : WF_vars(~Terminated /\ UploadWork(u))

-----------------------------------------------------------------------------
\* An upload leaves alone every file that was in the folder when it began, whether
\* it came from an earlier upload or not, however many uploads race for names.
KeepsEarlierFiles ==
    [][\A u \in Uploads : \A p \in before[u] : UploadWork(u) => p \in Files' /\ content'[p] = content[p]]_vars

\* MakeUniquePath ends and the phone is answered, although other uploads may take
\* each name before this one gets to it; only the end of the process leaves an upload
\* without an answer.
UploadIsAnswered ==
    \A u \in Uploads : pc[u] = "probe" ~> pc[u] \in {"saved", "failed"} \/ Terminated

\* However a name is written in the query, what the upload adds to the folder lies in the
\* folder itself, under a name of characters that Windows takes as they are; numbering
\* candidates keeps it so.  The name of a device adds nothing, and is answered 200 all
\* the same.
SavedUnderPlainName == \A p \in Files \ Existing : PlainName(p)

\* "Подбирает путь без перезаписи существующего файла" (FileName.h): the file that
\* an upload opens is a new one.
OpensNewFile ==
    [][\A u \in Uploads : OpenFile(u) => Path(u) \notin Files]_vars
=============================================================================
