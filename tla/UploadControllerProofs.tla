----------------------- MODULE UploadControllerProofs -----------------------
(***************************************************************************)
(* What UploadController guarantees for any number of uploads and names.   *)
(***************************************************************************)
EXTENDS UploadController, FileNameProofs

\* The inductive part: an upload has chosen a name that was free at some time since
\* it began, so the files it found at its start are other ones.
ChosenIsNew ==
    \A u \in Uploads : pc[u] \in {"open", "write"} => Path(u) \notin before[u]

IInv == TypeOK /\ ChosenIsNew

Sanitized == {SanitizeFileName(UrlDecode(raw)) : raw \in RawNames} \cup {<<>>}
Written == {Path(u) : u \in {w \in Uploads : pc[w] \in {"write", "saved", "failed"}}}

\* Writing to one path adds at most that path to the folder and leaves the others alone.
LEMMA StoreFacts ==
  ASSUME TypeOK, NEW u \in Uploads, NEW W \in SUBSET (Uploads \cup {Nobody}), Store(u, W)
  PROVE  /\ Files \subseteq Files' /\ Files' \subseteq Files \cup {Path(u)}
         /\ \A p \in Files' : content'[p] \subseteq Uploads \cup {Nobody}
         /\ \A p \in Files : p # Path(u) => content'[p] = content[p]
BY DEF Store, Files, TypeOK

LEMMA InitIInv == Init => IInv
<1> SUFFICES ASSUME Init PROVE IInv
  OBVIOUS
<1>1. PICK F \in SUBSET Existing : content = [p \in F |-> {Nobody}]
  BY DEF Init
<1>2. Files \subseteq Existing /\ \A p \in Files : content[p] \subseteq Uploads \cup {Nobody}
  BY <1>1 DEF Files
<1> QED BY <1>2 DEF Init, IInv, TypeOK, ChosenIsNew, UploadStates

\* The writers that a write leaves in the file.
LEMMA WritersAreUploads ==
  ASSUME TypeOK, NEW u \in Uploads
  PROVE  Writers(u) \cup {u} \in SUBSET (Uploads \cup {Nobody})
BY DEF TypeOK, Writers

\* The paths of the uploads that have opened a file stay what they are.
LEMMA WrittenGrows ==
  ASSUME UNCHANGED <<name, index>>, pc \in [Uploads -> UploadStates],
         \A w \in Uploads : pc[w] \in {"write", "saved", "failed"} => pc'[w] \in {"write", "saved", "failed"}
  PROVE  Written \subseteq Written'
BY DEF Written, Path

LEMMA NextIInv == IInv /\ [Next]_vars => IInv'
<1> SUFFICES ASSUME IInv, [Next]_vars PROVE IInv'
  OBVIOUS
<1> USE DEF IInv
<1>0. /\ Files \subseteq Existing \cup Written
      /\ name \in [Uploads -> Sanitized]
      /\ pc \in [Uploads -> UploadStates]
      /\ index \in [Uploads -> Nat]
  BY DEF TypeOK, Written, Sanitized
<1>t. ASSUME Files' \subseteq Existing \cup Written', \A p \in Files' : content'[p] \subseteq Uploads \cup {Nobody},
             pc' \in [Uploads -> UploadStates], name' \in [Uploads -> Sanitized], index' \in [Uploads -> Nat],
             before' \in [Uploads -> SUBSET Files']
      PROVE  TypeOK'
  BY <1>t DEF TypeOK, Written, Sanitized
<1>1. CASE UNCHANGED vars
  BY <1>1 DEF vars, TypeOK, ChosenIsNew, Files, Path
<1>2. ASSUME NEW u \in Uploads, Begin(u) PROVE IInv'
  <2>1. /\ pc[u] = "none" /\ UNCHANGED <<content, index>>
        /\ \E state \in {"rejected", "thrown", "probe"} : pc' = [pc EXCEPT ![u] = state]
        /\ before' \in {before, [before EXCEPT ![u] = Files]}
    BY <1>2 DEF Begin, Accepts, Ends
  <2>2. \E s \in Sanitized : name' = [name EXCEPT ![u] = s]
    BY <1>2, <1>0 DEF Begin, Accepts, Ends, Sanitized
  <2>3. Files' = Files
    BY <2>1 DEF Files
  <2>4. pc' \in [Uploads -> UploadStates] /\ name' \in [Uploads -> Sanitized]
    BY <1>0, <2>1, <2>2 DEF UploadStates
  <2>5. Written \subseteq Written'
    BY <1>0, <2>1, <2>2 DEF Written, Path
  <2>6. TypeOK'
    <3>1. before' \in [Uploads -> SUBSET Files']
      BY <2>1, <2>3 DEF TypeOK
    <3> QED BY <1>0, <1>t, <2>1, <2>3, <2>4, <2>5, <3>1 DEF TypeOK
  <2>7. ChosenIsNew'
    <3>1. ASSUME NEW v \in Uploads, pc'[v] \in {"open", "write"} PROVE Path(v)' \notin before'[v]
      <4>1. v # u
        BY <1>0, <2>1, <3>1
      <4>2. pc'[v] = pc[v] /\ name'[v] = name[v] /\ index'[v] = index[v]
        BY <1>0, <2>1, <2>2, <4>1
      <4>3. before'[v] = before[v]
        BY <2>1, <4>1 DEF TypeOK
      <4> QED BY <3>1, <4>2, <4>3 DEF ChosenIsNew, Path
    <3> QED BY <3>1 DEF ChosenIsNew
  <2> QED BY <2>6, <2>7
<1>3. ASSUME NEW u \in Uploads, FindFreeName(u) PROVE IInv'
  <2>1. Written \subseteq Written'
    BY <1>0, <1>3, WrittenGrows DEF FindFreeName
  <2> QED BY <1>0, <1>3, <1>t, <2>1 DEF FindFreeName, TypeOK, ChosenIsNew, Files, Path, UploadStates
<1>4. ASSUME NEW u \in Uploads, NextName(u) PROVE IInv'
  <2>1. Written \subseteq Written'
    BY <1>0, <1>4 DEF NextName, Written, Path
  <2>2. TypeOK'
    BY <1>0, <1>4, <1>t, <2>1 DEF NextName, TypeOK, Files
  <2>3. ChosenIsNew'
    BY <1>0, <1>4 DEF NextName, ChosenIsNew, Files, Path
  <2> QED BY <2>2, <2>3
<1>5. ASSUME NEW u \in Uploads, ProbeFails(u) \/ OpenFails(u) \/ FlushFails(u) PROVE IInv'
  <2>1. Written \subseteq Written'
    BY <1>0, <1>5, WrittenGrows DEF ProbeFails, OpenFails, FlushFails
  <2> QED
    BY <1>0, <1>5, <1>t, <2>1 DEF ProbeFails, OpenFails, FlushFails, TypeOK, ChosenIsNew, Files, Path, UploadStates
<1>6. ASSUME NEW u \in Uploads, OpenFile(u) \/ WriteFile(u) \/ WriteFails(u) PROVE IInv'
  <2>1. /\ Files \subseteq Files' /\ Files' \subseteq Files \cup {Path(u)}
        /\ \A p \in Files' : content'[p] \subseteq Uploads \cup {Nobody}
    BY <1>6, StoreFacts, WritersAreUploads DEF OpenFile, WriteFile, WriteFails
  <2>2. /\ UNCHANGED <<name, index, before>> /\ pc[u] \in {"open", "write"}
        /\ \E state \in {"write", "saved", "failed"} : pc' = [pc EXCEPT ![u] = state]
    BY <1>6 DEF OpenFile, WriteFile, WriteFails
  <2>3. Written \cup {Path(u)} \subseteq Written' /\ pc' \in [Uploads -> UploadStates]
    BY <1>0, <2>2 DEF Written, Path, UploadStates
  <2>4. TypeOK'
    BY <1>0, <1>t, <2>1, <2>2, <2>3 DEF TypeOK
  <2>5. ChosenIsNew'
    BY <1>0, <2>1, <2>2 DEF ChosenIsNew, Path
  <2> QED BY <2>4, <2>5
<1>7. ASSUME NEW p \in Files, UserRemoves(p) PROVE IInv'
  <2>1. Files' = Files \ {p} /\ \A q \in Files' : content'[q] = content[q]
    BY <1>7 DEF UserRemoves, Files
  <2>2. UNCHANGED <<pc, name, index>> /\ Written' = Written
    BY <1>7 DEF UserRemoves, Written, Path
  <2> QED
    BY <1>0, <1>7, <1>t, <2>1, <2>2 DEF UserRemoves, TypeOK, ChosenIsNew, Path
<1> QED
  BY <1>1, <1>2, <1>3, <1>4, <1>5, <1>6, <1>7 DEF Next, UploadWork

\* TypeOK: the folder holds what was there before and what uploads opened under the
\* names they were sent with.
THEOREM UploadTypes == Spec => []TypeOK
BY InitIInv, NextIInv, PTL DEF Spec, IInv

\* A step of an upload leaves the files alone that were there before it.
LEMMA UploadKeepsFiles ==
  ASSUME IInv, NEW u \in Uploads, UploadWork(u), NEW p \in before[u]
  PROVE  p \in Files' /\ content'[p] = content[p]
<1>1. p \in Files
  BY DEF IInv, TypeOK
<1>2. CASE content' = content
  BY <1>1, <1>2 DEF Files
<1>3. CASE OpenFile(u)
  <2>1. p # Path(u)
    BY <1>3 DEF IInv, ChosenIsNew, OpenFile
  <2> QED
    BY <1>1, <1>3, <2>1, StoreFacts DEF OpenFile, IInv
<1>4. CASE WriteFile(u) \/ WriteFails(u)
  <2>1. p # Path(u)
    BY <1>4 DEF IInv, ChosenIsNew, WriteFile, WriteFails
  <2> QED
    BY <1>1, <1>4, <2>1, StoreFacts, WritersAreUploads DEF WriteFile, WriteFails, IInv
<1> QED
  BY <1>2, <1>3, <1>4
     DEF UploadWork, FindFreeName, NextName, OpenFails, FlushFails

\* KeepsEarlierFiles: the race for a name only ever hits uploads that overlap; what
\* was in the folder before is safe from all of them.
THEOREM EarlierFilesAreKept == Spec => KeepsEarlierFiles
<1>1. IInv /\ [Next]_vars
        => [\A u \in Uploads : \A p \in before[u] :
               UploadWork(u) => p \in Files' /\ content'[p] = content[p]]_vars
  BY UploadKeepsFiles
<1> QED
  BY <1>1, InitIInv, NextIInv, PTL DEF Spec, KeepsEarlierFiles

-----------------------------------------------------------------------------
(* Names. *)

Accepted == {"probe", "open", "write", "saved", "failed"}
Opened == {"write", "saved", "failed"}

\* An upload that was not refused has a plain name.
NamesArePlain ==
    \A u \in Uploads : pc[u] \in Accepted => name[u] \in Seq(Text) /\ PlainName(name[u])

LEMMA DecodedIsName ==
    ASSUME NEW raw \in RawNames PROVE UrlDecode(raw) \in Seq(Text)
<1>1. raw \in Seq([char : Text, escaped : BOOLEAN])
  BY RawNamesAssumption
<1>2. Len(raw) \in Nat /\ DOMAIN raw = 1 .. Len(raw)
  BY <1>1, LenProperties
<1>3. ASSUME NEW i \in 1 .. Len(raw) PROVE raw[i].char \in Text
  <2>1. raw[i] \in [char : Text, escaped : BOOLEAN]
    BY <1>1, ElementOfSeq
  <2> QED BY <2>1
<1>4. UrlDecode(raw) \in [1 .. Len(raw) -> Text]
  BY <1>2, <1>3 DEF UrlDecode, Text, Characters
<1> QED
  BY <1>2, <1>4

\* However the name was written, what an upload accepts is plain.
LEMMA BeginAcceptsPlain ==
    ASSUME NEW u \in Uploads, Begin(u)
    PROVE  \/ /\ \E state \in {"rejected", "thrown"} : pc' = [pc EXCEPT ![u] = state]
              /\ UNCHANGED name
           \/ /\ pc' = [pc EXCEPT ![u] = "probe"]
              /\ \E n \in Seq(Text) : PlainName(n) /\ name' = [name EXCEPT ![u] = n]
<1>1. PICK raw \in RawNames :
          LET decoded == UrlDecode(raw)
              sanitized == SanitizeFileName(decoded)
          IN  \/ ~ValidUploadFileName(decoded) /\ Ends(u, "rejected")
              \/ ValidUploadFileName(decoded) /\ Undecodable(sanitized) /\ Ends(u, "thrown")
              \/ ValidUploadFileName(decoded) /\ ~Undecodable(sanitized) /\ Accepts(u, decoded)
  BY DEF Begin
<1>2. CASE Ends(u, "rejected") \/ Ends(u, "thrown")
  BY <1>2 DEF Ends
<1>3. CASE /\ ValidUploadFileName(UrlDecode(raw))
           /\ ~Undecodable(SanitizeFileName(UrlDecode(raw)))
           /\ Accepts(u, UrlDecode(raw))
  <2>1. /\ SanitizeFileName(UrlDecode(raw)) \in Seq(Text)
        /\ PlainName(SanitizeFileName(UrlDecode(raw)))
    BY <1>3, DecodedIsName, SanitizedIsPlain DEF ValidUploadFileName
  <2> QED BY <1>3, <2>1 DEF Accepts
<1> QED
  BY <1>1, <1>2, <1>3

\* What a step does to the states and names.
LEMMA StepOfNames ==
    ASSUME TypeOK, [Next]_vars
    PROVE  \/ \E u \in Uploads : Begin(u)
           \/ /\ UNCHANGED name
              /\ \A u \in Uploads : pc'[u] \in Accepted => pc[u] \in Accepted
<1>1. CASE UNCHANGED vars
  BY <1>1 DEF vars
<1>2. ASSUME NEW u \in Uploads, UploadWork(u) \/ ProbeFails(u)
      PROVE  UNCHANGED name /\ \A w \in Uploads : pc'[w] \in Accepted => pc[w] \in Accepted
  BY <1>2 DEF UploadWork, FindFreeName, NextName, OpenFile, OpenFails, WriteFile, FlushFails,
              WriteFails, ProbeFails, TypeOK, Accepted
<1>3. ASSUME NEW p \in Files, UserRemoves(p) PROVE UNCHANGED <<name, pc>>
  BY <1>3 DEF UserRemoves
<1> QED
  BY <1>1, <1>2, <1>3 DEF Next

LEMMA NextNames == TypeOK /\ NamesArePlain /\ [Next]_vars => NamesArePlain'
<1> SUFFICES ASSUME TypeOK, NamesArePlain, [Next]_vars PROVE NamesArePlain'
  OBVIOUS
<1>1. ASSUME NEW u \in Uploads, Begin(u) PROVE NamesArePlain'
  <2>1. CASE /\ \E state \in {"rejected", "thrown"} : pc' = [pc EXCEPT ![u] = state]
             /\ UNCHANGED name
    BY <2>1 DEF NamesArePlain, Accepted, TypeOK
  <2>2. CASE /\ pc' = [pc EXCEPT ![u] = "probe"]
             /\ \E n \in Seq(Text) : PlainName(n) /\ name' = [name EXCEPT ![u] = n]
    BY <2>2 DEF NamesArePlain, Accepted, TypeOK
  <2> QED BY <1>1, <2>1, <2>2, BeginAcceptsPlain
<1>2. CASE /\ UNCHANGED name
           /\ \A u \in Uploads : pc'[u] \in Accepted => pc[u] \in Accepted
  BY <1>2 DEF NamesArePlain
<1> QED
  BY <1>1, <1>2, StepOfNames

\* SavedUnderPlainName: no name in a query, however long and however escaped, adds a file
\* elsewhere, or one that Windows names otherwise, to what the folder has.
THEOREM FilesHavePlainNames == Spec => []SavedUnderPlainName
<1>1. Init => NamesArePlain
  BY DEF Init, NamesArePlain, Accepted
<1>2. TypeOK /\ NamesArePlain => SavedUnderPlainName
  <2> SUFFICES ASSUME TypeOK, NamesArePlain, NEW p \in Files \ Existing PROVE PlainName(p)
    BY DEF SavedUnderPlainName
  <2>1. PICK u \in Uploads : pc[u] \in Accepted /\ p = Candidate(name[u], index[u])
    BY DEF TypeOK, Path, Accepted
  <2> QED BY <2>1, CandidateIsPlain DEF NamesArePlain, TypeOK
<1> QED
  BY <1>1, <1>2, NextNames, UploadTypes, PTL DEF Spec

-----------------------------------------------------------------------------
(* Collisions. *)

\* A file that was not there when an upload began was opened by another one.
FoundIsOthers ==
    \A u \in Uploads : pc[u] \in {"probe", "open"} =>
        \A p \in Files \ before[u] :
            \E v \in Uploads \ {u} : pc[v] \in Opened /\ Path(v) = p

LEMMA NextFound == TypeOK /\ FoundIsOthers /\ [Next]_vars => FoundIsOthers'
<1> SUFFICES ASSUME TypeOK, FoundIsOthers, [Next]_vars,
                    NEW u \in Uploads, pc'[u] \in {"probe", "open"},
                    NEW p \in Files' \ before'[u]
             PROVE  \E v \in Uploads \ {u} : pc'[v] \in Opened /\ Path(v)' = p
  BY DEF FoundIsOthers
<1> USE DEF Opened
<1>1. ASSUME pc[u] \in {"probe", "open"}, p \in Files \ before[u],
             \A v \in Uploads \ {u} : pc[v] \in Opened =>
                 pc'[v] \in Opened /\ name'[v] = name[v] /\ index'[v] = index[v]
      PROVE  \E v \in Uploads \ {u} : pc'[v] \in Opened /\ Path(v)' = p
  BY <1>1 DEF FoundIsOthers, Path
<1>2. CASE UNCHANGED vars
  BY <1>1, <1>2 DEF vars, Files
<1>3. ASSUME NEW w \in Uploads, Begin(w)
      PROVE  \E v \in Uploads \ {u} : pc'[v] \in Opened /\ Path(v)' = p
  <2>1. /\ pc[w] = "none" /\ UNCHANGED <<content, index>>
        /\ \E state \in {"rejected", "thrown", "probe"} : pc' = [pc EXCEPT ![w] = state]
        /\ \/ UNCHANGED <<name, before>> /\ pc'[w] # "probe"
           \/ /\ \E n : name' = [name EXCEPT ![w] = n]
              /\ before' = [before EXCEPT ![w] = Files]
    BY <1>3 DEF Begin, Accepts, Ends, TypeOK
  <2>2. w # u
    BY <2>1 DEF TypeOK, Files
  <2> QED BY <1>1, <2>1, <2>2 DEF TypeOK, Files
<1>4. ASSUME NEW w \in Uploads, FindFreeName(w) \/ NextName(w) \/ ProbeFails(w) \/ OpenFails(w) \/ FlushFails(w)
      PROVE  \E v \in Uploads \ {u} : pc'[v] \in Opened /\ Path(v)' = p
  BY <1>1, <1>4 DEF FindFreeName, NextName, ProbeFails, OpenFails, FlushFails, TypeOK, Files
<1>5. ASSUME NEW w \in Uploads, OpenFile(w) \/ WriteFile(w) \/ WriteFails(w)
      PROVE  \E v \in Uploads \ {u} : pc'[v] \in Opened /\ Path(v)' = p
  <2>1. /\ Files \subseteq Files' /\ Files' \subseteq Files \cup {Path(w)}
        /\ UNCHANGED <<name, index, before>>
    BY <1>5, StoreFacts, WritersAreUploads DEF OpenFile, WriteFile, WriteFails
  <2>2. \E state \in Opened : pc' = [pc EXCEPT ![w] = state]
    BY <1>5 DEF OpenFile, WriteFile, WriteFails
  <2>3. w # u /\ pc'[w] \in Opened /\ pc'[u] = pc[u]
    BY <2>2 DEF TypeOK
  <2>4. CASE p = Path(w)
    BY <2>1, <2>3, <2>4 DEF Path
  <2>5. CASE p # Path(w)
    BY <1>1, <2>1, <2>2, <2>3, <2>5 DEF TypeOK
  <2> QED BY <2>4, <2>5
<1>6. ASSUME NEW q \in Files, UserRemoves(q)
      PROVE  \E v \in Uploads \ {u} : pc'[v] \in Opened /\ Path(v)' = p
  BY <1>1, <1>6 DEF UserRemoves, TypeOK, Files
<1> QED
  BY <1>2, <1>3, <1>4, <1>5, <1>6 DEF Next, UploadWork

\* What is left of OpensNewFile: a file that an upload empties is one that another
\* upload has opened, and that was not in the folder when this one began.
THEOREM OnlyUploadsCollide ==
    Spec => [][\A u \in Uploads :
                 OpenFile(u) /\ Path(u) \in Files =>
                     /\ Path(u) \notin before[u]
                     /\ \E v \in Uploads \ {u} : pc[v] \in Opened /\ Path(v) = Path(u)]_vars
<1>1. Init => FoundIsOthers
  BY DEF Init, FoundIsOthers
<1>2. IInv /\ FoundIsOthers /\ [Next]_vars
      => [\A u \in Uploads :
             OpenFile(u) /\ Path(u) \in Files =>
                 /\ Path(u) \notin before[u]
                 /\ \E v \in Uploads \ {u} : pc[v] \in Opened /\ Path(v) = Path(u)]_vars
  BY DEF IInv, ChosenIsNew, FoundIsOthers, OpenFile
<1>3. IInv => TypeOK
  BY DEF IInv
<1> QED
  BY <1>1, <1>2, <1>3, InitIInv, NextIInv, NextFound, PTL DEF Spec
=============================================================================
