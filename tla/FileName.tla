------------------------------ MODULE FileName ------------------------------
(***************************************************************************)
(* Names of uploaded files (utils/FileName.cpp): decoding, validation, and *)
(* the candidates of MakeUniquePath.                                       *)
(*                                                                         *)
(* A name is a sequence of characters, of which only those are told apart  *)
(* that the code treats in a way of their own; a number n in a name stands *)
(* for " (n)".  In a query, a character may be escaped (%XX).              *)
(***************************************************************************)
EXTENDS Integers, Sequences, FiniteSetsExt

CONSTANTS Ordinary,    \* characters without a role
          Dot, Space, Plus,
          Separators,  \* / \ :
          Dropped,     \* < > " | ? * and control characters
          NotUtf8,     \* bytes that no UTF-8 text has
          Devices      \* the names Windows reserves for devices: NUL, CON, COM1 ...

Characters == Ordinary \cup {Dot, Space, Plus} \cup Separators \cup Dropped \cup NotUtf8

ASSUME CharactersAssumption == \A c \in Characters : c \notin Nat

\* What names are made of.
Text == Characters \cup Nat

\* Mutated form: literal characters only.
DecodeLiteral(raw) == [i \in DOMAIN raw |-> IF raw[i].char = Plus THEN Space ELSE raw[i].char]

UrlDecode(raw) ==
    [i \in DOMAIN raw |->
        IF raw[i].char = Plus /\ ~raw[i].escaped THEN Space ELSE raw[i].char]

LooksLikeTraversal(name) ==
    \/ \E i \in DOMAIN name : name[i] \in Separators
    \/ name \in {<<Dot>>, <<Dot, Dot>>}

\* The loop over the name: what is kept of its first i characters, without those
\* that Windows refuses.
Kept(name) ==
    LET result[i \in 0 .. Len(name)] ==
            IF i = 0 THEN <<>>
            ELSE IF name[i] \in Separators \cup Dropped THEN result[i - 1]
            ELSE Append(result[i - 1], name[i])
    IN  result

Allowed(name) == Kept(name)[Len(name)]

\* Nor does a name end with a dot or a space, or begin with a space.
SanitizeFileName(name) ==
    LET allowed == Allowed(name)
        ends == {i \in DOMAIN allowed : allowed[i] \notin {Dot, Space}}
        begins == {i \in DOMAIN allowed : allowed[i] # Space}
    IN  IF ends = {} THEN <<>> ELSE SubSeq(allowed, Min(begins), Max(ends))

\* What follows in the code, the look for the parts of a path, finds none in a name
\* that has passed so far.
ValidUploadFileName(name) ==
    /\ name # <<>>
    /\ ~LooksLikeTraversal(name)
    /\ SanitizeFileName(name) # <<>>

\* Utf8ToWide throws.
Undecodable(name) == \E i \in DOMAIN name : name[i] \in NotUtf8

-----------------------------------------------------------------------------
\* Where the extension begins: at the last dot that is not the first character.
ExtensionAt(name) ==
    LET dots == {i \in 2 .. Len(name) : name[i] = Dot}
    IN  IF dots = {} THEN Len(name) + 1 ELSE Max(dots)

Stem(name) == SubSeq(name, 1, ExtensionAt(name) - 1)
Extension(name) == SubSeq(name, ExtensionAt(name), Len(name))

\* The i-th name that MakeUniquePath tries.
Candidate(name, i) == IF i = 0 THEN name ELSE Stem(name) \o <<i>> \o Extension(name)

\* Windows opens the device whatever the folder, the extension, and the spaces before it.
NamesDevice(name) ==
    \E n \in DOMAIN name :
        /\ SubSeq(name, 1, n) \in Devices
        /\ \E m \in n .. Len(name) :
              /\ \A i \in n + 1 .. m : name[i] = Space
              /\ m = Len(name) \/ name[m + 1] = Dot

\* A name of characters that Windows takes as they are, in the folder itself.  Nothing in
\* the code looks for the names of devices: they may be plain too.
PlainName(name) ==
    /\ name # <<>>
    /\ \A i \in DOMAIN name : name[i] \notin Separators \cup Dropped \cup NotUtf8
    /\ name[1] # Space
    /\ name[Len(name)] \notin {Dot, Space}
=============================================================================
