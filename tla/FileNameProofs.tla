--------------------------- MODULE FileNameProofs ---------------------------
(***************************************************************************)
(* What the functions on names return, for names of any length.            *)
(*                                                                         *)
(* The induction they need is over a set of numbers: the minimum of its    *)
(* complement, which exists because < is well founded, would be no number. *)
(***************************************************************************)
EXTENDS FileName, FiniteSetTheorems, SequenceTheorems, WellFoundedInduction, TLAPS

\* Every nonempty set of numbers has a least one.
LEMMA LeastNumber ==
    ASSUME NEW S \in SUBSET Nat, S # {}
    PROVE  \E x \in S : \A y \in S : x =< y
<1> DEFINE Less == {pair \in Nat \X Nat : pair[1] < pair[2]}
<1>1. IsWellFoundedOn(Less, Nat)
  BY NatLessThanWellFounded DEF OpToRel
<1> HIDE DEF Less
<1>2. PICK x \in S : \A y \in S : <<y, x>> \notin Less
  BY <1>1, WFMin
<1>3. ASSUME NEW y \in S PROVE x =< y
  <2>1. x \in Nat /\ y \in Nat
    OBVIOUS
  <2>2. ~(y < x)
    BY <1>2, <2>1 DEF Less
  <2> QED BY <2>1, <2>2
<1> QED
  BY <1>3

\* Induction, for a set.
LEMMA SetInduction ==
    ASSUME NEW S, 0 \in S, \A n \in Nat : n \in S => n + 1 \in S
    PROVE  Nat \subseteq S
<1> SUFFICES ASSUME Nat \ S # {} PROVE FALSE
  OBVIOUS
<1>1. Nat \ S \in SUBSET Nat
  OBVIOUS
<1>2. PICK x \in Nat \ S : \A y \in Nat \ S : x =< y
  BY <1>1, LeastNumber
<1>3. x - 1 \in Nat /\ x - 1 \notin Nat \ S
  BY <1>2
<1> QED
  BY <1>3

\* Min and Max of positions of a sequence.
LEMMA MinOfPositions ==
    ASSUME NEW S \in SUBSET Nat, S # {}
    PROVE  Min(S) \in S /\ \A i \in S : Min(S) =< i
BY LeastNumber DEF Min

LEMMA MaxOfPositions ==
    ASSUME NEW n \in Nat, NEW S \in SUBSET (1 .. n), S # {}
    PROVE  Max(S) \in S /\ \A i \in S : i =< Max(S)
<1> DEFINE Above == {n - i : i \in S}
<1>1. Above \in SUBSET Nat /\ Above # {}
  <2>1. \A i \in S : n - i \in Nat
    OBVIOUS
  <2> QED BY <2>1
<1>2. PICK j \in Above : \A k \in Above : j =< k
  BY <1>1, LeastNumber
<1>3. PICK m \in S : j = n - m
  BY <1>2
<1>4. \A i \in S : n - m =< n - i
  BY <1>2, <1>3
<1>5. \A i \in S : m >= i
  BY <1>4
<1> QED
  BY <1>3, <1>5 DEF Max

-----------------------------------------------------------------------------
(* SanitizeFileName. *)

\* The body of the loop of Kept.
Step(result, name, i) ==
    IF i = 0 THEN <<>>
    ELSE IF name[i] \in Separators \cup Dropped THEN result[i - 1]
    ELSE Append(result[i - 1], name[i])

\* The loop can be run to any length ...
LEMMA StepsExist ==
    ASSUME NEW name, NEW n \in Nat
    PROVE  \E result : result = [i \in 0 .. n |-> Step(result, name, i)]
<1> DEFINE Lengths == {m \in Nat : \E result : result = [i \in 0 .. m |-> Step(result, name, i)]}
<1>1. 0 \in Lengths
  <2>1. [i \in 0 .. 0 |-> <<>>] = [i \in 0 .. 0 |-> Step([j \in 0 .. 0 |-> <<>>], name, i)]
    BY DEF Step
  <2> QED BY <2>1
<1>2. ASSUME NEW m \in Nat, m \in Lengths PROVE m + 1 \in Lengths
  <2>1. PICK result : result = [i \in 0 .. m |-> Step(result, name, i)]
    BY <1>2
  <2> DEFINE longer == [i \in 0 .. m + 1 |-> IF i = m + 1 THEN Step(result, name, i) ELSE result[i]]
  <2>2. ASSUME NEW i \in 0 .. m + 1 PROVE longer[i] = Step(longer, name, i)
    <3>1. i # 0 => i - 1 \in 0 .. m /\ longer[i - 1] = result[i - 1]
      OBVIOUS
    <3>2. Step(longer, name, i) = Step(result, name, i)
      BY <3>1 DEF Step
    <3>3. i # m + 1 => result[i] = Step(result, name, i)
      BY <2>1
    <3> QED BY <3>2, <3>3
  <2>3. longer = [i \in 0 .. m + 1 |-> Step(longer, name, i)]
    BY <2>2
  <2> HIDE DEF longer
  <2> QED BY <2>3
<1> HIDE DEF Lengths
<1>3. Nat \subseteq Lengths
  BY <1>1, <1>2, SetInduction
<1> QED
  BY <1>3 DEF Lengths

\* ... so that Kept is what its definition says.
LEMMA KeptIsStepwise ==
    ASSUME NEW C, NEW name \in Seq(C)
    PROVE  \A i \in 0 .. Len(name) : Kept(name)[i] = Step(Kept(name), name, i)
<1>1. \E result : result = [i \in 0 .. Len(name) |-> Step(result, name, i)]
  BY StepsExist, LenProperties
<1>2. Kept(name) = [i \in 0 .. Len(name) |-> Step(Kept(name), name, i)]
  BY <1>1 DEF Kept, Step
<1> QED
  BY <1>2

\* What the loop leaves has no character that Windows refuses.
LEMMA AllowedIsClean ==
    ASSUME NEW C, NEW name \in Seq(C)
    PROVE  Allowed(name) \in Seq(C \ (Separators \cup Dropped))
<1> DEFINE Clean == {i \in Nat : i =< Len(name) => Kept(name)[i] \in Seq(C \ (Separators \cup Dropped))}
<1>1. 0 \in Clean
  <2>1. 0 \in 0 .. Len(name)
    BY LenProperties
  <2>2. Kept(name)[0] = <<>>
    BY <2>1, KeptIsStepwise DEF Step
  <2>3. <<>> \in Seq(C \ (Separators \cup Dropped))
    BY EmptySeq
  <2> QED BY <2>2, <2>3
<1>2. ASSUME NEW i \in Nat, i \in Clean PROVE i + 1 \in Clean
  <2> SUFFICES ASSUME i + 1 =< Len(name)
               PROVE  Kept(name)[i + 1] \in Seq(C \ (Separators \cup Dropped))
    OBVIOUS
  <2>1. name[i + 1] \in C /\ i + 1 \in 0 .. Len(name) /\ i + 1 # 0 /\ (i + 1) - 1 = i
    BY LenProperties
  <2>2. Kept(name)[i] \in Seq(C \ (Separators \cup Dropped))
    BY <1>2, <2>1, LenProperties
  <2>3. Kept(name)[i + 1] = IF name[i + 1] \in Separators \cup Dropped THEN Kept(name)[i]
                            ELSE Append(Kept(name)[i], name[i + 1])
    BY <2>1, KeptIsStepwise DEF Step
  <2> QED BY <2>1, <2>2, <2>3
<1> HIDE DEF Clean
<1>3. Nat \subseteq Clean
  BY <1>1, <1>2, SetInduction
<1> QED
  BY <1>3, LenProperties DEF Clean, Allowed

\* What the loops over the ends leave: the piece from the first character that is no
\* space to the last that is neither dot nor space.
LEMMA TrimmedEnds ==
    ASSUME NEW C, NEW name \in Seq(C), SanitizeFileName(name) # <<>>
    PROVE  \E first, last \in 1 .. Len(Allowed(name)) :
              /\ first =< last
              /\ SanitizeFileName(name) = SubSeq(Allowed(name), first, last)
              /\ Allowed(name)[first] # Space
              /\ Allowed(name)[last] \notin {Dot, Space}
<1> DEFINE allowed == Allowed(name)
           ends == {i \in DOMAIN allowed : allowed[i] \notin {Dot, Space}}
           begins == {i \in DOMAIN allowed : allowed[i] # Space}
<1>1. Len(allowed) \in Nat /\ DOMAIN allowed = 1 .. Len(allowed)
  BY AllowedIsClean, LenProperties
<1>2. ends # {} /\ ends \subseteq begins /\ SanitizeFileName(name) = SubSeq(allowed, Min(begins), Max(ends))
  BY DEF SanitizeFileName
<1>3. Min(begins) \in begins /\ \A i \in begins : Min(begins) =< i
  <2>1. begins \in SUBSET Nat /\ begins # {}
    BY <1>1, <1>2
  <2> HIDE DEF begins
  <2> QED BY <2>1, MinOfPositions
<1>4. Max(ends) \in ends
  <2>1. ends \in SUBSET (1 .. Len(allowed)) /\ ends # {}
    BY <1>1, <1>2
  <2> HIDE DEF ends, allowed
  <2> QED BY <1>1, <2>1, MaxOfPositions
<1>5. Min(begins) =< Max(ends)
  BY <1>2, <1>3, <1>4
<1>6. Min(begins) \in 1 .. Len(allowed) /\ Max(ends) \in 1 .. Len(allowed)
  BY <1>1, <1>3, <1>4, <1>5
<1> QED
  BY <1>2, <1>3, <1>4, <1>6

\* A name that passed the validation and is UTF-8 is plain once it is cleaned.
LEMMA SanitizedIsPlain ==
    ASSUME NEW C, NEW name \in Seq(C), SanitizeFileName(name) # <<>>,
           ~Undecodable(SanitizeFileName(name))
    PROVE  SanitizeFileName(name) \in Seq(C) /\ PlainName(SanitizeFileName(name))
<1> DEFINE allowed == Allowed(name)
           clean == C \ (Separators \cup Dropped)
<1>1. PICK first, last \in 1 .. Len(allowed) :
          /\ first =< last
          /\ SanitizeFileName(name) = SubSeq(allowed, first, last)
          /\ allowed[first] # Space
          /\ allowed[last] \notin {Dot, Space}
  BY TrimmedEnds
<1>2. allowed \in Seq(clean) /\ Len(allowed) \in Nat
  BY AllowedIsClean, LenProperties
<1> DEFINE sanitized == SubSeq(allowed, first, last)
<1> HIDE DEF allowed, clean
<1>3. \A i \in first .. last : allowed[i] \in clean
  BY <1>2, ElementOfSeq
<1>4. /\ sanitized \in Seq(clean)
      /\ Len(sanitized) = last - first + 1
      /\ \A i \in 1 .. last - first + 1 : sanitized[i] = allowed[first + i - 1]
  <2>1. first \in Int /\ last \in Int
    BY <1>2
  <2> QED BY <1>1, <1>3, <2>1, SubSeqProperties
<1> HIDE DEF sanitized
<1>5. Len(sanitized) \in Nat \ {0} /\ DOMAIN sanitized = 1 .. Len(sanitized)
  BY <1>1, <1>2, <1>4, LenProperties
<1>6. sanitized[1] = allowed[first] /\ sanitized[Len(sanitized)] = allowed[last]
  BY <1>2, <1>4, <1>5
<1>7. \A i \in DOMAIN sanitized : sanitized[i] \in clean /\ sanitized[i] \notin NotUtf8
  BY <1>1, <1>4, <1>5, ElementOfSeq DEF Undecodable, sanitized
<1>8. PlainName(sanitized)
  BY <1>1, <1>5, <1>6, <1>7 DEF PlainName, clean
<1>9. sanitized \in Seq(C)
  BY <1>4 DEF clean
<1> QED
  BY <1>1, <1>8, <1>9 DEF sanitized

\* A name that is plain passes unchanged: the user finds the file under the name the
\* phone gave it.
THEOREM PlainNamesAreKept ==
    ASSUME NEW C, NEW name \in Seq(C), PlainName(name)
    PROVE  SanitizeFileName(name) = name
<1>1. Len(name) \in Nat \ {0} /\ DOMAIN name = 1 .. Len(name)
  BY EmptySeq, LenProperties DEF PlainName
<1> DEFINE Same == {i \in Nat : i =< Len(name) => Kept(name)[i] = SubSeq(name, 1, i)}
<1>2. 0 \in Same
  <2>1. Kept(name)[0] = <<>>
    BY <1>1, KeptIsStepwise DEF Step
  <2>2. SubSeq(name, 1, 0) = <<>>
    BY SubSeqEmpty
  <2> QED BY <2>1, <2>2
<1>3. ASSUME NEW i \in Nat, i \in Same PROVE i + 1 \in Same
  <2> SUFFICES ASSUME i + 1 =< Len(name) PROVE Kept(name)[i + 1] = SubSeq(name, 1, i + 1)
    OBVIOUS
  <2>1. i + 1 \in 1 .. Len(name) /\ i + 1 # 0 /\ (i + 1) - 1 = i /\ i =< Len(name)
    BY <1>1
  <2>2. name[i + 1] \notin Separators \cup Dropped
    BY <1>1, <2>1 DEF PlainName
  <2>3. Kept(name)[i + 1] = Append(Kept(name)[i], name[i + 1])
    <3>1. Kept(name)[i + 1] = Step(Kept(name), name, i + 1)
      BY <1>1, <2>1, KeptIsStepwise
    <3> QED BY <2>1, <2>2, <3>1 DEF Step
  <2>4. SubSeq(name, 1, i) \in Seq(C)
    BY <1>1, <2>1, ElementOfSeq, SubSeqProperties
  <2>5. SubSeq(name, 1, i + 1) = SubSeq(name, 1, i) \o <<name[i + 1]>>
    BY <1>1, <2>1, SubSeqRecursiveSecond
  <2>6. SubSeq(name, 1, i) \o <<name[i + 1]>> = Append(SubSeq(name, 1, i), name[i + 1])
    BY <2>1, <2>4, ElementOfSeq, AppendIsConcat
  <2> QED BY <1>3, <2>1, <2>3, <2>5, <2>6
<1> HIDE DEF Same
<1>4. Nat \subseteq Same
  BY <1>2, <1>3, SetInduction
<1>5. Allowed(name) = name
  BY <1>1, <1>4, SubSeqFull DEF Same, Allowed
<1> DEFINE ends == {i \in DOMAIN name : name[i] \notin {Dot, Space}}
           begins == {i \in DOMAIN name : name[i] # Space}
<1>6. Len(name) \in ends /\ 1 \in begins
  BY <1>1 DEF PlainName
<1>7. Max(ends) = Len(name)
  <2>1. ends \in SUBSET (1 .. Len(name)) /\ ends # {}
    BY <1>1, <1>6
  <2> HIDE DEF ends
  <2>2. Max(ends) \in ends /\ \A i \in ends : i =< Max(ends)
    BY <1>1, <2>1, MaxOfPositions
  <2>3. Max(ends) \in 1 .. Len(name) /\ Len(name) =< Max(ends)
    BY <1>6, <2>1, <2>2
  <2> QED BY <1>1, <2>3
<1>8. Min(begins) = 1
  <2>1. begins \in SUBSET (1 .. Len(name)) /\ begins # {}
    BY <1>1, <1>6
  <2> HIDE DEF begins
  <2>2. Min(begins) \in begins /\ \A i \in begins : Min(begins) =< i
    BY <1>1, <2>1, MinOfPositions
  <2>3. Min(begins) \in 1 .. Len(name) /\ Min(begins) =< 1
    BY <1>6, <2>1, <2>2
  <2> QED BY <1>1, <2>3
<1>9. SanitizeFileName(name) = SubSeq(name, 1, Len(name))
  BY <1>5, <1>6, <1>7, <1>8 DEF SanitizeFileName
<1> QED
  BY <1>9, SubSeqFull

-----------------------------------------------------------------------------
(* The candidates of MakeUniquePath. *)

LEMMA ExtensionPosition ==
    ASSUME NEW C, NEW name \in Seq(C)
    PROVE  ExtensionAt(name) \in 1 .. Len(name) + 1 /\ (name # <<>> => ExtensionAt(name) >= 2)
<1> DEFINE dots == {i \in 2 .. Len(name) : name[i] = Dot}
<1>1. Len(name) \in Nat /\ (name # <<>> => Len(name) # 0)
  BY EmptySeq, LenProperties
<1>2. dots \in SUBSET (1 .. Len(name)) /\ \A i \in dots : i >= 2
  BY <1>1
<1>3. ExtensionAt(name) = IF dots = {} THEN Len(name) + 1 ELSE Max(dots)
  BY DEF ExtensionAt
<1> HIDE DEF dots
<1>4. CASE dots = {}
  BY <1>1, <1>3, <1>4
<1>5. CASE dots # {}
  <2>1. Max(dots) \in dots
    BY <1>1, <1>2, <1>5, MaxOfPositions
  <2>2. Max(dots) \in 1 .. Len(name) /\ Max(dots) >= 2
    BY <1>2, <2>1
  <2> QED BY <1>1, <1>3, <1>5, <2>2
<1> QED
  BY <1>4, <1>5

\* A number is put in front of the extension, and nothing else changes.
LEMMA NumberedName ==
    ASSUME NEW C, NEW name \in Seq(C), NEW i \in Nat \ {0}
    PROVE  /\ Candidate(name, i) \in Seq(C \cup Nat)
           /\ Len(Candidate(name, i)) = Len(name) + 1
           /\ \A k \in 1 .. Len(name) + 1 :
                 Candidate(name, i)[k] = IF k < ExtensionAt(name) THEN name[k]
                                         ELSE IF k = ExtensionAt(name) THEN i ELSE name[k - 1]
<1> DEFINE at == ExtensionAt(name)
           stem == Stem(name)
           extension == Extension(name)
           D == C \cup Nat
<1>1. Len(name) \in Nat /\ at \in 1 .. Len(name) + 1
  BY ExtensionPosition, LenProperties
<1>2. \A k \in 1 .. Len(name) : name[k] \in D
  BY ElementOfSeq
<1> HIDE DEF at, D
<1>3. /\ stem \in Seq(D) /\ Len(stem) = at - 1
      /\ \A k \in 1 .. at - 1 : stem[k] = name[k]
  <2>1. at - 1 \in Int /\ \A k \in 1 .. at - 1 : k \in 1 .. Len(name)
    BY <1>1
  <2>2. SubSeq(name, 1, at - 1) = stem
    BY DEF Stem, at
  <2> QED BY <1>1, <1>2, <2>1, <2>2, SubSeqProperties
<1>4. /\ extension \in Seq(D) /\ Len(extension) = Len(name) - at + 1
      /\ \A k \in 1 .. Len(name) - at + 1 : extension[k] = name[at + k - 1]
  <2>1. at \in Int /\ Len(name) \in Int /\ \A k \in at .. Len(name) : k \in 1 .. Len(name)
    BY <1>1
  <2>2. SubSeq(name, at, Len(name)) = extension
    BY DEF Extension, at
  <2> DEFINE length == Len(name)
  <2>3. length \in Int /\ \A k \in at .. length : name[k] \in D
    BY <1>2, <2>1
  <2> HIDE DEF length, extension
  <2>4. /\ SubSeq(name, at, length) \in Seq(D)
        /\ Len(SubSeq(name, at, length)) = IF at <= length THEN length - at + 1 ELSE 0
        /\ \A k \in 1 .. length - at + 1 : SubSeq(name, at, length)[k] = name[at + k - 1]
    BY <2>1, <2>3, SubSeqProperties
  <2>5. Len(extension) = Len(name) - at + 1
    BY <1>1, <2>2, <2>4 DEF length
  <2> QED BY <2>2, <2>4, <2>5 DEF length
<1> HIDE DEF stem, extension
<1>5. <<i>> \in Seq(D) /\ Len(<<i>>) = 1 /\ <<i>>[1] = i
  BY DEF D
<1>6. /\ stem \o <<i>> \in Seq(D) /\ Len(stem \o <<i>>) = at
      /\ \A k \in 1 .. at : (stem \o <<i>>)[k] = IF k < at THEN name[k] ELSE i
  <2>1. stem \o <<i>> \in Seq(D) /\ Len(stem \o <<i>>) = at
    BY <1>1, <1>3, <1>5, ConcatProperties
  <2>2. ASSUME NEW k \in 1 .. at PROVE (stem \o <<i>>)[k] = IF k < at THEN name[k] ELSE i
    <3>1. (stem \o <<i>>)[k] = IF k <= at - 1 THEN stem[k] ELSE <<i>>[k - (at - 1)]
      BY <1>1, <1>3, <1>5, ConcatProperties
    <3> QED BY <1>1, <1>3, <1>5, <3>1
  <2> QED BY <2>1, <2>2
<1>7. Candidate(name, i) = (stem \o <<i>>) \o extension
  BY DEF Candidate, stem, extension
<1>8. Candidate(name, i) \in Seq(D) /\ Len(Candidate(name, i)) = Len(name) + 1
  <2>1. /\ (stem \o <<i>>) \o extension \in Seq(D)
        /\ Len((stem \o <<i>>) \o extension) = Len(stem \o <<i>>) + Len(extension)
    BY <1>4, <1>6, ConcatProperties
  <2>2. Candidate(name, i) \in Seq(D)
    BY <1>7, <2>1
  <2>3. Len(Candidate(name, i)) = at + (Len(name) - at + 1)
    BY <1>4, <1>6, <1>7, <2>1
  <2> QED BY <1>1, <2>2, <2>3
<1>9. ASSUME NEW k \in 1 .. Len(name) + 1
      PROVE  Candidate(name, i)[k] = IF k < at THEN name[k] ELSE IF k = at THEN i ELSE name[k - 1]
  <2>1. Candidate(name, i)[k] = IF k <= at THEN (stem \o <<i>>)[k] ELSE extension[k - at]
    BY <1>1, <1>4, <1>6, <1>7, ConcatProperties
  <2>2. CASE k =< at
    BY <1>1, <1>6, <2>1, <2>2
  <2>3. CASE k > at
    <3>1. k - at \in 1 .. Len(name) - at + 1 /\ at + (k - at) - 1 = k - 1
      BY <1>1, <2>3
    <3>2. extension[k - at] = name[k - 1]
      BY <1>4, <3>1
    <3> QED BY <1>1, <2>1, <2>3, <3>2
  <2> QED BY <1>1, <2>2, <2>3
<1> QED
  BY <1>8, <1>9 DEF at, D

\* MakeUniquePath never tries a name twice.
LEMMA CandidatesDiffer ==
    ASSUME NEW C, NEW name \in Seq(C), NEW i \in Nat, NEW j \in Nat, i # j
    PROVE  Candidate(name, i) # Candidate(name, j)
<1>1. Len(name) \in Nat /\ ExtensionAt(name) \in 1 .. Len(name) + 1
  BY ExtensionPosition, LenProperties
<1>2. Candidate(name, 0) = name
  BY DEF Candidate
<1>3. \A k \in Nat \ {0} : Len(Candidate(name, k)) = Len(name) + 1
  BY NumberedName
<1>4. ASSUME NEW k \in Nat \ {0} PROVE Candidate(name, k)[ExtensionAt(name)] = k
  <2>1. \A p \in 1 .. Len(name) + 1 :
            Candidate(name, k)[p] = IF p < ExtensionAt(name) THEN name[p]
                                    ELSE IF p = ExtensionAt(name) THEN k ELSE name[p - 1]
    BY NumberedName
  <2> QED BY <1>1, <2>1
<1>5. CASE i = 0 \/ j = 0
  BY <1>1, <1>2, <1>3, <1>5
<1>6. CASE i # 0 /\ j # 0
  BY <1>4, <1>6
<1> QED
  BY <1>5, <1>6

\* So a folder with n files leaves one of the first n + 1 candidates free: the search
\* of an upload that nothing disturbs is over by then.
THEOREM SomeCandidateIsFree ==
    ASSUME NEW C, NEW name \in Seq(C), NEW Taken, IsFiniteSet(Taken)
    PROVE  \E i \in 0 .. Cardinality(Taken) : Candidate(name, i) \notin Taken
<1> SUFFICES ASSUME \A i \in 0 .. Cardinality(Taken) : Candidate(name, i) \in Taken
             PROVE  FALSE
  OBVIOUS
<1> DEFINE Numbers == 0 .. Cardinality(Taken)
           try == [i \in Numbers |-> Candidate(name, i)]
<1>1. Cardinality(Taken) \in Nat
  BY FS_CardinalityType
<1>2. IsFiniteSet(Numbers) /\ Cardinality(Numbers) = Cardinality(Taken) + 1
  BY <1>1, FS_Interval
<1>3. try \in [Numbers -> Taken] /\ Cardinality(Taken) < Cardinality(Numbers)
  BY <1>1, <1>2
<1> HIDE DEF Numbers
<1>4. PICK i, j \in Numbers : i # j /\ try[i] = try[j]
  <2> HIDE DEF try
  <2> QED BY <1>2, <1>3, FS_PigeonHole
<1>5. i \in Nat /\ j \in Nat
  BY <1>1 DEF Numbers
<1> QED
  BY <1>4, <1>5, CandidatesDiffer

\* A number keeps a plain name plain.
LEMMA CandidateIsPlain ==
    ASSUME NEW name \in Seq(Text), PlainName(name), NEW i \in Nat
    PROVE  PlainName(Candidate(name, i))
<1>1. CASE i = 0
  BY <1>1 DEF Candidate
<1>2. CASE i # 0
  <2> DEFINE numbered == Candidate(name, i)
             at == ExtensionAt(name)
  <2>1. Len(name) \in Nat \ {0} /\ DOMAIN name = 1 .. Len(name)
    BY EmptySeq, LenProperties DEF PlainName
  <2>2. at \in 2 .. Len(name) + 1
    BY <2>1, ExtensionPosition DEF PlainName
  <2>3. i \notin Separators \cup Dropped \cup NotUtf8 \cup {Dot, Space}
    BY CharactersAssumption DEF Characters
  <2>4. /\ numbered \in Seq(Text \cup Nat) /\ Len(numbered) = Len(name) + 1
        /\ \A k \in 1 .. Len(name) + 1 :
              numbered[k] = IF k < at THEN name[k] ELSE IF k = at THEN i ELSE name[k - 1]
    <3>1. i \in Nat \ {0}
      BY <1>2
    <3> QED BY <3>1, NumberedName
  <2> HIDE DEF numbered, at
  <2>5. DOMAIN numbered = 1 .. Len(name) + 1 /\ numbered # <<>>
    BY <2>1, <2>4, EmptySeq, LenProperties
  <2>6. ASSUME NEW k \in DOMAIN numbered PROVE numbered[k] \notin Separators \cup Dropped \cup NotUtf8
    <3>1. k < at => k \in DOMAIN name
      BY <2>1, <2>2, <2>5
    <3>2. k > at => k - 1 \in DOMAIN name
      BY <2>1, <2>2, <2>5
    <3> QED BY <2>1, <2>2, <2>3, <2>4, <2>5, <3>1, <3>2 DEF PlainName
  <2>7. numbered[1] # Space
    BY <2>1, <2>2, <2>4 DEF PlainName
  <2>8. numbered[Len(numbered)] \notin {Dot, Space}
    BY <2>1, <2>2, <2>3, <2>4 DEF PlainName
  <2> QED BY <2>5, <2>6, <2>7, <2>8 DEF PlainName, numbered
<1> QED
  BY <1>1, <1>2
=============================================================================
