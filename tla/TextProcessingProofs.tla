------------------------- MODULE TextProcessingProofs -------------------------
(***************************************************************************)
(* Proofs about TextProcessing for any texts, stopwords, capacity of words *)
(* and stemmer.                                                            *)
(***************************************************************************)
EXTENDS TextProcessing, SequenceTheorems, FiniteSetTheorems, WellFoundedInduction, TLAPS

\* What a stemmer of libstemmer promises: sb_stemmer_length() is a number of bytes.
StemIsLength == \A code, S : \A token \in Seq(S) : Stem(code, token) \in Nat

\* A sequence of some elements.
IsSequence(s) == \E S : s \in Seq(S)

LEMMA MinOfTwo ==
    ASSUME NEW a \in Int, NEW b \in Int
    PROVE  Min({a, b}) = IF a <= b THEN a ELSE b
<1>1. \E x \in {a, b} : \A y \in {a, b} : x =< y
    OBVIOUS
<1>2. Min({a, b}) \in {a, b} /\ \A y \in {a, b} : Min({a, b}) =< y
    BY <1>1 DEF Min
<1> QED BY <1>2

\* A prefix of known length is a sequence of that length.
LEMMA Prefix ==
    ASSUME NEW s, NEW m \in Int, NEW n \in Nat
    PROVE  /\ SubSeq(s, m, m + n - 1) \in Seq({s[i] : i \in m..(m + n - 1)})
           /\ Len(SubSeq(s, m, m + n - 1)) = n
           /\ \A i \in 1..n : SubSeq(s, m, m + n - 1)[i] = s[m + i - 1]
<1>1. SubSeq(s, m, m + n - 1) = [i \in 1..n |-> s[i + m - 1]]
    OBVIOUS
<1> QED BY <1>1

-----------------------------------------------------------------------------
\* Induction over natural numbers, for the set of those a statement holds for.
LEMMA InductiveSet ==
    ASSUME NEW T, 0 \in T, \A n \in Nat : n \in T => n + 1 \in T
    PROVE  Nat \subseteq T
<1> SUFFICES ASSUME Nat \ T # {} PROVE FALSE
    OBVIOUS
<1>1. PICK x \in Nat \ T : \A y \in Nat \ T : ~(<<y, x>> \in OpToRel(<, Nat))
    BY NatLessThanWellFounded, WFMin
<1>2. x \in Nat /\ x \notin T
    OBVIOUS
<1>3. x # 0
    BY <1>2
<1>4. x - 1 \in Nat /\ x - 1 < x /\ (x - 1) + 1 = x
    BY ONLY <1>2, <1>3
<1>5. x - 1 \in T
  <2>1. <<x - 1, x>> \in OpToRel(<, Nat)
      BY <1>2, <1>4 DEF OpToRel
  <2>2. x - 1 \notin Nat \ T
      BY <1>1, <2>1
  <2> QED BY <1>4, <2>2
<1> QED BY <1>2, <1>4, <1>5

-----------------------------------------------------------------------------
\* The offsets are numbers whatever the text is.
Offsets == in \in Nat /\ out \in Nat /\ start \in Nat

LEMMA OffsetsInv == Spec => []Offsets
<1>1. Init => Offsets
    BY DEF Init, Offsets
<1>2. Offsets /\ [Next]_vars => Offsets'
  <2> SUFFICES ASSUME Offsets, [Next]_vars PROVE Offsets'
      OBVIOUS
  <2>1. CASE ReadPoint
      BY <2>1 DEF ReadPoint, Offsets, Width
  <2>2. CASE ProcessToken
      BY <2>2 DEF ProcessToken, Offsets
  <2>3. CASE build
      BY <2>3 DEF build, Offsets
  <2>4. CASE saveNewDocument
      BY <2>4 DEF saveNewDocument, Offsets
  <2>5. CASE UNCHANGED vars
      BY <2>5 DEF vars, Offsets
  <2> QED BY <2>1, <2>2, <2>3, <2>4, <2>5 DEF Next
<1> QED BY <1>1, <1>2, PTL DEF Spec

-----------------------------------------------------------------------------
\* The entries of a WordAccumulator: what is stored of a view follows from the view.

IsView(v) == IsSequence(v) /\ Len(v) <= Capacity - 1

IsEntry(w) ==
    /\ w = [view |-> w.view, word |-> w.word, size |-> w.size, count |-> w.count]
    /\ IsView(w.view)
    /\ w.word = assignWord(w.view).word
    /\ w.size = assignWord(w.view).size

Entries(words) ==
    /\ IsSequence(words)
    /\ \A i \in DOMAIN words : IsEntry(words[i])
    /\ \A i, j \in DOMAIN words : i # j => words[i].view # words[j].view

\* What strncpy() copies: the bytes up to the limit or the first NUL.
LEMMA Copied ==
    ASSUME NEW v, Len(v) \in Nat, NEW m \in Nat
    PROVE  \E k \in Nat : /\ strncpy(v, m) = SubSeq(v, 1, k)
                          /\ k <= m /\ k <= Len(v)
                          /\ \A i \in 1..k : v[i] # Nul
                          /\ (\A i \in 1..Len(v) : v[i] # Nul) /\ Len(v) <= m => k = Len(v)
<1> DEFINE n == Min({Len(v), m})
           S == {k \in 0..n : \A i \in 1..k : v[i] # Nul}
           T == {x \in Nat : \E k \in S : k <= x /\ \A y \in S : y <= x => y <= k}
<1>1. n \in Nat /\ n <= m /\ n <= Len(v) /\ (Len(v) <= m => n = Len(v))
  <2>1. n = IF Len(v) <= m THEN Len(v) ELSE m
      BY MinOfTwo
  <2> QED BY <2>1
<1> HIDE DEF n
<1>2. 0 \in S
    BY <1>1
<1>3. 0 \in T
    BY <1>1, <1>2
<1>4. ASSUME NEW x \in Nat, x \in T
      PROVE  x + 1 \in T
  <2>1. PICK k \in S : k <= x /\ \A y \in S : y <= x => y <= k
      BY <1>4
  <2>2. \A y \in S : y \in Int /\ (y <= x + 1 => y <= x \/ y = x + 1)
      BY <1>1
  <2>3. CASE x + 1 \in S
    <3>1. \A y \in S : y <= x + 1 => y <= x + 1
        OBVIOUS
    <3> QED BY <2>3, <3>1
  <2>4. CASE x + 1 \notin S
    <3>1. k <= x + 1
        BY <2>1, <2>2
    <3>2. \A y \in S : y <= x + 1 => y <= k
        BY <2>1, <2>2, <2>4
    <3> QED BY <3>1, <3>2
  <2> QED BY <2>3, <2>4
<1>5. n \in T
  <2> HIDE DEF T
  <2> QED BY <1>1, <1>3, <1>4, InductiveSet
<1>6. PICK k \in S : k <= n /\ \A y \in S : y <= n => y <= k
    BY <1>5
<1>7. \A y \in S : k >= y
    BY <1>1, <1>6
<1>8. Max(S) \in S /\ \A y \in S : Max(S) >= y
  <2> HIDE DEF S
  <2> QED BY <1>6, <1>7 DEF Max
<1>9. strncpy(v, m) = SubSeq(v, 1, Max(S))
    BY DEF strncpy, n
<1>10. Max(S) \in Nat /\ Max(S) <= n /\ \A i \in 1..Max(S) : v[i] # Nul
    BY <1>1, <1>8
<1>11. (\A i \in 1..Len(v) : v[i] # Nul) /\ Len(v) <= m => Max(S) = Len(v)
  <2> SUFFICES ASSUME \A i \in 1..Len(v) : v[i] # Nul, Len(v) <= m
               PROVE  Max(S) = Len(v)
      OBVIOUS
  <2>1. Len(v) \in S
      BY <1>1
  <2> QED BY <1>1, <1>8, <1>10, <2>1
<1> HIDE DEF S
<1>12. Max(S) <= m /\ Max(S) <= Len(v)
    BY <1>1, <1>10
<1> QED BY <1>9, <1>10, <1>11, <1>12

LEMMA Assigned ==
    ASSUME NEW v, IsSequence(v)
    PROVE  /\ IsSequence(assignWord(v).word)
           /\ Len(assignWord(v).word) \in Nat
           /\ Len(assignWord(v).word) <= Len(v) /\ Len(assignWord(v).word) <= Capacity - 2
           /\ Len(assignWord(v).word) = Len(v) => assignWord(v).word = v
           /\ \A i \in 1..Len(assignWord(v).word) : assignWord(v).word[i] # Nul
           /\ assignWord(v).size = IF Len(v) <= Capacity - 1 THEN Len(v) ELSE Capacity - 1
           /\ (\A i \in 1..Len(v) : v[i] # Nul) /\ Len(v) <= Capacity - 2
                 => assignWord(v).word = v
<1>1. PICK S : v \in Seq(S)
    BY DEF IsSequence
<1>2. Len(v) \in Nat /\ Capacity \in Nat /\ Capacity - 2 \in Nat
    BY <1>1, CapacityAssumption
<1>3. PICK n \in Nat : /\ strncpy(v, Capacity - 2) = SubSeq(v, 1, n)
                       /\ n <= Capacity - 2 /\ n <= Len(v)
                       /\ \A i \in 1..n : v[i] # Nul
                       /\ (\A i \in 1..Len(v) : v[i] # Nul) /\ Len(v) <= Capacity - 2
                             => n = Len(v)
    BY <1>2, Copied
<1>4. assignWord(v).word = SubSeq(v, 1, n)
    BY <1>3 DEF assignWord
<1>5. /\ SubSeq(v, 1, n) \in Seq({v[i] : i \in 1..n})
      /\ Len(SubSeq(v, 1, n)) = n
      /\ \A i \in 1..n : SubSeq(v, 1, n)[i] = v[i]
  <2>1. 1 + n - 1 = n /\ \A i \in 1..n : 1 + i - 1 = i
      OBVIOUS
  <2> QED BY <2>1, Prefix
<1>6. n = Len(v) => SubSeq(v, 1, n) = v
    BY <1>1, <1>2
<1>7. assignWord(v).size = IF Len(v) <= Capacity - 1 THEN Len(v) ELSE Capacity - 1
  <2>1. Min({Len(v), Capacity - 1}) = IF Len(v) <= Capacity - 1 THEN Len(v) ELSE Capacity - 1
      BY <1>2, MinOfTwo
  <2> QED BY <2>1 DEF assignWord
<1>8. IsSequence(SubSeq(v, 1, n))
    BY <1>5 DEF IsSequence
<1> QED BY <1>3, <1>4, <1>5, <1>6, <1>7, <1>8

\* Entries of one word that is stored whole have one view.
LEMMA SharedWordIsCut ==
    ASSUME NEW u, NEW v, IsView(u), IsView(v), assignWord(u).word = assignWord(v).word, u # v
    PROVE  \/ Len(assignWord(u).word) < assignWord(u).size
           \/ Len(assignWord(v).word) < assignWord(v).size
<1>1. Len(u) \in Nat /\ Len(v) \in Nat /\ Capacity \in Nat
    BY CapacityAssumption DEF IsView, IsSequence
<1>2. IsSequence(u) /\ IsSequence(v) /\ Len(u) <= Capacity - 1 /\ Len(v) <= Capacity - 1
    BY DEF IsView
<1>3. assignWord(u).size = Len(u) /\ assignWord(v).size = Len(v)
    BY <1>2, Assigned
<1>4. /\ Len(assignWord(u).word) \in Nat /\ Len(assignWord(u).word) <= Len(u)
      /\ Len(assignWord(v).word) \in Nat /\ Len(assignWord(v).word) <= Len(v)
    BY <1>2, Assigned
<1>5. ~(Len(assignWord(u).word) = Len(u) /\ Len(assignWord(v).word) = Len(v))
    BY <1>2, Assigned
<1> QED BY <1>1, <1>3, <1>4, <1>5

LEMMA AddKeepsEntries ==
    ASSUME NEW words, Entries(words), NEW v, IsView(v)
    PROVE  Entries(add(words, v))
<1>1. PICK S : words \in Seq(S)
    BY DEF Entries, IsSequence
<1>2. CASE Counted(words, v) = {}
  <2>1. add(words, v) = Append(words, scored(v))
      BY <1>2 DEF add
  <2>2. words \in Seq(S \cup {scored(v)})
      BY <1>1
  <2>3. /\ Append(words, scored(v)) \in Seq(S \cup {scored(v)})
        /\ DOMAIN Append(words, scored(v)) = DOMAIN words \cup {Len(words) + 1}
        /\ Append(words, scored(v))[Len(words) + 1] = scored(v)
        /\ \A i \in DOMAIN words : i # Len(words) + 1 /\ Append(words, scored(v))[i] = words[i]
      BY <2>2
  <2>4. IsEntry(scored(v)) /\ scored(v).view = v
      BY DEF IsEntry, scored
  <2>5. \A i \in DOMAIN words : words[i].view # v
      BY <1>2 DEF Counted
  <2>6. IsSequence(add(words, v))
      BY <2>1, <2>3 DEF IsSequence
  <2>7. \A i \in DOMAIN add(words, v) : IsEntry(add(words, v)[i])
      BY <2>1, <2>3, <2>4 DEF Entries
  <2>8. \A i, j \in DOMAIN add(words, v) : i # j => add(words, v)[i].view # add(words, v)[j].view
      BY <2>1, <2>3, <2>4, <2>5 DEF Entries
  <2> QED BY <2>6, <2>7, <2>8 DEF Entries
<1>3. CASE Counted(words, v) # {}
  <2> DEFINE f == add(words, v)
  <2>1. f = [i \in DOMAIN words |->
                IF i \in Counted(words, v) THEN [words[i] EXCEPT !.count = @ + 1] ELSE words[i]]
      BY <1>3 DEF add
  <2>2. \A i \in DOMAIN words :
           /\ IsEntry(f[i]) /\ f[i].view = words[i].view
    <3> SUFFICES ASSUME NEW i \in DOMAIN words
                 PROVE  IsEntry(f[i]) /\ f[i].view = words[i].view
        OBVIOUS
    <3>1. IsEntry(words[i])
        BY DEF Entries
    <3>2. f[i] = words[i] \/ f[i] = [words[i] EXCEPT !.count = @ + 1]
        BY <2>1
    <3> DEFINE w == words[i]
    <3>3. [w EXCEPT !.count = @ + 1]
             = [view |-> w.view, word |-> w.word, size |-> w.size, count |-> w.count + 1]
        BY <3>1 DEF IsEntry
    <3> QED BY <3>1, <3>2, <3>3 DEF IsEntry
  <2>3. f \in Seq({f[i] : i \in DOMAIN words})
      BY <2>1, <1>1
  <2>4. DOMAIN f = DOMAIN words
      BY <2>1
  <2>5. IsSequence(f)
      BY <2>3 DEF IsSequence
  <2>6. \A i, j \in DOMAIN words : i # j => f[i].view # f[j].view
      BY <2>2 DEF Entries
  <2> HIDE DEF f
  <2>7. Entries(f)
      BY <2>2, <2>4, <2>5, <2>6 DEF Entries
  <2> QED BY <2>7 DEF f
<1> QED BY <1>2, <1>3

-----------------------------------------------------------------------------
\* What has become of the entries: nothing yet, the document, or the stored document.

Listed ==
    [i \in DOMAIN scoredWords |->
        [word |-> scoredWords[i].word, size |-> scoredWords[i].size,
         score |-> scoredWords[i].count]]

Stages ==
    \/ pc \in {"read", "token", "build"} /\ document = << >> /\ stored = << >>
    \/ pc = "save" /\ document = [words |-> Listed, hash |-> text] /\ stored = << >>
    \/ pc = "saved" /\ document = [words |-> Listed, hash |-> text] /\ stored = serialize(document)

WordsInv == Entries(scoredWords) /\ Stages

\* The view of a token is a sequence that is not longer than assignWord() takes.
LEMMA ViewOfToken ==
    ASSUME StemIsLength, Offsets, NEW end \in Int, NEW code
    PROVE  LET token == SubSeq(text, start + 1, end)
           IN  IsView(SubSeq(token, 1, Min({Stem(code, token), Capacity - 1})))
<1> DEFINE token == SubSeq(text, start + 1, end)
           length == Min({Stem(code, token), Capacity - 1})
<1>1. IsSequence(token)
  <2>1. CASE end >= start
    <3>1. end - start \in Nat /\ start + 1 \in Int /\ start + 1 + (end - start) - 1 = end
        BY <2>1 DEF Offsets
    <3>2. SubSeq(text, start + 1, start + 1 + (end - start) - 1)
             \in Seq({text[i] : i \in (start + 1)..(start + 1 + (end - start) - 1)})
        BY ONLY <3>1, Prefix
    <3>3. token \in Seq({text[i] : i \in (start + 1)..end})
        BY <3>1, <3>2
    <3> QED BY <3>3 DEF IsSequence
  <2>2. CASE end < start
    <3>1. token = << >>
        BY <2>2 DEF Offsets
    <3>2. << >> \in Seq({})
        OBVIOUS
    <3> QED BY <3>1, <3>2 DEF IsSequence
  <2> QED BY <2>1, <2>2 DEF Offsets
<1>2. Stem(code, token) \in Nat /\ Capacity - 1 \in Nat
  <2> HIDE DEF token
  <2>1. PICK S : token \in Seq(S)
      BY <1>1 DEF IsSequence
  <2> QED BY <2>1, CapacityAssumption DEF StemIsLength
<1>3. length \in Nat /\ length <= Capacity - 1
    BY <1>2, MinOfTwo
<1> HIDE DEF token, length
<1>4. /\ SubSeq(token, 1, length) \in Seq({token[i] : i \in 1..length})
      /\ Len(SubSeq(token, 1, length)) = length
  <2>1. 1 + length - 1 = length
      BY <1>3
  <2> QED BY <1>3, <2>1, Prefix
<1>5. IsView(SubSeq(token, 1, length))
    BY <1>3, <1>4 DEF IsView, IsSequence
<1> QED BY <1>5 DEF token, length

LEMMA WordsInvariant == ASSUME StemIsLength PROVE Spec => []WordsInv
<1>1. Init => WordsInv
  <2> SUFFICES ASSUME Init PROVE WordsInv
      OBVIOUS
  <2>1. scoredWords = << >> /\ << >> \in Seq({}) /\ DOMAIN scoredWords = {}
      BY DEF Init
  <2>2. Entries(scoredWords)
      BY <2>1 DEF Entries, IsSequence
  <2>3. Stages
      BY DEF Init, Stages
  <2> QED BY <2>2, <2>3 DEF WordsInv
<1>2. WordsInv /\ Offsets /\ [Next]_vars => WordsInv'
  <2> SUFFICES ASSUME WordsInv, Offsets, [Next]_vars PROVE WordsInv'
      OBVIOUS
  <2> USE DEF WordsInv
  <2>1. CASE ReadPoint
    <3>1. /\ UNCHANGED <<scoredWords, document, stored>>
          /\ pc = "read" /\ pc' \in {"read", "token", "build"}
        BY <2>1 DEF ReadPoint
    <3>2. Stages'
        BY <3>1 DEF Stages
    <3> QED BY <3>1, <3>2
  <2>2. CASE ProcessToken
    <3> DEFINE end == TokenEnd(in, Len(text))
               token == SubSeq(text, start + 1, end)
               view == SubSeq(token, 1, Min({Stem(StemmerCode, token), Capacity - 1}))
    <3>1. end \in Int
        BY DEF Offsets, TokenEnd
    <3>2. IsView(view)
        BY <3>1, ViewOfToken
    <3>3. /\ scoredWords' \in {scoredWords, add(scoredWords, view)}
          /\ UNCHANGED <<document, stored>>
          /\ pc = "token" /\ pc' \in {"read", "build"}
        BY <2>2 DEF ProcessToken
    <3> HIDE DEF view
    <3>4. Entries(scoredWords')
        BY <3>2, <3>3, AddKeepsEntries
    <3>5. Stages'
        BY <3>3 DEF Stages
    <3> QED BY <3>4, <3>5
  <2>3. CASE build
    <3>1. /\ UNCHANGED <<scoredWords, stored, text>>
          /\ pc = "build" /\ pc' = "save"
          /\ document' = [words |-> Listed, hash |-> text]
        BY <2>3 DEF build, Listed
    <3>2. Listed' = Listed
        BY <3>1 DEF Listed
    <3>3. Stages'
        BY <3>1, <3>2 DEF Stages
    <3> QED BY <3>1, <3>3
  <2>4. CASE saveNewDocument
    <3>1. /\ UNCHANGED <<scoredWords, document, text>>
          /\ pc = "save" /\ pc' = "saved" /\ stored' = serialize(document)
        BY <2>4 DEF saveNewDocument
    <3>2. Listed' = Listed
        BY <3>1 DEF Listed
    <3>3. Stages'
        BY <3>1, <3>2 DEF Stages
    <3> QED BY <3>1, <3>3
  <2>5. CASE UNCHANGED vars
      BY <2>5 DEF vars, Stages, Listed
  <2> QED BY <2>1, <2>2, <2>3, <2>4, <2>5 DEF Next
<1> QED BY <1>1, <1>2, OffsetsInv, PTL DEF Spec

\* The entries of a document have different views.  Two of them are stored under one word
\* only if one was cut, for its length or at a NUL, and only then do the JSON form and the debug form of the document,
\* which keep the first and the last score of a word, tell different scores.
THEOREM OneEntryPerView == ASSUME StemIsLength PROVE Spec => []EntriesDiffer
<1>1. WordsInv => EntriesDiffer
  <2> SUFFICES ASSUME WordsInv PROVE EntriesDiffer
      OBVIOUS
  <2>1. ASSUME NEW i \in DOMAIN scoredWords, NEW j \in DOMAIN scoredWords, i # j
        PROVE  /\ scoredWords[i].view # scoredWords[j].view
               /\ scoredWords[i].word = scoredWords[j].word =>
                     \E w \in {scoredWords[i], scoredWords[j]} : Len(w.word) < w.size
    <3>1. IsEntry(scoredWords[i]) /\ IsEntry(scoredWords[j])
        BY DEF WordsInv, Entries
    <3>2. scoredWords[i].view # scoredWords[j].view
        BY <2>1 DEF WordsInv, Entries
    <3>3. scoredWords[i].word = scoredWords[j].word =>
             \/ Len(scoredWords[i].word) < scoredWords[i].size
             \/ Len(scoredWords[j].word) < scoredWords[j].size
        BY <3>1, <3>2, SharedWordIsCut DEF IsEntry
    <3> QED BY <3>2, <3>3
  <2>2. ASSUME document # << >>,
               \A i, j \in DOMAIN scoredWords : i # j => scoredWords[i].word # scoredWords[j].word
        PROVE  jsonScores(document) = dtoScores(document)
    <3> DEFINE words == document.words
    <3>1. document = [words |-> Listed, hash |-> text]
        BY <2>2 DEF WordsInv, Stages
    <3>2. /\ DOMAIN words = DOMAIN scoredWords
          /\ \A i \in DOMAIN words : words[i].word = scoredWords[i].word
        BY <3>1 DEF Listed
    <3>3. \A i, j \in DOMAIN words : i # j => words[i].word # words[j].word
        BY <2>2, <3>2
    <3>4. PICK S : scoredWords \in Seq(S)
        BY DEF WordsInv, Entries, IsSequence
    <3>5. DOMAIN words = 1..Len(scoredWords) /\ Len(scoredWords) \in Nat
        BY <3>2, <3>4
    <3>6. Len(words) = Len(scoredWords)
      <4>1. words = [i \in 1..Len(scoredWords) |-> words[i]]
          BY <3>1, <3>5 DEF Listed
      <4> QED BY <3>5, <4>1
    <3> HIDE DEF words
    <3>7. ASSUME NEW w \in {words[i].word : i \in DOMAIN words}
          PROVE  (CHOOSE i \in DOMAIN words :
                     words[i].word = w /\ \A j \in 1..(i - 1) : words[j].word # w)
                 = (CHOOSE i \in DOMAIN words :
                     words[i].word = w /\ \A j \in (i + 1)..Len(words) : words[j].word # w)
      <4>1. PICK n \in DOMAIN words : words[n].word = w
          BY <3>7
      <4>2. \A j \in DOMAIN words : words[j].word = w <=> j = n
          BY <3>3, <4>1
      <4>3. \A j \in 1..(n - 1) : words[j].word # w
          BY <3>5, <4>2
      <4>4. \A j \in (n + 1)..Len(words) : words[j].word # w
          BY <3>5, <3>6, <4>2
      <4> QED BY <4>1, <4>2, <4>3, <4>4
    <3> DEFINE first(w) == CHOOSE i \in DOMAIN words :
                     words[i].word = w /\ \A j \in 1..(i - 1) : words[j].word # w
               last(w) == CHOOSE i \in DOMAIN words :
                     words[i].word = w /\ \A j \in (i + 1)..Len(words) : words[j].word # w
               spellings == {words[i].word : i \in DOMAIN words}
    <3>8. \A w \in spellings : first(w) = last(w)
        BY <3>7
    <3>9. jsonScores(document) = [w \in spellings |-> words[first(w)].score]
        BY DEF jsonScores, words
    <3>10. dtoScores(document) = [w \in spellings |-> words[last(w)].score]
        BY DEF dtoScores, words
    <3> HIDE DEF first, last, spellings
    <3> QED BY <3>8, <3>9, <3>10
  <2> QED BY <2>1, <2>2 DEF EntriesDiffer
<1> QED BY <1>1, WordsInvariant, PTL

\* A stored document loads with the words and scores it was saved with, whatever the text,
\* the stemmer and the capacity of a word; a word that was cut loads with the
\* size of what is left of it.
THEOREM ReloadsAsSaved == ASSUME StemIsLength PROVE Spec => []SavedDocumentReloads
<1>1. WordsInv => SavedDocumentReloads
  <2> SUFFICES ASSUME WordsInv, stored # << >> PROVE SavedDocumentReloads
      BY DEF SavedDocumentReloads
  <2> DEFINE loaded == deserialize(stored)
  <2>1. document = [words |-> Listed, hash |-> text] /\ stored = serialize(document)
      BY DEF WordsInv, Stages
  <2>2. /\ DOMAIN document.words = DOMAIN scoredWords
        /\ \A i \in DOMAIN scoredWords :
              document.words[i] = [word |-> scoredWords[i].word, size |-> scoredWords[i].size,
                                   score |-> scoredWords[i].count]
      BY <2>1 DEF Listed
  <2>3. /\ stored.hash = document.hash
        /\ DOMAIN stored.words = DOMAIN scoredWords
        /\ \A i \in DOMAIN scoredWords :
              stored.words[i] = [wordBuff |-> scoredWords[i].word, score |-> scoredWords[i].count]
      BY <2>1, <2>2 DEF serialize
  <2>4. /\ loaded.hash = document.hash
        /\ DOMAIN loaded.words = DOMAIN scoredWords
        /\ \A i \in DOMAIN scoredWords :
              loaded.words[i] = ScoredWord(scoredWords[i].word, scoredWords[i].count)
    <3>1. loaded.words = [i \in DOMAIN stored.words |->
                             ScoredWord(stored.words[i].wordBuff, stored.words[i].score)]
        BY DEF deserialize
    <3>2. loaded.hash = stored.hash
        BY DEF deserialize
    <3> HIDE DEF loaded
    <3>3. ASSUME NEW i \in DOMAIN scoredWords
          PROVE  /\ stored.words[i].wordBuff = scoredWords[i].word
                 /\ stored.words[i].score = scoredWords[i].count
      <4>1. stored.words[i] = [wordBuff |-> scoredWords[i].word, score |-> scoredWords[i].count]
          BY <2>3
      <4> QED BY <4>1
    <3> QED BY <2>3, <3>1, <3>2, <3>3
  <2>5. ASSUME NEW i \in DOMAIN scoredWords
        PROVE  /\ assignWord(scoredWords[i].word).word = scoredWords[i].word
               /\ assignWord(scoredWords[i].word).size = Len(scoredWords[i].word)
    <3> DEFINE view == scoredWords[i].view
               word == scoredWords[i].word
    <3>1. IsEntry(scoredWords[i])
        BY DEF WordsInv, Entries
    <3>2. IsSequence(view) /\ word = assignWord(view).word
        BY <3>1 DEF IsEntry, IsView
    <3>3. /\ IsSequence(word) /\ Len(word) \in Nat /\ Len(word) <= Capacity - 2
          /\ \A k \in 1..Len(word) : word[k] # Nul
        BY <3>2, Assigned
    <3>4. Len(word) <= Capacity - 1
        BY <3>3, CapacityAssumption
    <3> HIDE DEF word
    <3>5. assignWord(word).word = word /\ assignWord(word).size = Len(word)
        BY <3>3, <3>4, Assigned
    <3> QED BY <3>5 DEF word
  <2> HIDE DEF loaded
  <2>6. ASSUME NEW i \in DOMAIN scoredWords
        PROVE  /\ loaded.words[i].word = document.words[i].word
               /\ loaded.words[i].score = document.words[i].score
               /\ loaded.words[i].size = Len(document.words[i].word)
    <3>1. loaded.words[i] = ScoredWord(scoredWords[i].word, scoredWords[i].count)
        BY <2>4
    <3>2. /\ loaded.words[i].word = scoredWords[i].word
          /\ loaded.words[i].score = scoredWords[i].count
          /\ loaded.words[i].size = Len(scoredWords[i].word)
        BY <2>5, <3>1 DEF ScoredWord
    <3>3. /\ document.words[i].word = scoredWords[i].word
          /\ document.words[i].score = scoredWords[i].count
          /\ document.words[i].size = scoredWords[i].size
      <4>1. document.words[i] = [word |-> scoredWords[i].word, size |-> scoredWords[i].size,
                                 score |-> scoredWords[i].count]
          BY <2>2
      <4> QED BY <4>1
    <3> QED BY <3>2, <3>3
  <2> QED BY <2>2, <2>4, <2>6 DEF SavedDocumentReloads, loaded
<1> QED BY <1>1, WordsInvariant, PTL

-----------------------------------------------------------------------------
\* The bytes of a text.

Byte == Nat \X Nat

InARow(p, q, r) ==
    /\ r \in Seq(Byte) /\ Len(r) = Len(p) + Len(q)
    /\ \A i \in 1..Len(p) : r[i] = p[i]
    /\ Len(q) >= 1 => r[Len(p) + 1] = q[1]
    /\ \A i \in Len(p) + 1 .. Len(p) + Len(q) : r[i] = q[i - Len(p)]

LEMMA BytesInARow ==
    ASSUME NEW p \in Seq(Byte), NEW q \in Seq(Byte)
    PROVE  InARow(p, q, p \o q)
<1>1. Len(p) \in Nat /\ Len(q) \in Nat
    OBVIOUS
<1>2. /\ p \o q \in Seq(Byte) /\ Len(p \o q) = Len(p) + Len(q)
      /\ \A i \in 1..(Len(p) + Len(q)) : (p \o q)[i] = IF i <= Len(p) THEN p[i] ELSE q[i - Len(p)]
    BY ConcatProperties
<1>3. \A i \in 1..Len(p) : i \in 1..(Len(p) + Len(q)) /\ i <= Len(p)
    BY <1>1
<1>4. Len(q) >= 1 => /\ Len(p) + 1 \in 1..(Len(p) + Len(q)) /\ ~(Len(p) + 1 <= Len(p))
                     /\ Len(p) + 1 - Len(p) = 1
    BY <1>1
<1>5. \A i \in Len(p) + 1 .. Len(p) + Len(q) : i \in 1..(Len(p) + Len(q)) /\ ~(i <= Len(p))
    BY <1>1
<1> QED BY <1>2, <1>3, <1>4, <1>5 DEF InARow

\* Flatten's recursive function, for a sequence of codes.
Joins(f, codes, n) ==
    f = [i \in 1..n |-> IF i = 1 THEN codes[i] ELSE f[i - 1] \o codes[i]]

LEMMA JoinsExist ==
    ASSUME NEW codes, NEW n \in Nat
    PROVE  \E f : Joins(f, codes, n)
<1> DEFINE T == {m \in Nat : \E f : Joins(f, codes, m)}
<1>1. 0 \in T
  <2>1. Joins([i \in 1..0 |-> 0], codes, 0)
      BY DEF Joins
  <2> QED BY <2>1
<1>2. ASSUME NEW m \in Nat, m \in T PROVE m + 1 \in T
  <2>1. PICK f : Joins(f, codes, m)
      BY <1>2
  <2> DEFINE g == [i \in 1..(m + 1) |->
                      IF i = m + 1 THEN IF i = 1 THEN codes[i] ELSE f[m] \o codes[i]
                      ELSE f[i]]
  <2>2. \A i \in 1..(m + 1) : g[i] = IF i = 1 THEN codes[i] ELSE g[i - 1] \o codes[i]
    <3> SUFFICES ASSUME NEW i \in 1..(m + 1)
                 PROVE  g[i] = IF i = 1 THEN codes[i] ELSE g[i - 1] \o codes[i]
        OBVIOUS
    <3>1. CASE i = m + 1
      <4>1. i # 1 => i - 1 \in 1..(m + 1) /\ i - 1 # m + 1 /\ i - 1 = m
          BY <3>1
      <4> QED BY <3>1, <4>1
    <3>2. CASE i # m + 1
      <4>1. i \in 1..m /\ (i # 1 => i - 1 \in 1..(m + 1) /\ i - 1 # m + 1)
          BY <3>2
      <4>2. f[i] = IF i = 1 THEN codes[i] ELSE f[i - 1] \o codes[i]
          BY <2>1, <4>1 DEF Joins
      <4> QED BY <3>2, <4>1, <4>2
    <3> QED BY <3>1, <3>2
  <2>3. Joins(g, codes, m + 1)
      BY <2>2 DEF Joins
  <2> HIDE DEF g
  <2> QED BY <2>3
<1> HIDE DEF T
<1>3. Nat \subseteq T
    BY <1>1, <1>2, InductiveSet
<1> QED BY <1>3 DEF T

LEMMA FlattenJoins ==
    ASSUME NEW codes, Len(codes) \in Nat, Len(codes) # 0
    PROVE  \E f : Joins(f, codes, Len(codes)) /\ FlattenSeq(codes) = f[Len(codes)]
<1> DEFINE g == CHOOSE f : f = [i \in 1..Len(codes) |->
                                   IF i = 1 THEN codes[i] ELSE f[i - 1] \o codes[i]]
<1>1. \E f : f = [i \in 1..Len(codes) |-> IF i = 1 THEN codes[i] ELSE f[i - 1] \o codes[i]]
    BY JoinsExist DEF Joins
<1>2. g = [i \in 1..Len(codes) |-> IF i = 1 THEN codes[i] ELSE g[i - 1] \o codes[i]]
    BY <1>1
<1>3. FlattenSeq(codes) = g[Len(codes)]
    BY DEF FlattenSeq
<1> HIDE DEF g
<1> QED BY <1>2, <1>3 DEF Joins

\* The functions of a sequence and of a longer one agree.
Agree(s, t, m) == \A i \in 1..m : s[i] = t[i]

LEMMA JoinsAgree ==
    ASSUME NEW s, NEW t, NEW m \in Nat, NEW n \in Nat, m <= n, Agree(s, t, m),
           NEW f, NEW g, Joins(f, s, m), Joins(g, t, n)
    PROVE  Agree(f, g, m)
<1> DEFINE T == {k \in Nat : k \in 1..m => f[k] = g[k]}
<1>1. 0 \in T
    OBVIOUS
<1>2. ASSUME NEW k \in Nat, k \in T PROVE k + 1 \in T
  <2> SUFFICES ASSUME k + 1 \in 1..m PROVE f[k + 1] = g[k + 1]
      OBVIOUS
  <2>1. /\ f[k + 1] = IF k + 1 = 1 THEN s[k + 1] ELSE f[(k + 1) - 1] \o s[k + 1]
        /\ g[k + 1] = IF k + 1 = 1 THEN t[k + 1] ELSE g[(k + 1) - 1] \o t[k + 1]
    <3>1. k + 1 \in 1..m /\ k + 1 \in 1..n
        OBVIOUS
    <3> QED BY <3>1 DEF Joins
  <2>2. k + 1 # 1 => f[(k + 1) - 1] = g[(k + 1) - 1]
      BY <1>2
  <2> QED BY <2>1, <2>2 DEF Agree
<1> HIDE DEF T
<1>3. Nat \subseteq T
    BY <1>1, <1>2, InductiveSet
<1> QED BY <1>3 DEF T, Agree

Codes(points) == [i \in DOMAIN points |-> Encode(points[i])]

LEMMA EncodeEmpty == EncodeAll(<< >>) = << >>
<1>1. Codes(<< >>) = << >>
    BY DEF Codes
<1>2. EncodeAll(<< >>) = FlattenSeq(Codes(<< >>))
    BY DEF EncodeAll, Codes
<1> QED BY <1>1, <1>2 DEF FlattenSeq

LEMMA EncodePoint ==
    ASSUME NEW cp \in Nat
    PROVE  Width(cp) \in 1..4 /\ Encode(cp) \in Seq(Byte) /\ Len(Encode(cp)) = Width(cp)
           /\ \A k \in 1..Width(cp) : Encode(cp)[k] = <<cp, k>>
<1>1. Width(cp) \in 1..4
    BY DEF Width
<1>2. \A k \in 1..Width(cp) : <<cp, k>> \in Byte
    BY <1>1 DEF Byte
<1> QED BY <1>1, <1>2 DEF Encode

LEMMA EncodeAppend ==
    ASSUME NEW s \in Seq(Nat), NEW x \in Nat
    PROVE  EncodeAll(Append(s, x)) = EncodeAll(s) \o Encode(x)
<1> DEFINE t == Append(s, x)
           n == Len(s)
<1>1. /\ n \in Nat /\ DOMAIN s = 1..n /\ DOMAIN t = 1..(n + 1)
      /\ t[n + 1] = x /\ \A i \in 1..n : t[i] = s[i]
    OBVIOUS
<1>2. /\ Len(Codes(s)) = n /\ Len(Codes(t)) = n + 1
      /\ \A i \in 1..n : Codes(s)[i] = Codes(t)[i]
      /\ Codes(t)[n + 1] = Encode(x)
    BY <1>1 DEF Codes
<1>3. EncodeAll(s) = FlattenSeq(Codes(s)) /\ EncodeAll(t) = FlattenSeq(Codes(t))
    BY DEF EncodeAll, Codes
<1> HIDE DEF t, n
<1>4. PICK g : Joins(g, Codes(t), n + 1) /\ FlattenSeq(Codes(t)) = g[n + 1]
  <2>1. Len(Codes(t)) \in Nat /\ Len(Codes(t)) # 0
      BY <1>1, <1>2
  <2> QED BY <1>2, <2>1, FlattenJoins
<1>5. CASE n = 0
  <2>1. s = << >>
      BY <1>5 DEF n
  <2>2. EncodeAll(t) = Encode(x)
      BY <1>2, <1>3, <1>4, <1>5 DEF Joins
  <2>3. << >> \o Encode(x) = Encode(x)
      BY EncodePoint
  <2> QED BY <2>1, <2>2, <2>3, EncodeEmpty DEF t
<1>6. CASE n # 0
  <2>1. PICK f : Joins(f, Codes(s), n) /\ FlattenSeq(Codes(s)) = f[n]
      BY <1>1, <1>2, <1>6, FlattenJoins
  <2>2. f[n] = g[n]
    <3>1. n \in Nat /\ n + 1 \in Nat /\ n <= n + 1 /\ n \in 1..n
        BY <1>1, <1>6
    <3>2. \A i \in 1..n : f[i] = g[i]
      <4>1. Agree(Codes(s), Codes(t), n)
          BY <1>2 DEF Agree
      <4>2. Agree(f, g, n)
          BY <1>4, <2>1, <3>1, <4>1, JoinsAgree
      <4> QED BY <4>2 DEF Agree
    <3> QED BY <3>1, <3>2
  <2>3. g[n + 1] = g[n] \o Codes(t)[n + 1]
    <3>1. n + 1 \in 1..(n + 1) /\ n + 1 # 1 /\ (n + 1) - 1 = n
        BY <1>1, <1>6
    <3> QED BY <1>4, <3>1 DEF Joins
  <2> QED BY <1>2, <1>3, <1>4, <2>1, <2>2, <2>3 DEF t
<1> QED BY <1>5, <1>6

LEMMA FrontAndLast ==
    ASSUME NEW s \in Seq(Nat), NEW n \in Nat, Len(s) = n + 1
    PROVE  /\ SubSeq(s, 1, n) \in Seq(Nat) /\ Len(SubSeq(s, 1, n)) = n
           /\ \A i \in 1..n : SubSeq(s, 1, n)[i] = s[i]
           /\ s[n + 1] \in Nat /\ s = Append(SubSeq(s, 1, n), s[n + 1])
OBVIOUS

\* The encoding of a text is a sequence of bytes, of which each code point has at least one.
LEMMA EncodeType ==
    ASSUME NEW s \in Seq(Nat)
    PROVE  EncodeAll(s) \in Seq(Byte) /\ Len(EncodeAll(s)) >= Len(s)
<1> DEFINE P(t) == EncodeAll(t) \in Seq(Byte) /\ Len(EncodeAll(t)) >= Len(t)
           T == {n \in Nat : \A t \in Seq(Nat) : Len(t) = n => P(t)}
<1>1. 0 \in T
  <2>1. \A t \in Seq(Nat) : Len(t) = 0 => t = << >>
      OBVIOUS
  <2>2. << >> \in Seq(Byte) /\ Len(<< >>) >= Len(<< >>)
      OBVIOUS
  <2>3. P(<< >>)
      BY <2>2, EncodeEmpty
  <2> QED BY <2>1, <2>3
<1>2. ASSUME NEW n \in Nat, n \in T PROVE n + 1 \in T
  <2> SUFFICES ASSUME NEW t \in Seq(Nat), Len(t) = n + 1 PROVE P(t)
      OBVIOUS
  <2> DEFINE f == SubSeq(t, 1, n)
             x == t[n + 1]
  <2>1. f \in Seq(Nat) /\ Len(f) = n /\ x \in Nat /\ t = Append(f, x)
      BY FrontAndLast
  <2> HIDE DEF f, x
  <2>2. EncodeAll(f) \in Seq(Byte) /\ Len(EncodeAll(f)) >= n
      BY <1>2, <2>1
  <2>3. EncodeAll(t) = EncodeAll(f) \o Encode(x)
      BY <2>1, EncodeAppend
  <2>4. Encode(x) \in Seq(Byte) /\ Len(Encode(x)) >= 1
    <3>1. Encode(x) \in Seq(Byte) /\ Len(Encode(x)) = Width(x) /\ Width(x) \in 1..4
        BY <2>1, EncodePoint
    <3> QED BY <3>1
  <2> QED BY <2>2, <2>3, <2>4
<1> HIDE DEF P, T
<1>3. Nat \subseteq T
    BY <1>1, <1>2, InductiveSet
<1>4. Len(s) \in T
    BY <1>3
<1> QED BY <1>4 DEF P, T

\* The encoding of two texts in a row.
LEMMA EncodeConcat ==
    ASSUME NEW s \in Seq(Nat), NEW t \in Seq(Nat)
    PROVE  EncodeAll(s \o t) = EncodeAll(s) \o EncodeAll(t)
<1> DEFINE P(u) == EncodeAll(s \o u) = EncodeAll(s) \o EncodeAll(u)
           T == {n \in Nat : \A u \in Seq(Nat) : Len(u) = n => P(u)}
<1>1. 0 \in T
  <2>1. \A u \in Seq(Nat) : Len(u) = 0 => u = << >>
      OBVIOUS
  <2>2. s \o << >> = s /\ EncodeAll(s) \o << >> = EncodeAll(s)
      BY EncodeType
  <2>3. P(<< >>)
      BY <2>2, EncodeEmpty
  <2> QED BY <2>1, <2>3
<1>2. ASSUME NEW n \in Nat, n \in T PROVE n + 1 \in T
  <2> SUFFICES ASSUME NEW u \in Seq(Nat), Len(u) = n + 1 PROVE P(u)
      OBVIOUS
  <2> DEFINE f == SubSeq(u, 1, n)
             x == u[n + 1]
  <2>1. f \in Seq(Nat) /\ Len(f) = n /\ x \in Nat /\ u = Append(f, x)
      BY FrontAndLast
  <2> HIDE DEF f, x
  <2>2. EncodeAll(s \o f) = EncodeAll(s) \o EncodeAll(f)
      BY <1>2, <2>1
  <2>3. s \o u = Append(s \o f, x) /\ s \o f \in Seq(Nat)
      BY <2>1
  <2>4. EncodeAll(s \o u) = EncodeAll(s \o f) \o Encode(x)
      BY <2>1, <2>3, EncodeAppend
  <2>5. EncodeAll(u) = EncodeAll(f) \o Encode(x)
      BY <2>1, EncodeAppend
  <2>6. (EncodeAll(s) \o EncodeAll(f)) \o Encode(x) = EncodeAll(s) \o (EncodeAll(f) \o Encode(x))
    <3>1. EncodeAll(s) \in Seq(Byte) /\ EncodeAll(f) \in Seq(Byte)
        BY <2>1, EncodeType
    <3>2. Encode(x) \in Seq(Byte)
        BY <2>1, EncodePoint
    <3> DEFINE a == EncodeAll(s)
               b == EncodeAll(f)
               c == Encode(x)
    <3>3. a \in Seq(Byte) /\ b \in Seq(Byte) /\ c \in Seq(Byte)
        BY <3>1, <3>2
    <3> HIDE DEF a, b, c
    <3>4. (a \o b) \o c = a \o (b \o c)
        BY ONLY <3>3
    <3> QED BY <3>4 DEF a, b, c
  <2> QED BY <2>2, <2>4, <2>5, <2>6
<1> HIDE DEF P, T
<1>3. Nat \subseteq T
    BY <1>1, <1>2, InductiveSet
<1>4. Len(t) \in T
    BY <1>3
<1> QED BY <1>4 DEF P, T

\* Lower case takes as many bytes as upper case.
LEMMA WidthKept ==
    ASSUME NEW cp \in Nat, NEW block
    PROVE  /\ normalizeCodePoint(cp, block) \in Nat
           /\ Width(normalizeCodePoint(cp, block)) = Width(cp)
<1>1. normalizeCodePoint(cp, block) \in
         {normalizeBasicLatinCodePoint(cp), normalizeLatin1SupplementCodePoint(cp),
          normalizeLatinExtendedACodePoint(cp), cp}
    BY DEF normalizeCodePoint
<1>2. normalizeBasicLatinCodePoint(cp) \in Nat /\ Width(normalizeBasicLatinCodePoint(cp)) = Width(cp)
    BY DEF normalizeBasicLatinCodePoint, Width
<1>3. /\ normalizeLatin1SupplementCodePoint(cp) \in Nat
      /\ Width(normalizeLatin1SupplementCodePoint(cp)) = Width(cp)
    BY DEF normalizeLatin1SupplementCodePoint, Width
<1>4. /\ normalizeLatinExtendedACodePoint(cp) \in Nat
      /\ Width(normalizeLatinExtendedACodePoint(cp)) = Width(cp)
  <2>1. cp % 2 = 0 => cp # 127
      OBVIOUS
  <2> QED BY <2>1 DEF normalizeLatinExtendedACodePoint, Width
<1> QED BY <1>1, <1>2, <1>3, <1>4

\* Texts of the same widths have encodings of the same length.
LEMMA EncodeLength ==
    ASSUME NEW s \in Seq(Nat), NEW t \in Seq(Nat), Len(s) = Len(t),
           \A i \in 1..Len(s) : Width(s[i]) = Width(t[i])
    PROVE  Len(EncodeAll(s)) = Len(EncodeAll(t))
<1> DEFINE P(u, v) == (\A i \in 1..Len(u) : Width(u[i]) = Width(v[i])) =>
                          Len(EncodeAll(u)) = Len(EncodeAll(v))
           T == {n \in Nat : \A u, v \in Seq(Nat) : Len(u) = n /\ Len(v) = n => P(u, v)}
<1>1. 0 \in T
  <2>1. \A u \in Seq(Nat) : Len(u) = 0 => u = << >>
      OBVIOUS
  <2> QED BY <2>1
<1>2. ASSUME NEW n \in Nat, n \in T PROVE n + 1 \in T
  <2> SUFFICES ASSUME NEW u \in Seq(Nat), NEW v \in Seq(Nat), Len(u) = n + 1, Len(v) = n + 1,
                      \A i \in 1..Len(u) : Width(u[i]) = Width(v[i])
               PROVE  Len(EncodeAll(u)) = Len(EncodeAll(v))
      OBVIOUS
  <2> DEFINE f == SubSeq(u, 1, n)
             g == SubSeq(v, 1, n)
             x == u[n + 1]
             y == v[n + 1]
  <2>1. /\ f \in Seq(Nat) /\ Len(f) = n /\ x \in Nat /\ u = Append(f, x)
        /\ g \in Seq(Nat) /\ Len(g) = n /\ y \in Nat /\ v = Append(g, y)
        /\ \A i \in 1..n : f[i] = u[i] /\ g[i] = v[i]
      BY FrontAndLast
  <2>2. Width(x) = Width(y)
      OBVIOUS
  <2> HIDE DEF f, g, x, y
  <2>3. \A i \in 1..Len(f) : Width(f[i]) = Width(g[i])
    <3>1. \A i \in 1..n : Width(u[i]) = Width(v[i])
        OBVIOUS
    <3> QED BY <2>1, <3>1
  <2>4. Len(EncodeAll(f)) = Len(EncodeAll(g))
      BY <1>2, <2>1, <2>3
  <2>5. EncodeAll(u) = EncodeAll(f) \o Encode(x) /\ EncodeAll(v) = EncodeAll(g) \o Encode(y)
      BY <2>1, EncodeAppend
  <2>6. Len(Encode(x)) = Len(Encode(y)) /\ Encode(x) \in Seq(Byte) /\ Encode(y) \in Seq(Byte)
      BY <2>1, <2>2, EncodePoint
  <2>7. EncodeAll(f) \in Seq(Byte) /\ EncodeAll(g) \in Seq(Byte)
      BY <2>1, EncodeType
  <2>8. /\ Len(EncodeAll(f) \o Encode(x)) = Len(EncodeAll(f)) + Len(Encode(x))
        /\ Len(EncodeAll(g) \o Encode(y)) = Len(EncodeAll(g)) + Len(Encode(y))
      BY <2>6, <2>7, BytesInARow DEF InARow
  <2> QED BY ONLY <2>4, <2>5, <2>6, <2>8
<1> HIDE DEF P, T
<1>3. Nat \subseteq T
    BY <1>1, <1>2, InductiveSet
<1>4. Len(s) \in T
    BY <1>3
<1> QED BY <1>4 DEF P, T

-----------------------------------------------------------------------------
\* The buffer while the iterator is at work.

Lower(cp) == normalizeCodePoint(cp, getUnicodeBlock(cp))

\* The offset of the code points after the first n, and the text of which n are normalised.
Offset(points, n) == Len(EncodeAll(SubSeq(points, 1, n)))
Mixed(points, n) == [i \in DOMAIN points |-> IF i <= n THEN Lower(points[i]) ELSE points[i]]

LEMMA SliceOfText ==
    ASSUME NEW s \in Seq(Nat), NEW m \in 1..(Len(s) + 1), NEW n \in (m - 1)..Len(s)
    PROVE  /\ SubSeq(s, m, n) \in Seq(Nat) /\ Len(SubSeq(s, m, n)) = n - m + 1
           /\ \A i \in 1..(n - m + 1) : SubSeq(s, m, n)[i] = s[m + i - 1]
<1> DEFINE k == n - m + 1
<1>1. k \in Nat /\ m \in Int /\ m + k - 1 = n
    OBVIOUS
<1>2. SubSeq(s, m, n) \in Seq(Nat)
    OBVIOUS
<1> HIDE DEF k
<1>3. Len(SubSeq(s, m, m + k - 1)) = k /\ \A i \in 1..k : SubSeq(s, m, m + k - 1)[i] = s[m + i - 1]
    BY ONLY <1>1, Prefix
<1>4. Len(SubSeq(s, m, n)) = k /\ \A i \in 1..k : SubSeq(s, m, n)[i] = s[m + i - 1]
    BY ONLY <1>1, <1>3
<1> QED BY <1>2, <1>4 DEF k

LEMMA OffsetsGrow ==
    ASSUME NEW points \in Seq(Nat), NEW n \in 0..Len(points), NEW m \in 0..Len(points), m < n
    PROVE  Offset(points, m) < Offset(points, n)
<1> DEFINE a == SubSeq(points, 1, m)
           b == SubSeq(points, m + 1, n)
<1>1. a \in Seq(Nat) /\ b \in Seq(Nat) /\ Len(b) >= 1 /\ SubSeq(points, 1, n) = a \o b
    OBVIOUS
<1> HIDE DEF a, b
<1>2. EncodeAll(a \o b) = EncodeAll(a) \o EncodeAll(b)
    BY <1>1, EncodeConcat
<1>3. EncodeAll(a) \in Seq(Byte) /\ EncodeAll(b) \in Seq(Byte) /\ Len(EncodeAll(b)) >= Len(b)
    BY <1>1, EncodeType
<1>4. Len(EncodeAll(a \o b)) = Len(EncodeAll(a)) + Len(EncodeAll(b))
    BY <1>2, <1>3
<1>5. Len(b) \in Nat /\ Len(EncodeAll(a)) \in Nat /\ Len(EncodeAll(b)) \in Nat
    BY <1>1, <1>3
<1>6. Len(EncodeAll(a)) < Len(EncodeAll(a \o b))
    BY <1>1, <1>3, <1>4, <1>5
<1> QED BY <1>1, <1>6 DEF Offset, a

LEMMA OffsetsDiffer ==
    ASSUME NEW points \in Seq(Nat), NEW n \in 0..Len(points), NEW m \in 0..Len(points),
           Offset(points, m) = Offset(points, n)
    PROVE  m = n
<1>1. Offset(points, m) \in Int
  <2>1. SubSeq(points, 1, m) \in Seq(Nat)
      OBVIOUS
  <2>2. EncodeAll(SubSeq(points, 1, m)) \in Seq(Byte)
      BY <2>1, EncodeType
  <2> QED BY <2>2 DEF Offset
<1>2. ~(m < n) /\ ~(n < m)
    BY <1>1, OffsetsGrow
<1> QED BY <1>2

\* The bytes of one code point in the encoding of a text.
LEMMA EncodeSplit ==
    ASSUME NEW s \in Seq(Nat), NEW n \in 0..(Len(s) - 1)
    PROVE  EncodeAll(s) = (EncodeAll(SubSeq(s, 1, n)) \o Encode(s[n + 1]))
                             \o EncodeAll(SubSeq(s, n + 2, Len(s)))
<1> DEFINE a == SubSeq(s, 1, n)
           x == s[n + 1]
           c == SubSeq(s, n + 2, Len(s))
<1>1. a \in Seq(Nat) /\ x \in Nat /\ c \in Seq(Nat) /\ Append(a, x) \in Seq(Nat)
    OBVIOUS
<1>2. s = Append(a, x) \o c
  <2>1. /\ Len(a) = n /\ Len(c) = Len(s) - n - 1 /\ Len(s) \in Nat /\ n \in Nat /\ n < Len(s)
        /\ \A i \in 1..n : a[i] = s[i]
        /\ \A i \in 1..(Len(s) - n - 1) : c[i] = s[n + 1 + i]
      OBVIOUS
  <2> DEFINE p == Append(a, x)
  <2> HIDE DEF a, c
  <2>2. /\ p \in Seq(Nat) /\ Len(p) = n + 1 /\ p[n + 1] = s[n + 1]
        /\ \A i \in 1..n : p[i] = s[i]
      BY <1>1, <2>1 DEF x
  <2> HIDE DEF p
  <2>3. /\ p \o c \in Seq(Nat) /\ Len(p \o c) = Len(s)
        /\ \A i \in 1..Len(s) : (p \o c)[i] = IF i <= n + 1 THEN p[i] ELSE c[i - (n + 1)]
    <3>0. p \in Seq(Nat)
        BY <2>2
    <3>1. c \in Seq(Nat) /\ Len(p) + Len(c) = Len(s)
        BY <1>1, <2>1, <2>2
    <3>2. /\ p \o c \in Seq(Nat) /\ Len(p \o c) = Len(p) + Len(c)
          /\ \A i \in 1..(Len(p) + Len(c)) :
                (p \o c)[i] = IF i <= Len(p) THEN p[i] ELSE c[i - Len(p)]
        BY ONLY <3>1, <3>0
    <3> QED BY <2>2, <3>1, <3>2
  <2>4. ASSUME NEW i \in 1..Len(s) PROVE (p \o c)[i] = s[i]
    <3>1. CASE i <= n + 1
        BY <2>1, <2>2, <2>3, <3>1
    <3>2. CASE i > n + 1
      <4>1. i - (n + 1) \in 1..(Len(s) - n - 1) /\ n + 1 + (i - (n + 1)) = i
          BY <2>1, <3>2
      <4>2. c[i - (n + 1)] = s[i]
          BY <2>1, <4>1
      <4>3. ~(i <= n + 1)
          BY <2>1, <3>2
      <4> QED BY <2>3, <4>2, <4>3
    <3>3. i <= n + 1 \/ i > n + 1
        BY <2>1
    <3> QED BY <3>1, <3>2, <3>3
  <2>5. s = p \o c
      BY <2>3, <2>4, SeqEqual
  <2> QED BY <2>5 DEF p
<1> HIDE DEF a, x, c
<1>3. EncodeAll(Append(a, x)) = EncodeAll(a) \o Encode(x)
    BY <1>1, EncodeAppend
<1>4. EncodeAll(Append(a, x) \o c) = EncodeAll(Append(a, x)) \o EncodeAll(c)
    BY <1>1, EncodeConcat
<1> QED BY <1>2, <1>3, <1>4 DEF a, x, c

LEMMA MaxOfTwo ==
    ASSUME NEW a \in Int, NEW b \in Int, b <= a
    PROVE  Max({a, b}) = a
<1>1. \E x \in {a, b} : \A y \in {a, b} : x >= y
    OBVIOUS
<1>2. Max({a, b}) \in {a, b} /\ \A y \in {a, b} : Max({a, b}) >= y
    BY <1>1 DEF Max
<1> QED BY <1>2

\* b is a piece of the buffer, between a and c.
Piece(buffer, a, b, c) ==
    a \in Seq(Byte) /\ b \in Seq(Byte) /\ c \in Seq(Byte) /\ buffer = (a \o b) \o c

\* Bytes are replaced by as many others.
LEMMA OverwriteMiddle ==
    ASSUME NEW a, NEW b, NEW c, NEW d, NEW buffer, NEW result,
           Piece(buffer, a, b, c), Piece(result, a, d, c), Len(b) = Len(d)
    PROVE  Overwrite(buffer, Len(a), d) = result
<1> DEFINE old == (a \o b) \o c
           new == (a \o d) \o c
           written == Overwrite(old, Len(a), d)
<1>0. a \in Seq(Byte) /\ b \in Seq(Byte) /\ c \in Seq(Byte) /\ d \in Seq(Byte) /\ Len(b) = Len(d)
    BY DEF Piece
<1>1. /\ old \in Seq(Byte) /\ Len(old) = Len(a) + Len(b) + Len(c)
      /\ new \in Seq(Byte) /\ Len(new) = Len(a) + Len(b) + Len(c)
      /\ Len(a) \in Nat /\ Len(b) \in Nat /\ Len(c) \in Nat
    BY ONLY <1>0
<1>2. \A i \in 1..Len(new) :
         new[i] = IF i \in Len(a) + 1 .. Len(a) + Len(d) THEN d[i - Len(a)] ELSE old[i]
  <2> SUFFICES ASSUME NEW i \in 1..Len(new)
               PROVE  new[i] = IF i \in Len(a) + 1 .. Len(a) + Len(d) THEN d[i - Len(a)] ELSE old[i]
      OBVIOUS
  <2> DEFINE p == a \o b
             q == a \o d
  <2>1. /\ p \in Seq(Byte) /\ Len(p) = Len(a) + Len(b) /\ q \in Seq(Byte) /\ Len(q) = Len(p)
        /\ \A j \in 1..Len(a) : p[j] = a[j] /\ q[j] = a[j]
        /\ \A j \in Len(a) + 1 .. Len(a) + Len(d) : q[j] = d[j - Len(a)]
    <3>1. InARow(a, b, p) /\ InARow(a, d, q)
        BY <1>0, BytesInARow
    <3> HIDE DEF p, q
    <3> QED BY <1>0, <3>1 DEF InARow
  <2>2. Len(a) \in Nat /\ Len(b) \in Nat /\ Len(c) \in Nat /\ Len(p) \in Nat
      BY <1>0, <2>1
  <2>3. i \in 1..(Len(p) + Len(c))
      BY <1>1, <2>1, <2>2
  <2> HIDE DEF p, q
  <2>4. /\ \A j \in 1..Len(p) : (p \o c)[j] = p[j] /\ (q \o c)[j] = q[j]
        /\ \A j \in Len(p) + 1 .. Len(p) + Len(c) : (p \o c)[j] = c[j - Len(p)]
                                                    /\ (q \o c)[j] = c[j - Len(p)]
    <3>1. InARow(p, c, p \o c) /\ InARow(q, c, q \o c)
        BY <1>0, <2>1, BytesInARow
    <3>2. Len(q) = Len(p)
        BY <2>1
    <3> QED BY <3>1, <3>2 DEF InARow
  <2>5. old = p \o c /\ new = q \o c
      BY DEF p, q
  <2> HIDE DEF old, new
  <2>6. CASE i \in 1..Len(a)
    <3>1. i \in 1..Len(p) /\ i \notin Len(a) + 1 .. Len(a) + Len(d)
        BY <2>1, <2>2, <2>6
    <3> QED BY <2>1, <2>4, <2>5, <2>6, <3>1
  <2>7. CASE i \in Len(a) + 1 .. Len(a) + Len(d)
    <3>1. i \in 1..Len(p)
        BY <1>0, <2>1, <2>2, <2>7
    <3> QED BY <2>1, <2>4, <2>5, <2>7, <3>1
  <2>8. CASE i \in Len(p) + 1 .. Len(p) + Len(c)
    <3>1. i \notin Len(a) + 1 .. Len(a) + Len(d)
        BY <1>0, <2>1, <2>2, <2>8
    <3> QED BY <2>4, <2>5, <2>8, <3>1
  <2> QED BY <1>0, <2>1, <2>2, <2>3, <2>6, <2>7, <2>8
<1>3. Max({Len(old), Len(a) + Len(d)}) = Len(new)
  <2>1. Len(old) \in Int /\ Len(a) + Len(d) \in Int /\ Len(a) + Len(d) <= Len(old)
        /\ Len(old) = Len(new)
      BY <1>1
  <2> HIDE DEF old, new
  <2> QED BY <2>1, MaxOfTwo
<1>4. buffer = old /\ result = new
    BY DEF Piece
<1> HIDE DEF old, new
<1>5. new = [i \in 1..Len(new) |-> new[i]]
    BY <1>1
<1>6. written = [i \in 1..Len(new) |->
                    IF i \in Len(a) + 1 .. Len(a) + Len(d) THEN d[i - Len(a)] ELSE old[i]]
    BY <1>3 DEF Overwrite
<1>7. written = new
    BY <1>2, <1>5, <1>6
<1> QED BY <1>4, <1>7

\* What the buffer becomes when the code point behind the first n is normalised in place.
LEMMA OnePoint ==
    ASSUME NEW points \in Seq(Nat), NEW n \in 0..(Len(points) - 1)
    PROVE  LET x == points[n + 1]
               buffer == EncodeAll(Mixed(points, n))
           IN  /\ x \in Nat
               /\ buffer[Offset(points, n) + 1][1] = x
               /\ Overwrite(buffer, Offset(points, n), Encode(Lower(x)))
                     = EncodeAll(Mixed(points, n + 1))
               /\ Offset(points, n + 1) = Offset(points, n) + Width(x)
               /\ Width(Lower(x)) = Width(x)
<1> DEFINE x == points[n + 1]
           s == Mixed(points, n)
           t == Mixed(points, n + 1)
           a == EncodeAll(SubSeq(s, 1, n))
           c == EncodeAll(SubSeq(s, n + 2, Len(points)))
<1>1. x \in Nat /\ n \in Nat /\ n + 1 \in 1..Len(points) /\ DOMAIN points = 1..Len(points)
      /\ Len(points) \in Nat
    OBVIOUS
<1>2. Lower(x) \in Nat /\ Width(Lower(x)) = Width(x)
    BY <1>1, WidthKept DEF Lower
<1>3. \A i \in 1..Len(points) : points[i] \in Nat /\ Lower(points[i]) \in Nat
                                /\ Width(Lower(points[i])) = Width(points[i])
    BY WidthKept DEF Lower
<1>4. s \in Seq(Nat) /\ t \in Seq(Nat) /\ Len(s) = Len(points) /\ Len(t) = Len(points)
    BY <1>1, <1>3 DEF Mixed
<1>5. /\ s[n + 1] = x /\ t[n + 1] = Lower(x)
      /\ SubSeq(t, 1, n) = SubSeq(s, 1, n)
      /\ SubSeq(t, n + 2, Len(points)) = SubSeq(s, n + 2, Len(points))
  <2>1. \A i \in 1..Len(points) : /\ i # n + 1 => t[i] = s[i]
                                  /\ s[i] = IF i <= n THEN Lower(points[i]) ELSE points[i]
                                  /\ t[i] = IF i <= n + 1 THEN Lower(points[i]) ELSE points[i]
      BY <1>1 DEF Mixed
  <2> HIDE DEF s, t
  <2>2. s[n + 1] = x /\ t[n + 1] = Lower(x)
      BY <1>1, <2>1
  <2>3. SubSeq(t, 1, n) = SubSeq(s, 1, n)
      BY <1>1, <1>4, <2>1
  <2>4. SubSeq(t, n + 2, Len(points)) = SubSeq(s, n + 2, Len(points))
      BY <1>1, <1>4, <2>1
  <2> QED BY <2>2, <2>3, <2>4
<1>6. Len(EncodeAll(SubSeq(s, 1, n))) = Offset(points, n)
  <2>1. \A i \in 1..n : SubSeq(s, 1, n)[i] = Lower(points[i]) /\ SubSeq(points, 1, n)[i] = points[i]
      BY <1>1, <1>4 DEF Mixed
  <2>2. /\ SubSeq(s, 1, n) \in Seq(Nat) /\ SubSeq(points, 1, n) \in Seq(Nat)
        /\ Len(SubSeq(s, 1, n)) = n /\ Len(SubSeq(points, 1, n)) = n
    <3>1. 1 \in 1..(Len(points) + 1) /\ n \in (1 - 1)..Len(points) /\ n - 1 + 1 = n
        BY <1>1
    <3> HIDE DEF s
    <3> QED BY <1>4, <3>1, SliceOfText
  <2>3. \A i \in 1..n : Width(SubSeq(s, 1, n)[i]) = Width(SubSeq(points, 1, n)[i])
      BY <1>1, <1>3, <2>1
  <2> QED BY <2>2, <2>3, EncodeLength DEF Offset
<1> HIDE DEF s, t
<1>7. /\ EncodeAll(s) = (a \o Encode(x)) \o c
      /\ EncodeAll(t) = (a \o Encode(Lower(x))) \o c
    BY <1>1, <1>4, <1>5, EncodeSplit
<1>8. a \in Seq(Byte) /\ c \in Seq(Byte) /\ Len(a) = Offset(points, n)
  <2>1. /\ 1 \in 1..(Len(s) + 1) /\ n \in (1 - 1)..Len(s)
        /\ n + 2 \in 1..(Len(s) + 1) /\ Len(points) \in ((n + 2) - 1)..Len(s)
      BY <1>1, <1>4
  <2>2. SubSeq(s, 1, n) \in Seq(Nat) /\ SubSeq(s, n + 2, Len(points)) \in Seq(Nat)
      BY <1>4, <2>1, SliceOfText
  <2> QED BY <1>6, <2>2, EncodeType
<1>9. /\ Encode(x) \in Seq(Byte) /\ Encode(Lower(x)) \in Seq(Byte)
      /\ Len(Encode(x)) = Width(x) /\ Len(Encode(Lower(x))) = Width(x) /\ Width(x) \in 1..4
      /\ Encode(x)[1] = <<x, 1>>
  <2>1. Width(x) \in 1..4 /\ 1 \in 1..Width(x)
    <3>1. Width(x) \in 1..4
        BY <1>1, EncodePoint
    <3> QED BY <3>1
  <2> QED BY <1>1, <1>2, <2>1, EncodePoint
<1> HIDE DEF a, c
<1>10. Overwrite(EncodeAll(s), Len(a), Encode(Lower(x))) = EncodeAll(t)
  <2>1. Piece(EncodeAll(s), a, Encode(x), c) /\ Piece(EncodeAll(t), a, Encode(Lower(x)), c)
      BY <1>7, <1>8, <1>9 DEF Piece
  <2>2. Len(Encode(x)) = Len(Encode(Lower(x)))
      BY <1>9
  <2> QED BY ONLY <2>1, <2>2, OverwriteMiddle
<1>11. EncodeAll(s)[Len(a) + 1] = <<x, 1>>
  <2> DEFINE e == Encode(x)
  <2>1. e \in Seq(Byte) /\ Len(e) >= 1 /\ e[1] = <<x, 1>>
      BY <1>9
  <2> HIDE DEF e
  <2>2. ((a \o e) \o c)[Len(a) + 1] = e[1]
    <3>1. a \o e \in Seq(Byte) /\ Len(a \o e) = Len(a) + Len(e) /\ Len(a) \in Nat /\ Len(e) \in Nat
      <4>1. Len(a) \in Nat /\ Len(e) \in Nat
          BY <1>8, <2>1
      <4> QED BY <1>8, <2>1, <4>1, BytesInARow DEF InARow
    <3>2. (a \o e)[Len(a) + 1] = e[1]
        BY <1>8, <2>1, BytesInARow DEF InARow
    <3>3. Len(a) + 1 \in 1..Len(a \o e)
        BY <2>1, <3>1
    <3> DEFINE h == a \o e
               k == Len(a) + 1
    <3>4. h \in Seq(Byte) /\ k \in 1..Len(h)
        BY <3>1, <3>3
    <3> HIDE DEF h, k
    <3>5. (h \o c)[k] = h[k]
        BY <1>8, <3>4, BytesInARow DEF InARow
    <3> QED BY <3>2, <3>5 DEF h, k
  <2> QED BY <1>7, <2>1, <2>2 DEF e
<1>12. Offset(points, n + 1) = Offset(points, n) + Width(x)
  <2>1. /\ SubSeq(points, 1, n + 1) = Append(SubSeq(points, 1, n), x)
        /\ SubSeq(points, 1, n) \in Seq(Nat)
      BY <1>1
  <2>2. EncodeAll(SubSeq(points, 1, n + 1)) = EncodeAll(SubSeq(points, 1, n)) \o Encode(x)
      BY <1>1, <2>1, EncodeAppend
  <2>3. EncodeAll(SubSeq(points, 1, n)) \in Seq(Byte)
      BY <2>1, EncodeType
  <2>4. \A p, q \in Seq(Byte) : Len(p \o q) = Len(p) + Len(q)
      OBVIOUS
  <2> QED BY <1>9, <2>2, <2>3, <2>4 DEF Offset
<1> QED BY <1>1, <1>2, <1>8, <1>10, <1>11, <1>12 DEF s, t

\* The iterator has read and written n code points.
ReadUpTo(n) ==
    /\ in = Offset(original, n) /\ out = Offset(original, n)
    /\ text = EncodeAll(Mixed(original, n))
    /\ pc = "read" => n < Len(original)

InPlaceInv == original \in Seq(Nat) /\ \E n \in 0..Len(original) : ReadUpTo(n)

LEMMA MixedLength ==
    ASSUME NEW points \in Seq(Nat), NEW n \in 0..Len(points)
    PROVE  Len(EncodeAll(Mixed(points, n))) = Offset(points, Len(points))
<1>1. \A i \in 1..Len(points) : points[i] \in Nat /\ Lower(points[i]) \in Nat
                                /\ Width(Lower(points[i])) = Width(points[i])
    BY WidthKept DEF Lower
<1>2. Mixed(points, n) \in Seq(Nat) /\ Len(Mixed(points, n)) = Len(points)
    BY <1>1 DEF Mixed
<1>3. \A i \in 1..Len(points) : Width(Mixed(points, n)[i]) = Width(points[i])
    BY <1>1 DEF Mixed
<1>4. Len(EncodeAll(Mixed(points, n))) = Len(EncodeAll(points))
    BY <1>2, <1>3, EncodeLength
<1>5. SubSeq(points, 1, Len(points)) = points
    OBVIOUS
<1> QED BY <1>4, <1>5 DEF Offset

LEMMA InPlaceInvariant == Spec => []InPlaceInv
<1>1. Init => InPlaceInv
  <2> SUFFICES ASSUME Init PROVE InPlaceInv
      OBVIOUS
  <2>1. original \in Seq(Nat)
      BY TextsAssumption DEF Init
  <2>2. 0 \in 0..Len(original) /\ (original # << >> => 0 < Len(original))
      BY <2>1
  <2>3. Mixed(original, 0) = original
    <3>1. \A i \in DOMAIN original : ~(i <= 0)
        BY <2>1
    <3>2. original = [i \in DOMAIN original |-> original[i]]
        BY <2>1
    <3>3. Mixed(original, 0) = [i \in DOMAIN original |-> original[i]]
        BY <3>1 DEF Mixed
    <3> QED BY <3>2, <3>3
  <2>4. SubSeq(original, 1, 0) = << >> /\ Len(<< >>) = 0
      BY <2>1
  <2>5. Offset(original, 0) = 0
      BY <2>4, EncodeEmpty DEF Offset
  <2>6. pc = "read" => original # << >>
      BY DEF Init
  <2>7. text = EncodeAll(original) /\ in = 0 /\ out = 0
      BY DEF Init
  <2>8. ReadUpTo(0)
      BY <2>2, <2>3, <2>5, <2>6, <2>7 DEF ReadUpTo
  <2> QED BY <2>1, <2>2, <2>8 DEF InPlaceInv
<1>2. InPlaceInv /\ [Next]_vars => InPlaceInv'
  <2> SUFFICES ASSUME InPlaceInv, [Next]_vars PROVE InPlaceInv'
      OBVIOUS
  <2>1. original' = original /\ original \in Seq(Nat) /\ Len(original) \in Nat
      BY DEF InPlaceInv, Next, ReadPoint, ProcessToken, build, saveNewDocument, vars
  <2>2. PICK n \in 0..Len(original) : ReadUpTo(n)
      BY DEF InPlaceInv
  <2>3. Len(text) = Offset(original, Len(original))
      BY <2>1, <2>2, MixedLength DEF ReadUpTo
  <2>4. CASE ReadPoint
    <3> DEFINE x == original[n + 1]
    <3>1. n \in 0..(Len(original) - 1) /\ n + 1 \in 0..Len(original)
        BY <2>1, <2>2, <2>4 DEF ReadUpTo, ReadPoint
    <3>2. /\ text[in + 1][1] = x
          /\ Overwrite(text, out, Encode(Lower(x))) = EncodeAll(Mixed(original, n + 1))
          /\ Offset(original, n + 1) = in + Width(x)
          /\ Width(Lower(x)) = Width(x)
        BY <2>1, <2>2, <3>1, OnePoint DEF ReadUpTo
    <3> HIDE DEF x
    <3>3. /\ in' = in + Width(x)
          /\ out' = out + Width(Lower(x))
          /\ text' = Overwrite(text, out, Encode(Lower(x)))
          /\ pc' = "read" => in + Width(x) # Len(text)
        BY <2>4, <3>2 DEF ReadPoint, Lower
    <3>4. in' = Offset(original, n + 1) /\ out' = Offset(original, n + 1)
          /\ text' = EncodeAll(Mixed(original, n + 1))
        BY <2>2, <3>2, <3>3 DEF ReadUpTo
    <3>5. pc' = "read" => n + 1 < Len(original)
      <4>1. pc' = "read" => n + 1 # Len(original)
          BY <2>3, <3>2, <3>3
      <4> QED BY <3>1, <4>1
    <3>6. ReadUpTo(n + 1)'
        BY <2>1, <3>4, <3>5 DEF ReadUpTo
    <3> QED BY <2>1, <3>1, <3>6 DEF InPlaceInv
  <2>5. CASE ProcessToken
    <3>1. UNCHANGED <<in, out, text>> /\ (pc' = "read" => in # Len(text))
        BY <2>5 DEF ProcessToken
    <3>2. pc' = "read" => n < Len(original)
      <4>1. pc' = "read" => n # Len(original)
          BY <2>2, <2>3, <3>1 DEF ReadUpTo
      <4> QED BY <2>1, <4>1
    <3>3. ReadUpTo(n)'
        BY <2>1, <2>2, <3>1, <3>2 DEF ReadUpTo
    <3> QED BY <2>1, <3>3 DEF InPlaceInv
  <2>6. CASE build \/ saveNewDocument
    <3>1. UNCHANGED <<in, out, text>> /\ pc' # "read"
        BY <2>6 DEF build, saveNewDocument
    <3>2. ReadUpTo(n)'
        BY <2>1, <2>2, <3>1 DEF ReadUpTo
    <3> QED BY <2>1, <3>2 DEF InPlaceInv
  <2>7. CASE UNCHANGED vars
    <3>1. ReadUpTo(n)'
        BY <2>2, <2>7 DEF ReadUpTo, vars
    <3> QED BY <2>1, <3>1 DEF InPlaceInv
  <2> QED BY <2>4, <2>5, <2>6, <2>7 DEF Next
<1> QED BY <1>1, <1>2, PTL DEF Spec

\* The iterator normalises a text in place, whatever its code points: the bytes behind the
\* pointer are those of the normalised text and the ones before it are untouched, because
\* the lower-case form of a code point never takes more or fewer bytes than the code point.
THEOREM RewritesInPlace == Spec => []WrittenInPlace
<1>1. InPlaceInv => WrittenInPlace
  <2> SUFFICES ASSUME InPlaceInv PROVE WrittenInPlace
      OBVIOUS
  <2>1. PICK n \in 0..Len(original) : ReadUpTo(n)
      BY DEF InPlaceInv
  <2>2. original \in Seq(Nat)
      BY DEF InPlaceInv
  <2>3. \A m \in 0..Len(original) : Offset(original, m) = in => m = n
      BY <2>1, <2>2, OffsetsDiffer DEF ReadUpTo
  <2>4. Offset(original, n) = in
      BY <2>1 DEF ReadUpTo
  <2>5. PointsRead = n
      BY <2>3, <2>4 DEF PointsRead, Offset
  <2> QED BY <2>1, <2>5 DEF WrittenInPlace, ReadUpTo, Mixed, Lower
<1> QED BY <1>1, InPlaceInvariant, PTL

-----------------------------------------------------------------------------
\* Letters and words.

\* Upper and lower case are letters alike.
LEMMA LetterKept ==
    ASSUME NEW cp \in Nat, NEW block
    PROVE  isLetterPoint(normalizeCodePoint(cp, block), block) = isLetterPoint(cp, block)
<1>1. CASE block = "BASIC_LATIN"
  <2>1. isBasicLatinLetter(normalizeBasicLatinCodePoint(cp)) = isBasicLatinLetter(cp)
      BY DEF isBasicLatinLetter, normalizeBasicLatinCodePoint
  <2> QED BY <1>1, <2>1 DEF isLetterPoint, normalizeCodePoint
<1>2. CASE block = "LATIN_1_SUPPLEMENT"
  <2>1. isLatin1SupplementLetter(normalizeLatin1SupplementCodePoint(cp)) = isLatin1SupplementLetter(cp)
      BY DEF isLatin1SupplementLetter, normalizeLatin1SupplementCodePoint
  <2> QED BY <1>2, <2>1 DEF isLetterPoint, normalizeCodePoint
<1>3. CASE block # "BASIC_LATIN" /\ block # "LATIN_1_SUPPLEMENT"
    BY <1>3 DEF isLetterPoint
<1> QED BY <1>1, <1>2, <1>3

WordsUpTo(points, n) == {w \in Words(points) : w[2] <= n}

\* A run of letters from a + 1 to e, after which no letter comes before m.
Run(points, a, e, m) ==
    /\ a \in 0..Len(points) /\ e \in a..Len(points) /\ m \in e..Len(points)
    /\ \A i \in (a + 1)..e : LetterAt(points, i)
    /\ a > 0 => ~LetterAt(points, a)
    /\ m # e => m = e + 1 /\ ~LetterAt(points, m)

\* One code point more is one letter more, or the end of the run.
LEMMA NextOfRun ==
    ASSUME NEW points \in Seq(Nat), NEW a, NEW n, Run(points, a, n, n), n < Len(points)
    PROVE  /\ LetterAt(points, n + 1) => Run(points, a, n + 1, n + 1)
           /\ ~LetterAt(points, n + 1) => /\ Run(points, a, n, n + 1)
                                         /\ Run(points, n + 1, n + 1, n + 1)
<1>1. Len(points) \in Nat /\ a \in Nat /\ n \in Nat /\ a <= n /\ n < Len(points)
    BY DEF Run
<1>2. /\ \A i \in (a + 1)..n : LetterAt(points, i)
      /\ a > 0 => ~LetterAt(points, a)
    BY DEF Run
<1>3. /\ a \in 0..Len(points) /\ n \in a..Len(points) /\ n + 1 \in 0..Len(points)
      /\ n + 1 \in n..Len(points) /\ n + 1 \in a..Len(points)
      /\ n + 1 \in (n + 1)..Len(points)
      /\ \A i \in (a + 1)..(n + 1) : i \in (a + 1)..n \/ i = n + 1
      /\ \A i \in ((n + 1) + 1)..(n + 1) : FALSE
    BY ONLY <1>1
<1> QED BY <1>2, <1>3 DEF Run

LEMMA WordAt ==
    ASSUME NEW points \in Seq(Nat), NEW w \in Words(points)
    PROVE  /\ w = <<w[1], w[2]>> /\ w[1] \in 1..Len(points) /\ w[2] \in 1..Len(points)
           /\ w[2] - w[1] >= 2
           /\ \A i \in w[1]..w[2] : LetterAt(points, i)
           /\ w[1] > 1 => ~LetterAt(points, w[1] - 1)
           /\ w[2] < Len(points) => ~LetterAt(points, w[2] + 1)
<1>1. DOMAIN points = 1..Len(points)
    OBVIOUS
<1>2. w \in (1..Len(points)) \X (1..Len(points))
    BY <1>1 DEF Words
<1>3. /\ w[2] - w[1] >= 2
      /\ \A i \in w[1]..w[2] : LetterAt(points, i)
      /\ w[1] > 1 => ~LetterAt(points, w[1] - 1)
      /\ w[2] < Len(points) => ~LetterAt(points, w[2] + 1)
    BY DEF Words
<1> QED BY <1>2, <1>3

\* A word that ends in the run, or right behind it, lies in it.
LEMMA WordInRun ==
    ASSUME NEW points \in Seq(Nat), NEW a, NEW e, NEW m, Run(points, a, e, m),
           NEW w \in WordsUpTo(points, m), ~(w[2] <= a)
    PROVE  w[1] >= a + 1 /\ w[2] <= e
<1>1. w \in Words(points) /\ w[2] <= m
    BY DEF WordsUpTo
<1>2. /\ w[1] \in 1..Len(points) /\ w[2] \in 1..Len(points) /\ w[2] - w[1] >= 2
      /\ \A i \in w[1]..w[2] : LetterAt(points, i)
    BY <1>1, WordAt
<1>3. a \in Nat /\ e \in Nat /\ m \in Nat /\ a <= e /\ e <= m
    BY DEF Run
<1>4. w[2] <= e
  <2>1. LetterAt(points, w[2])
      BY <1>2
  <2>2. m # e => m = e + 1 /\ w[2] # m
      BY <2>1 DEF Run
  <2> QED BY <1>1, <1>2, <1>3, <2>2
<1>5. w[1] >= a + 1
  <2> SUFFICES ASSUME w[1] <= a PROVE FALSE
      BY <1>2, <1>3
  <2>1. a \in w[1]..w[2] /\ a > 0
      BY <1>2, <1>3
  <2> QED BY <1>2, <2>1 DEF Run
<1> QED BY <1>4, <1>5

\* A run of at most two letters adds no word.
LEMMA ShortRun ==
    ASSUME NEW points \in Seq(Nat), NEW a, NEW e, NEW m, Run(points, a, e, m), e - a <= 2
    PROVE  WordsUpTo(points, m) = WordsUpTo(points, a)
<1>1. a \in Nat /\ e \in Nat /\ m \in Nat /\ a <= e /\ e <= m
    BY DEF Run
<1>2. ASSUME NEW w \in WordsUpTo(points, m) PROVE w[2] <= a
  <2> SUFFICES ASSUME ~(w[2] <= a) PROVE FALSE
      OBVIOUS
  <2>1. w[1] >= a + 1 /\ w[2] <= e
      BY WordInRun
  <2>2. w[1] \in 1..Len(points) /\ w[2] \in 1..Len(points) /\ w[2] - w[1] >= 2
      BY WordAt DEF WordsUpTo
  <2> QED BY <1>1, <2>1, <2>2
<1>3. ASSUME NEW w \in WordsUpTo(points, a) PROVE w[2] <= m
  <2>1. w[2] \in 1..Len(points) /\ w[2] <= a
      BY WordAt DEF WordsUpTo
  <2> QED BY <1>1, <2>1
<1> QED BY <1>2, <1>3 DEF WordsUpTo

\* A longer run is a word when it ends the text or a separator follows.
EndedRun(points, a, e, m, word) ==
    word = <<a + 1, e>> /\ Run(points, a, e, m) /\ e - a > 2 /\ (e = Len(points) \/ m = e + 1)

LEMMA LongRun ==
    ASSUME NEW points \in Seq(Nat), NEW a, NEW e, NEW m, NEW word,
           EndedRun(points, a, e, m, word)
    PROVE  WordsUpTo(points, m) = WordsUpTo(points, a) \cup {word}
<1> USE DEF EndedRun
<1>0. DOMAIN points = 1..Len(points) /\ Len(points) \in Nat
    OBVIOUS
<1>1. a \in Nat /\ e \in Nat /\ m \in Nat /\ a <= e /\ e <= m /\ m <= Len(points) /\ e - a > 2
    BY DEF Run
<1>2. <<a + 1, e>> \in Words(points)
  <2> DEFINE w == <<a + 1, e>>
  <2>1. w \in (DOMAIN points) \X (DOMAIN points) /\ w[1] = a + 1 /\ w[2] = e
    <3>0. Len(points) \in Nat
        OBVIOUS
    <3>1. a + 1 \in 1..Len(points) /\ e \in 1..Len(points)
        BY ONLY <1>1, <3>0
    <3> QED BY <1>0, <3>1
  <2>2. e - (a + 1) >= 2
      BY <1>1
  <2>3. \A i \in (a + 1)..e : LetterAt(points, i)
      BY DEF Run
  <2>4. a + 1 > 1 => ~LetterAt(points, (a + 1) - 1)
    <3>1. a + 1 > 1 => a > 0 /\ (a + 1) - 1 = a
        BY <1>1
    <3> QED BY <3>1 DEF Run
  <2>5. e < Len(points) => ~LetterAt(points, e + 1)
    <3>1. e < Len(points) => m = e + 1 /\ m # e
      <4>1. e = Len(points) \/ m = e + 1
          OBVIOUS
      <4>2. Len(points) \in Nat
          BY <1>0
      <4> QED BY ONLY <1>1, <4>1, <4>2
    <3> QED BY <3>1 DEF Run
  <2> HIDE DEF w
  <2>6. w \in Words(points)
      BY <2>1, <2>2, <2>3, <2>4, <2>5 DEF Words
  <2> QED BY <2>6 DEF w
<1>3. ASSUME NEW w \in WordsUpTo(points, m), ~(w[2] <= a) PROVE w = <<a + 1, e>>
  <2>1. w[1] >= a + 1 /\ w[2] <= e
      BY <1>3, WordInRun
  <2>2. /\ w[1] \in 1..Len(points) /\ w[2] \in 1..Len(points) /\ w = <<w[1], w[2]>>
        /\ w[2] - w[1] >= 2
        /\ w[1] > 1 => ~LetterAt(points, w[1] - 1)
        /\ w[2] < Len(points) => ~LetterAt(points, w[2] + 1)
      BY WordAt DEF WordsUpTo
  <2> DEFINE u == w[1]
             v == w[2]
  <2>0. /\ u \in Nat /\ v \in Nat /\ u >= 1 /\ a + 1 <= u /\ u + 2 <= v /\ v <= e /\ ~(v <= a)
        /\ v <= Len(points) /\ Len(points) \in Nat
      BY <1>3, <2>1, <2>2
  <2> HIDE DEF u, v
  <2>3. w[2] = e
    <3> SUFFICES ASSUME w[2] < e PROVE FALSE
        BY <1>1, <2>0 DEF v
    <3>1. v < e => v + 1 \in (a + 1)..e /\ v < Len(points)
        BY ONLY <1>1, <2>0
    <3>2. w[2] + 1 \in (a + 1)..e /\ w[2] < Len(points)
        BY <3>1 DEF v
    <3> QED BY <2>2, <3>2 DEF Run
  <2>4. w[1] = a + 1
    <3> SUFFICES ASSUME w[1] > a + 1 PROVE FALSE
        BY <1>1, <2>0 DEF u
    <3>1. u > a + 1 => u - 1 \in (a + 1)..e /\ u > 1
        BY ONLY <1>1, <2>0
    <3>2. w[1] - 1 \in (a + 1)..e /\ w[1] > 1
        BY <3>1 DEF u
    <3> QED BY <2>2, <3>2 DEF Run
  <2> QED BY <2>2, <2>3, <2>4
<1>4. ASSUME NEW w \in WordsUpTo(points, a) PROVE w[2] <= m
  <2>1. w[2] \in 1..Len(points) /\ w[2] <= a
      BY WordAt DEF WordsUpTo
  <2> QED BY <1>1, <2>1
<1>5. <<a + 1, e>>[2] <= m
    BY <1>1
<1> QED BY <1>2, <1>3, <1>4, <1>5 DEF WordsUpTo

-----------------------------------------------------------------------------
\* The ranges that next() hands out.

TokenRange(points, w) == <<Offset(points, w[1] - 1), Offset(points, w[2]) + Rest(points, w[2])>>
Ranges(points, n) == {TokenRange(points, w) : w \in WordsUpTo(points, n)}

LEMMA OffsetIsNat ==
    ASSUME NEW points \in Seq(Nat), NEW n \in 0..Len(points)
    PROVE  Offset(points, n) \in Nat
<1>1. SubSeq(points, 1, n) \in Seq(Nat)
    OBVIOUS
<1>2. EncodeAll(SubSeq(points, 1, n)) \in Seq(Byte)
    BY <1>1, EncodeType
<1> QED BY <1>2 DEF Offset

\* The tokens so far are the words of the first a code points.
TokensUpTo(a) ==
    /\ \E S : tokens \in Seq(S)
    /\ ToSet(tokens) = Ranges(original, a)
    /\ \A i \in DOMAIN tokens : tokens[i][1] \in Nat /\ tokens[i][1] < Offset(original, a)
    /\ \A i, j \in DOMAIN tokens : i < j => tokens[i][1] < tokens[j][1]

\* Of the n code points read, those after the first a may still become a token.
Scanning(n, a) ==
    /\ in = Offset(original, n) /\ start = Offset(original, a)
    /\ pc = "read" => n < Len(original) /\ size = n - a /\ Run(original, a, n, n)
    /\ pc = "token" => \E e \in a..n : /\ size = e - a /\ size > 2 /\ Run(original, a, e, n)
                                       /\ (e = Len(original) \/ n = e + 1)
    /\ pc \notin {"read", "token"} =>
          WordsUpTo(original, a) = WordsUpTo(original, Len(original))

ScanInv ==
    \E n \in 0..Len(original), a \in 0..Len(original) :
        a <= n /\ Scanning(n, a) /\ TokensUpTo(a)

\* Code points that hold no word leave the tokens as they are.
LEMMA NoWordBetween ==
    ASSUME original \in Seq(Nat), NEW a \in 0..Len(original), NEW b \in 0..Len(original), a <= b,
           TokensUpTo(a), WordsUpTo(original, b) = WordsUpTo(original, a)
    PROVE  TokensUpTo(b)
<1>1. Ranges(original, b) = Ranges(original, a)
    BY DEF Ranges
<1>2. Offset(original, a) \in Nat /\ Offset(original, b) \in Nat
    BY OffsetIsNat
<1>3. Offset(original, a) <= Offset(original, b)
  <2>1. CASE a = b
      BY <1>2, <2>1
  <2>2. CASE a < b
      BY <1>2, <2>2, OffsetsGrow
  <2> QED BY <2>1, <2>2
<1>4. ASSUME NEW i \in DOMAIN tokens
      PROVE  tokens[i][1] \in Nat /\ tokens[i][1] < Offset(original, b)
  <2>1. tokens[i][1] \in Nat /\ tokens[i][1] < Offset(original, a)
      BY DEF TokensUpTo
  <2> QED BY ONLY <1>2, <1>3, <2>1
<1> QED BY <1>1, <1>4 DEF TokensUpTo

\* A longer run of letters gives one token more.
LEMMA OneTokenMore ==
    ASSUME original \in Seq(Nat), NEW a \in 0..Len(original), NEW b \in 0..Len(original), a < b,
           TokensUpTo(a), NEW w, w[1] = a + 1,
           WordsUpTo(original, b) = WordsUpTo(original, a) \cup {w},
           tokens' = Append(tokens, TokenRange(original, w)), original' = original
    PROVE  TokensUpTo(b)'
<1> DEFINE r == TokenRange(original, w)
           t == Append(tokens, r)
<1>1. PICK S : tokens \in Seq(S)
    BY DEF TokensUpTo
<1>2. Offset(original, a) \in Nat /\ Offset(original, b) \in Nat
      /\ Offset(original, a) < Offset(original, b)
    BY OffsetIsNat, OffsetsGrow
<1>3. r[1] = Offset(original, a)
  <2>1. w[1] - 1 = a
      OBVIOUS
  <2> QED BY <2>1 DEF TokenRange
<1>4. Ranges(original, b) = Ranges(original, a) \cup {r}
    BY DEF Ranges
<1> HIDE DEF r
<1>5. /\ tokens \in Seq(S \cup {r}) /\ t \in Seq(S \cup {r})
      /\ DOMAIN t = DOMAIN tokens \cup {Len(tokens) + 1}
      /\ t[Len(tokens) + 1] = r
      /\ Len(tokens) \in Nat
      /\ \A i \in DOMAIN tokens : t[i] = tokens[i] /\ i \in Nat /\ i < Len(tokens) + 1
    BY <1>1
<1> DEFINE k == Len(tokens) + 1
           D == DOMAIN tokens
<1>6. DOMAIN t = D \cup {k} /\ t[k] = r /\ k \in Nat
      /\ \A i \in D : t[i] = tokens[i] /\ i \in Nat /\ i < k
    BY <1>5
<1> HIDE DEF t, k, D
<1>7. ToSet(t) = Ranges(original, b)
  <2>1. ToSet(tokens) = {tokens[i] : i \in D} /\ ToSet(t) = {t[i] : i \in DOMAIN t}
      BY DEF ToSet, D
  <2>2. ToSet(t) = ToSet(tokens) \cup {r}
      BY <1>6, <2>1
  <2>3. ToSet(tokens) = Ranges(original, a)
      BY DEF TokensUpTo
  <2> QED BY <1>4, <2>2, <2>3
<1>8. \A i \in D : tokens[i][1] \in Nat /\ tokens[i][1] < Offset(original, a)
    BY DEF TokensUpTo, D
<1>9. \A i, j \in D : i < j => tokens[i][1] < tokens[j][1]
    BY DEF TokensUpTo, D
<1>10. ASSUME NEW i \in D \cup {k} PROVE t[i][1] \in Nat /\ t[i][1] < Offset(original, b)
  <2>1. CASE i = k
      BY <1>2, <1>3, <1>6, <2>1
  <2>2. CASE i \in D
    <3>1. t[i][1] \in Nat /\ t[i][1] < Offset(original, a)
        BY <1>6, <1>8, <2>2
    <3> QED BY ONLY <1>2, <3>1
  <2> QED BY <2>1, <2>2
<1>11. ASSUME NEW i \in D \cup {k}, NEW j \in D \cup {k}, i < j PROVE t[i][1] < t[j][1]
  <2>1. CASE i \in D /\ j \in D
      BY <1>6, <1>9, <1>11, <2>1
  <2>2. CASE i \in D /\ j = k
      BY <1>3, <1>6, <1>8, <2>2
  <2>3. ~(i = k)
    <3> SUFFICES ASSUME i = k PROVE FALSE
        OBVIOUS
    <3>1. j = k \/ (j \in Nat /\ j < k)
        BY <1>6
    <3>2. k < j /\ k \in Nat
        BY <1>6, <1>11
    <3> QED BY ONLY <3>1, <3>2
  <2> QED BY <2>1, <2>2, <2>3
<1>12. tokens' = t
    BY DEF t, r
<1>13. \E T : t \in Seq(T)
    BY <1>5 DEF t
<1> QED BY <1>6, <1>7, <1>10, <1>11, <1>12, <1>13 DEF TokensUpTo

\* What one round of the loop reads: the next code point, whose case does not matter.
LEMMA NextPoint ==
    ASSUME InPlaceInv, ReadPoint, NEW n \in 0..Len(original), in = Offset(original, n),
           n < Len(original)
    PROVE  LET letter == LetterAt(original, n + 1)
           IN  /\ n + 1 \in 0..Len(original)
               /\ in' = Offset(original, n + 1)
               /\ size' = IF letter THEN size + 1 ELSE IF size > 2 THEN size ELSE 0
               /\ start' = IF letter \/ size > 2 THEN start ELSE Offset(original, n + 1)
               /\ pc' = IF size' > 2 /\ (~letter \/ n + 1 = Len(original)) THEN "token"
                        ELSE IF n + 1 = Len(original) THEN "build"
                        ELSE "read"
               /\ original' = original /\ tokens' = tokens
<1> DEFINE x == original[n + 1]
<1>0. original \in Seq(Nat) /\ Len(original) \in Nat
    BY DEF InPlaceInv
<1>1. n \in 0..(Len(original) - 1) /\ n + 1 \in 0..Len(original)
    BY <1>0
<1>2. ReadUpTo(n)
  <2>1. PICK m \in 0..Len(original) : ReadUpTo(m)
      BY DEF InPlaceInv
  <2>2. m = n
      BY <1>0, <2>1, OffsetsDiffer DEF ReadUpTo
  <2> QED BY <2>1, <2>2
<1>3. /\ x \in Nat /\ text[in + 1][1] = x
      /\ Offset(original, n + 1) = in + Width(x)
    BY <1>0, <1>1, <1>2, OnePoint DEF ReadUpTo
<1>4. Len(text) = Offset(original, Len(original))
    BY <1>0, <1>2, MixedLength DEF ReadUpTo
<1>5. Offset(original, n + 1) = Len(text) <=> n + 1 = Len(original)
    BY <1>0, <1>1, <1>4, OffsetsDiffer
<1> DEFINE block == getUnicodeBlock(x)
           letter == isLetterPoint(normalizeCodePoint(x, block), block)
<1>6. letter = LetterAt(original, n + 1)
    BY <1>3, LetterKept DEF LetterAt
<1> HIDE DEF x
<1>7. /\ in' = in + Width(x)
      /\ size' = IF letter THEN size + 1 ELSE IF size > 2 THEN size ELSE 0
      /\ start' = IF letter \/ size > 2 THEN start ELSE in + Width(x)
      /\ pc' = IF size' > 2 /\ (~letter \/ in + Width(x) = Len(text)) THEN "token"
               ELSE IF in + Width(x) = Len(text) THEN "build"
               ELSE "read"
      /\ original' = original /\ tokens' = tokens
    BY <1>3 DEF ReadPoint
<1> HIDE DEF letter
<1> QED BY <1>1, <1>3, <1>5, <1>6, <1>7

\* Where a token ends in the buffer.
LEMMA TokenEndsBehindWord ==
    ASSUME original \in Seq(Nat), NEW n \in 0..Len(original), NEW e \in 0..n,
           n = e \/ n = e + 1, e = Len(original) \/ n = e + 1
    PROVE  TokenEnd(Offset(original, n), Offset(original, Len(original)))
              = Offset(original, e) + Rest(original, e)
<1>0. Len(original) \in Nat /\ n \in Nat /\ e \in Nat /\ n <= Len(original)
    OBVIOUS
<1>1. Offset(original, n) \in Nat /\ Offset(original, e) \in Nat
    BY <1>0, OffsetIsNat
<1>2. CASE e = Len(original)
  <2>1. n = Len(original) /\ Rest(original, e) = 0
      BY <1>0, <1>2 DEF Rest
  <2> QED BY <1>1, <1>2, <2>1 DEF TokenEnd
<1>3. CASE e # Len(original)
  <2>1. n = e + 1 /\ e \in 0..(Len(original) - 1)
      BY <1>0, <1>3
  <2>2. original[e + 1] \in Nat /\ Offset(original, n) = Offset(original, e) + Width(original[e + 1])
      BY <2>1, OnePoint
  <2>3. Width(original[e + 1]) \in Int
      BY <2>2, EncodePoint
  <2>4. Offset(original, n) = Offset(original, Len(original)) <=> n = Len(original)
      BY <1>0, OffsetsDiffer
  <2> QED BY <1>1, <1>3, <2>1, <2>2, <2>3, <2>4 DEF TokenEnd, Rest
<1> QED BY <1>2, <1>3

LEMMA ScanInvariant == Spec => []ScanInv
<1>1. Init => ScanInv
  <2> SUFFICES ASSUME Init PROVE ScanInv
      OBVIOUS
  <2>1. original \in Seq(Nat) /\ Len(original) \in Nat
      BY TextsAssumption DEF Init
  <2>2. Offset(original, 0) = 0
    <3>1. SubSeq(original, 1, 0) = << >> /\ Len(<< >>) = 0
        BY <2>1
    <3> QED BY <3>1, EncodeEmpty DEF Offset
  <2>3. in = 0 /\ start = 0 /\ size = 0 /\ tokens = << >>
      BY DEF Init
  <2>4. 0 \in 0..Len(original) /\ 0 - 0 = 0 /\ 0 <= 0
      BY <2>1
  <2>5. Run(original, 0, 0, 0)
      BY <2>1 DEF Run
  <2>6. pc = "read" => 0 < Len(original)
    <3>1. pc = "read" => original # << >>
        BY DEF Init
    <3> QED BY <2>1, <3>1
  <2>7. pc # "read" => pc = "build" /\ Len(original) = 0
      BY DEF Init
  <2>8. Scanning(0, 0)
      BY <2>2, <2>3, <2>4, <2>5, <2>6, <2>7 DEF Scanning
  <2>9. WordsUpTo(original, 0) = {}
    <3> SUFFICES ASSUME NEW w \in WordsUpTo(original, 0) PROVE FALSE
        OBVIOUS
    <3>1. w \in Words(original) /\ w[2] <= 0
        BY DEF WordsUpTo
    <3>2. w[2] \in 1..Len(original)
        BY <2>1, <3>1, WordAt
    <3> QED BY <3>1, <3>2
  <2>10. TokensUpTo(0)
    <3>1. Ranges(original, 0) = {}
        BY <2>9 DEF Ranges
    <3>2. << >> \in Seq({}) /\ DOMAIN << >> = {} /\ ToSet(<< >>) = {}
        BY DEF ToSet
    <3> QED BY <2>3, <3>1, <3>2 DEF TokensUpTo
  <2> QED BY <2>4, <2>8, <2>10 DEF ScanInv
<1>2. ScanInv /\ InPlaceInv /\ [Next]_vars => ScanInv'
  <2> SUFFICES ASSUME ScanInv, InPlaceInv, [Next]_vars PROVE ScanInv'
      OBVIOUS
  <2>1. original' = original /\ original \in Seq(Nat) /\ Len(original) \in Nat
      BY DEF InPlaceInv, Next, ReadPoint, ProcessToken, build, saveNewDocument, vars
  <2>2. PICK n \in 0..Len(original), a \in 0..Len(original) :
                a <= n /\ Scanning(n, a) /\ TokensUpTo(a)
      BY DEF ScanInv
  <2>3. in = Offset(original, n) /\ start = Offset(original, a)
      BY <2>2 DEF Scanning
  <2>4. ASSUME NEW m \in 0..Len(original), NEW b \in 0..Len(original), b <= m,
               Scanning(m, b)', TokensUpTo(b)'
        PROVE  ScanInv'
      BY <2>1, <2>4 DEF ScanInv
  <2>5. CASE ReadPoint
    <3> DEFINE m == n + 1
               letter == LetterAt(original, n + 1)
    <3>1. n < Len(original) /\ size = n - a /\ Run(original, a, n, n)
        BY <2>2, <2>5 DEF ReadPoint, Scanning
    <3>2. /\ m \in 0..Len(original)
          /\ in' = Offset(original, m)
          /\ size' = IF letter THEN size + 1 ELSE IF size > 2 THEN size ELSE 0
          /\ start' = IF letter \/ size > 2 THEN start ELSE Offset(original, m)
          /\ pc' = IF size' > 2 /\ (~letter \/ m = Len(original)) THEN "token"
                   ELSE IF m = Len(original) THEN "build"
                   ELSE "read"
          /\ tokens' = tokens
        BY <2>3, <2>5, <3>1, NextPoint
    <3>3. a \in Nat /\ n \in Nat /\ a <= n /\ m = n + 1 /\ m <= Len(original)
        BY <2>1, <2>2, <3>2
    <3>4. TokensUpTo(a)'
        BY <2>1, <2>2, <3>2 DEF TokensUpTo
    <3> HIDE DEF m
    <3>5. CASE letter
      <4>1. Run(original, a, m, m)
          BY <2>1, <3>1, <3>5, NextOfRun DEF m
      <4>2. size' = m - a /\ start' = start
          BY <3>1, <3>2, <3>3, <3>5
      <4>3. CASE pc' = "read"
        <5>1. m < Len(original)
            BY <2>1, <3>2, <3>3, <3>5, <4>3
        <5>2. Scanning(m, a)'
            BY <2>1, <2>3, <3>2, <4>1, <4>2, <4>3, <5>1 DEF Scanning
        <5> QED BY <2>2, <2>4, <3>2, <3>3, <3>4, <5>2
      <4>4. CASE pc' = "token"
        <5>1. m = Len(original) /\ size' > 2 /\ m \in a..m
            BY <3>2, <3>3, <3>5, <4>4
        <5>2. Scanning(m, a)'
            BY <2>1, <2>3, <3>2, <4>1, <4>2, <4>4, <5>1 DEF Scanning
        <5> QED BY <2>2, <2>4, <3>2, <3>3, <3>4, <5>2
      <4>5. CASE pc' = "build"
        <5>1. m = Len(original) /\ m - a <= 2
            BY <3>2, <3>3, <3>5, <4>2, <4>5
        <5>2. WordsUpTo(original, m) = WordsUpTo(original, a)
            BY <2>1, <4>1, <5>1, ShortRun
        <5>3. Scanning(m, a)'
            BY <2>1, <2>3, <3>2, <4>2, <4>5, <5>1, <5>2 DEF Scanning
        <5> QED BY <2>2, <2>4, <3>2, <3>3, <3>4, <5>3
      <4> QED BY <3>2, <4>3, <4>4, <4>5
    <3>6. CASE ~letter
      <4>1. Run(original, a, n, m)
          BY <2>1, <3>1, <3>6, NextOfRun DEF m
      <4>2. CASE size > 2
        <5>1. size' = n - a /\ size' > 2 /\ start' = start /\ pc' = "token" /\ n \in a..m
            BY <3>1, <3>2, <3>3, <3>6, <4>2
        <5>2. Scanning(m, a)'
            BY <2>1, <2>3, <3>2, <3>3, <4>1, <5>1 DEF Scanning
        <5> QED BY <2>2, <2>4, <3>2, <3>3, <3>4, <5>2
      <4>3. CASE ~(size > 2)
        <5>1. /\ size' = 0 /\ start' = Offset(original, m)
              /\ pc' = IF m = Len(original) THEN "build" ELSE "read"
            BY <3>2, <3>6, <4>3
        <5>2. WordsUpTo(original, m) = WordsUpTo(original, a)
          <6>1. n - a <= 2
              BY <3>1, <3>3, <4>3
          <6> QED BY <2>1, <4>1, <6>1, ShortRun
        <5>3. TokensUpTo(m)'
          <6>1. TokensUpTo(m)
              BY <2>1, <2>2, <3>2, <3>3, <5>2, NoWordBetween
          <6> QED BY <2>1, <3>2, <6>1 DEF TokensUpTo
        <5>4. Run(original, m, m, m) /\ m - m = 0
          <6>1. Run(original, m, m, m)
              BY <2>1, <3>1, <3>6, NextOfRun DEF m
          <6> QED BY <3>3, <6>1
        <5>5. m # Len(original) => m < Len(original)
            BY <2>1, <3>3
        <5>6. Scanning(m, m)'
            BY <2>1, <3>2, <5>1, <5>4, <5>5 DEF Scanning
        <5> QED BY <2>4, <3>2, <3>3, <5>3, <5>6
      <4> QED BY <4>2, <4>3
    <3> QED BY <3>5, <3>6
  <2>6. CASE ProcessToken
    <3>1. PICK e \in a..n : /\ size = e - a /\ size > 2 /\ Run(original, a, e, n)
                            /\ (e = Len(original) \/ n = e + 1)
        BY <2>2, <2>6 DEF ProcessToken, Scanning
    <3> DEFINE w == <<a + 1, e>>
    <3>2. e \in Nat /\ a \in Nat /\ n \in Nat /\ a < e /\ e <= n /\ n <= Len(original) /\ e - a > 2
        BY <2>1, <2>2, <3>1
    <3>3. WordsUpTo(original, n) = WordsUpTo(original, a) \cup {w}
      <4>1. EndedRun(original, a, e, n, w)
          BY <3>1, <3>2 DEF EndedRun
      <4> HIDE DEF w
      <4> QED BY <2>1, <4>1, LongRun
    <3>4. Len(text) = Offset(original, Len(original))
      <4>1. PICK k \in 0..Len(original) : ReadUpTo(k)
          BY DEF InPlaceInv
      <4> QED BY <2>1, <4>1, MixedLength DEF ReadUpTo
    <3>5. /\ tokens' = Append(tokens, <<start, TokenEnd(in, Len(text))>>)
          /\ size' = 0 /\ start' = in /\ in' = in
          /\ pc' = IF in = Len(text) THEN "build" ELSE "read"
        BY <2>6 DEF ProcessToken
    <3>6. TokenEnd(in, Len(text)) = Offset(original, e) + Rest(original, e)
      <4>1. (n = e \/ n = e + 1) /\ (e = Len(original) \/ n = e + 1)
          BY <2>1, <3>1, <3>2
      <4>2. e \in 0..n
          BY <3>2
      <4> QED BY <2>1, <2>3, <3>4, <4>1, <4>2, TokenEndsBehindWord
    <3>7. <<start, TokenEnd(in, Len(text))>> = TokenRange(original, w)
      <4>1. w[1] - 1 = a /\ w[2] = e
          BY <3>2
      <4> QED BY <2>3, <3>6, <4>1 DEF TokenRange
    <3>8. w[1] = a + 1 /\ a < n
        BY <3>2
    <3> HIDE DEF w
    <3>9. TokensUpTo(n)'
        BY <2>1, <2>2, <3>3, <3>5, <3>7, <3>8, OneTokenMore
    <3>10. in = Len(text) <=> n = Len(original)
        BY <2>1, <2>3, <3>4, OffsetsDiffer
    <3>11. n # Len(original) => n < Len(original) /\ Run(original, n, n, n) /\ n - n = 0
      <4> SUFFICES ASSUME n # Len(original) PROVE n < Len(original) /\ Run(original, n, n, n) /\ n - n = 0
          OBVIOUS
      <4>1. n < Len(original) /\ n = e + 1
          BY <2>1, <3>1, <3>2
      <4>2. ~LetterAt(original, n)
          BY <3>1, <3>2, <4>1 DEF Run
      <4> QED BY <2>1, <3>2, <4>1, <4>2 DEF Run
    <3>12. Scanning(n, n)'
        BY <2>1, <2>3, <3>5, <3>10, <3>11 DEF Scanning
    <3> QED BY <2>2, <2>4, <3>2, <3>9, <3>12
  <2>7. CASE build \/ saveNewDocument
    <3>1. UNCHANGED <<in, start, size, tokens>> /\ pc' \in {"save", "saved"}
          /\ pc \notin {"read", "token"}
        BY <2>7 DEF build, saveNewDocument
    <3>2. Scanning(n, a)'
        BY <2>1, <2>2, <3>1 DEF Scanning
    <3>3. TokensUpTo(a)'
        BY <2>1, <2>2, <3>1 DEF TokensUpTo
    <3> QED BY <2>2, <2>4, <3>2, <3>3
  <2>8. CASE UNCHANGED vars
    <3>1. Scanning(n, a)'
        BY <2>1, <2>2, <2>8 DEF Scanning, vars
    <3>2. TokensUpTo(a)'
        BY <2>1, <2>2, <2>8 DEF TokensUpTo, vars
    <3> QED BY <2>2, <2>4, <3>1, <3>2
  <2> QED BY <2>5, <2>6, <2>7, <2>8 DEF Next
<1> QED BY <1>1, <1>2, InPlaceInvariant, PTL DEF Spec

\* The tokens of a text are its maximal runs of more than two letters, each once and in
\* order, whatever the text: no word is lost at the end of the text or behind a run that was
\* too short, none is handed out twice, and no two neighbours are joined.
THEOREM TokensAreTheWords == Spec => []TokensAreWords
<1>1. ScanInv /\ InPlaceInv => TokensAreWords
  <2> SUFFICES ASSUME ScanInv, InPlaceInv, pc \in {"build", "save", "saved"}
               PROVE  /\ ToSet(tokens) = {TokenRange(original, w) : w \in Words(original)}
                      /\ \A i, j \in DOMAIN tokens : i < j => tokens[i][1] < tokens[j][1]
      BY DEF TokensAreWords, TokenRange, Offset
  <2>1. PICK a \in 0..Len(original) :
           TokensUpTo(a) /\ WordsUpTo(original, a) = WordsUpTo(original, Len(original))
      BY DEF ScanInv, Scanning
  <2>2. WordsUpTo(original, Len(original)) = Words(original)
    <3>1. ASSUME NEW w \in Words(original) PROVE w[2] <= Len(original)
      <4>1. original \in Seq(Nat)
          BY DEF InPlaceInv
      <4>2. w[2] \in 1..Len(original)
          BY <4>1, WordAt
      <4> QED BY <4>2
    <3> QED BY <3>1 DEF WordsUpTo
  <2> QED BY <2>1, <2>2 DEF TokensUpTo, Ranges
<1> QED BY <1>1, ScanInvariant, InPlaceInvariant, PTL

-----------------------------------------------------------------------------
\* What is counted.

\* The bytes before the input pointer are not written again.
LEMMA BehindThePointer ==
    ASSUME InPlaceInv, ReadPoint
    PROVE  \A i \in 1..in : text'[i] = text[i]
<1>1. PICK n \in 0..Len(original) : ReadUpTo(n)
    BY DEF InPlaceInv
<1>2. original \in Seq(Nat) /\ Len(original) \in Nat
    BY DEF InPlaceInv
<1>3. /\ in = Offset(original, n) /\ out = in /\ in \in Nat
      /\ Len(text) = Offset(original, Len(original)) /\ Len(text) \in Nat
  <2>1. Len(original) \in 0..Len(original)
      BY <1>2
  <2> QED BY <1>1, <1>2, <2>1, MixedLength, OffsetIsNat DEF ReadUpTo
<1>4. in <= Len(text)
  <2>1. CASE n = Len(original)
      BY <1>3, <2>1
  <2>2. CASE n # Len(original)
    <3>1. n < Len(original) /\ Len(original) \in 0..Len(original)
        BY <1>2, <2>2
    <3> QED BY <1>2, <1>3, <3>1, OffsetsGrow
  <2> QED BY <2>1, <2>2
<1>5. PICK bytes : text' = Overwrite(text, in, bytes) /\ Len(bytes) \in Nat
  <2> DEFINE cp == text[in + 1][1]
             point == normalizeCodePoint(cp, getUnicodeBlock(cp))
  <2>1. text' = Overwrite(text, in, Encode(point))
      BY <1>3 DEF ReadPoint
  <2>2. Len(Encode(point)) \in Nat
    <3>1. Width(point) \in Nat
        BY DEF Width
    <3> HIDE DEF point
    <3> QED BY <3>1 DEF Encode
  <2> QED BY <2>1, <2>2
<1>6. \A i \in 1..in : i \in 1..Max({Len(text), in + Len(bytes)})
  <2> DEFINE a == Len(text)
             b == in + Len(bytes)
  <2>1. a \in Nat /\ b \in Nat
      BY <1>3, <1>5
  <2> HIDE DEF a, b
  <2>2. \E x \in {a, b} : \A y \in {a, b} : x >= y
      BY <2>1
  <2>3. Max({a, b}) \in {a, b} /\ \A y \in {a, b} : Max({a, b}) >= y
      BY <2>2 DEF Max
  <2>4. Max({a, b}) \in Nat /\ Max({a, b}) >= a
      BY <2>1, <2>3
  <2> QED BY <1>3, <1>4, <2>4 DEF a, b
<1>7. \A i \in 1..in : i \notin in + 1 .. in + Len(bytes)
    BY <1>3, <1>5
<1> QED BY <1>5, <1>6, <1>7 DEF Overwrite

\* The tokens of a view.
Having(view) == {j \in DOMAIN tokens : ViewOf(tokens[j]) = view}

Dropped(view) == isStopword(assignWord(view).word)

\* The ranges end before the pointer; the entries are views that are not dropped, with the
\* number of their tokens, and there is one for every token that is not dropped.
CountInv ==
    /\ IsSequence(tokens)
    /\ \A j \in DOMAIN tokens : /\ tokens[j][1] \in Nat
                                /\ tokens[j][2] \in Int /\ tokens[j][2] <= in
    /\ \A i \in DOMAIN scoredWords : /\ ~Dropped(scoredWords[i].view)
                                     /\ scoredWords[i].count = Cardinality(Having(scoredWords[i].view))
    /\ \A j \in DOMAIN tokens :
          Dropped(ViewOf(tokens[j]))
             \/ \E i \in DOMAIN scoredWords : scoredWords[i].view = ViewOf(tokens[j])

LEMMA CountingChecks == CountInv /\ EntriesDiffer => EveryTokenCounted
<1> SUFFICES ASSUME CountInv, EntriesDiffer PROVE EveryTokenCounted
    OBVIOUS
<1>1. \A i \in DOMAIN scoredWords :
         scoredWords[i].count
            = Cardinality({j \in DOMAIN tokens : ViewOf(tokens[j]) = scoredWords[i].view})
    BY DEF CountInv, Having
<1>2. \A j \in DOMAIN tokens :
         ~isStopword(assignWord(ViewOf(tokens[j])).word)
            <=> \E i \in DOMAIN scoredWords : scoredWords[i].view = ViewOf(tokens[j])
    BY Zenon DEF CountInv, Dropped
<1> QED BY <1>1, <1>2 DEF EveryTokenCounted

\* What a step leaves of the counts when it changes neither tokens nor entries nor their views.
LEMMA SameCounts ==
    ASSUME CountInv, UNCHANGED <<tokens, scoredWords, language>>, in' \in Int, in \in Int, in <= in',
           \A j \in DOMAIN tokens : SubSeq(text', tokens[j][1] + 1, tokens[j][2])
                                       = SubSeq(text, tokens[j][1] + 1, tokens[j][2])
    PROVE  CountInv'
<1>1. \A j \in DOMAIN tokens : ViewOf(tokens[j])' = ViewOf(tokens[j])
    BY Zenon DEF ViewOf, StemmerCode
<1>2. \A v : Dropped(v)' <=> Dropped(v)
    BY DEF Dropped, isStopword
<1>3. tokens' = tokens /\ scoredWords' = scoredWords
    OBVIOUS
<1>4. \A v : Having(v)' = Having(v)
    BY <1>1, <1>3 DEF Having
<1>5. \A j \in DOMAIN tokens : tokens[j][1] \in Nat /\ tokens[j][2] \in Int /\ tokens[j][2] <= in'
    BY DEF CountInv
<1> QED BY <1>1, <1>2, <1>3, <1>4, <1>5 DEF CountInv

\* add() puts a view that is new into an entry of its own and counts it in its entry otherwise.
NewEntry(words, after, v) ==
    /\ \A i \in DOMAIN words : words[i].view # v /\ after[i] = words[i]
    /\ \E k : /\ k \notin DOMAIN words /\ DOMAIN after = DOMAIN words \cup {k}
              /\ after[k].view = v /\ after[k].count = 1

OneMoreOf(words, after, v) ==
    /\ DOMAIN after = DOMAIN words
    /\ \E i \in DOMAIN words : words[i].view = v
    /\ \A i \in DOMAIN words :
          /\ after[i].view = words[i].view
          /\ after[i].count = IF words[i].view = v THEN words[i].count + 1 ELSE words[i].count

LEMMA AddCounts ==
    ASSUME NEW words, Entries(words), NEW v
    PROVE  NewEntry(words, add(words, v), v) \/ OneMoreOf(words, add(words, v), v)
<1>1. PICK S : words \in Seq(S)
    BY DEF Entries, IsSequence
<1>2. CASE Counted(words, v) = {}
  <2> DEFINE f == Append(words, scored(v))
             k == Len(words) + 1
  <2>1. add(words, v) = f
      BY <1>2 DEF add
  <2>2. words \in Seq(S \cup {scored(v)})
      BY <1>1
  <2>3. /\ k \notin DOMAIN words /\ DOMAIN f = DOMAIN words \cup {k}
        /\ f[k] = scored(v) /\ \A i \in DOMAIN words : f[i] = words[i]
      BY <2>2
  <2>4. scored(v).view = v /\ scored(v).count = 1
      BY DEF scored
  <2>5. \A i \in DOMAIN words : words[i].view # v
      BY <1>2 DEF Counted
  <2> HIDE DEF f, k
  <2> QED BY <2>1, <2>3, <2>4, <2>5 DEF NewEntry
<1>3. CASE Counted(words, v) # {}
  <2> DEFINE f == [i \in DOMAIN words |->
                IF i \in Counted(words, v) THEN [words[i] EXCEPT !.count = @ + 1] ELSE words[i]]
  <2>1. add(words, v) = f /\ DOMAIN f = DOMAIN words
      BY <1>3 DEF add
  <2>2. ASSUME NEW i \in DOMAIN words
        PROVE  /\ f[i].view = words[i].view
               /\ f[i].count = IF words[i].view = v THEN words[i].count + 1 ELSE words[i].count
    <3> DEFINE w == words[i]
    <3>1. w = [view |-> w.view, word |-> w.word, size |-> w.size, count |-> w.count]
        BY DEF Entries, IsEntry
    <3>2. [w EXCEPT !.count = @ + 1]
             = [view |-> w.view, word |-> w.word, size |-> w.size, count |-> w.count + 1]
        BY <3>1
    <3>3. f[i] = IF w.view = v THEN [w EXCEPT !.count = @ + 1] ELSE w
        BY DEF Counted
    <3> HIDE DEF f, w
    <3>4. CASE w.view = v
      <4>1. f[i] = [view |-> w.view, word |-> w.word, size |-> w.size, count |-> w.count + 1]
          BY <3>2, <3>3, <3>4
      <4> QED BY <3>4, <4>1 DEF w
    <3>5. CASE w.view # v
        BY <3>3, <3>5 DEF w
    <3> QED BY <3>4, <3>5
  <2>3. \E i \in DOMAIN words : words[i].view = v
      BY <1>3 DEF Counted
  <2> HIDE DEF f
  <2> QED BY <2>1, <2>2, <2>3 DEF OneMoreOf
<1> QED BY <1>2, <1>3

\* One token more, with the view that is counted.
LEMMA TokenCounts ==
    ASSUME CountInv, Entries(scoredWords), Offsets, ProcessToken
    PROVE  CountInv'
<1> DEFINE end == TokenEnd(in, Len(text))
           range == <<start, end>>
           view == ViewOf(range)
           n == Len(tokens)
           next == n + 1
<1>1. PICK S : tokens \in Seq(S)
    BY DEF CountInv, IsSequence
<1>2. /\ tokens' = Append(tokens, range) /\ UNCHANGED <<text, in, language>>
      /\ scoredWords' = IF Dropped(view) THEN scoredWords ELSE add(scoredWords, view)
    BY DEF ProcessToken, ViewOf, Dropped
<1>3. start \in Nat /\ end \in Int /\ end <= in
    BY DEF Offsets, TokenEnd
<1>4. /\ IsSequence(tokens') /\ n \in Nat /\ DOMAIN tokens = 1..n /\ DOMAIN tokens' = 1..(n + 1)
      /\ tokens'[n + 1] = range /\ \A j \in 1..n : tokens'[j] = tokens[j]
  <2>1. tokens \in Seq(S \cup {range})
      BY <1>1
  <2> HIDE DEF range
  <2>2. tokens' \in Seq(S \cup {range})
      BY <1>2, <2>1
  <2> QED BY <1>1, <1>2, <2>1, <2>2 DEF IsSequence
<1>5. range[1] = start /\ range[2] = end
    OBVIOUS
<1>6. \A r : ViewOf(r)' = ViewOf(r)
    BY <1>2, Zenon DEF ViewOf, StemmerCode
<1>7. \A v : Dropped(v)' <=> Dropped(v)
    BY <1>2 DEF Dropped, isStopword
<1> HIDE DEF end, range, view, n
<1>8. /\ DOMAIN tokens' = DOMAIN tokens \cup {next} /\ next \notin DOMAIN tokens
      /\ tokens'[next] = range /\ \A j \in DOMAIN tokens : tokens'[j] = tokens[j]
  <2>1. \A j : j \in 1..(n + 1) <=> j \in 1..n \/ j = n + 1
      BY <1>4
  <2>2. n + 1 \notin 1..n
      BY <1>4
  <2> QED BY <1>4, <2>1, <2>2
<1> HIDE DEF next
<1>9. \A v : Having(v)' = IF v = view THEN Having(v) \cup {next} ELSE Having(v)
  <2> SUFFICES ASSUME NEW v
               PROVE  Having(v)' = IF v = view THEN Having(v) \cup {next} ELSE Having(v)
      OBVIOUS
  <2>1. Having(v)' = {j \in DOMAIN tokens' : ViewOf(tokens'[j]) = v}
      BY <1>6 DEF Having
  <2>2. Having(v) = {j \in DOMAIN tokens : ViewOf(tokens[j]) = v}
      BY DEF Having
  <2> QED BY <1>8, <2>1, <2>2 DEF view
<1>10. \A v : IsFiniteSet(Having(v)) /\ next \notin Having(v)
  <2>1. IsFiniteSet(DOMAIN tokens)
      BY <1>4, FS_Interval
  <2>2. \A v : Having(v) \subseteq DOMAIN tokens
      BY DEF Having
  <2> QED BY <1>8, <2>1, <2>2, FS_Subset
<1>11. \A v : Cardinality(Having(v) \cup {next}) = Cardinality(Having(v)) + 1
    BY <1>10, FS_AddElement
<1>12. \A j \in DOMAIN tokens' : /\ tokens'[j][1] \in Nat
                                 /\ tokens'[j][2] \in Int /\ tokens'[j][2] <= in'
    BY <1>2, <1>3, <1>5, <1>8 DEF CountInv
<1>13. CASE Dropped(view)
  <2>1. scoredWords' = scoredWords
      BY <1>2, <1>13
  <2>2. \A i \in DOMAIN scoredWords : Having(scoredWords[i].view)' = Having(scoredWords[i].view)
    <3>1. \A i \in DOMAIN scoredWords : scoredWords[i].view # view
        BY <1>13 DEF CountInv
    <3> QED BY <1>9, <2>1, <3>1
  <2>3. \A i \in DOMAIN scoredWords' :
           /\ ~Dropped(scoredWords'[i].view)
           /\ scoredWords'[i].count = Cardinality(Having(scoredWords[i].view)')
      BY <2>1, <2>2 DEF CountInv
  <2>4. \A j \in DOMAIN tokens' :
           Dropped(ViewOf(tokens'[j]))
              \/ \E i \in DOMAIN scoredWords' : scoredWords'[i].view = ViewOf(tokens'[j])
      BY <1>8, <1>13, <2>1 DEF CountInv, view
  <2> QED BY <1>4, <1>6, <1>7, <1>12, <2>3, <2>4 DEF CountInv
<1>14. CASE ~Dropped(view)
  <2> DEFINE words == add(scoredWords, view)
  <2>1. scoredWords' = words
      BY <1>2, <1>14
  <2>2. NewEntry(scoredWords, words, view) \/ OneMoreOf(scoredWords, words, view)
      BY AddCounts
  <2> HIDE DEF words
  <2> DEFINE after(v) == IF v = view THEN Having(v) \cup {next} ELSE Having(v)
  <2>3. /\ \A i \in DOMAIN words : ~Dropped(words[i].view)
                                   /\ words[i].count = Cardinality(after(words[i].view))
        /\ \A i \in DOMAIN scoredWords : i \in DOMAIN words /\ words[i].view = scoredWords[i].view
        /\ \E i \in DOMAIN words : words[i].view = view
    <3>1. CASE NewEntry(scoredWords, words, view)
      <4>1. PICK k : /\ k \notin DOMAIN scoredWords /\ DOMAIN words = DOMAIN scoredWords \cup {k}
                     /\ words[k].view = view /\ words[k].count = 1
          BY <3>1 DEF NewEntry
      <4>2. Having(view) = {}
        <5> SUFFICES ASSUME NEW j \in DOMAIN tokens, ViewOf(tokens[j]) = view PROVE FALSE
            BY DEF Having
        <5>1. Dropped(view) \/ \E i \in DOMAIN scoredWords : scoredWords[i].view = view
            BY DEF CountInv
        <5> QED BY <1>14, <3>1, <5>1 DEF NewEntry
      <4>3. Cardinality(after(view)) = 1
        <5>1. after(view) = {next}
            BY <4>2
        <5> QED BY <5>1, FS_Singleton
      <4>4. ASSUME NEW i \in DOMAIN scoredWords
            PROVE  ~Dropped(words[i].view) /\ words[i].count = Cardinality(after(words[i].view))
        <5>1. after(scoredWords[i].view) = Having(scoredWords[i].view)
            BY <3>1 DEF NewEntry
        <5> HIDE DEF after
        <5> QED BY <3>1, <5>1 DEF CountInv, NewEntry
      <4> HIDE DEF after
      <4> QED BY <1>14, <3>1, <4>1, <4>3, <4>4 DEF NewEntry
    <3>2. CASE OneMoreOf(scoredWords, words, view)
      <4>1. ASSUME NEW i \in DOMAIN scoredWords
            PROVE  ~Dropped(words[i].view) /\ words[i].count = Cardinality(after(words[i].view))
        <5>1. /\ ~Dropped(scoredWords[i].view)
              /\ scoredWords[i].count = Cardinality(Having(scoredWords[i].view))
            BY DEF CountInv
        <5>2. CASE scoredWords[i].view = view
            BY <1>11, <3>2, <5>1, <5>2 DEF OneMoreOf
        <5>3. CASE scoredWords[i].view # view
            BY <3>2, <5>1, <5>3 DEF OneMoreOf
        <5> QED BY <5>2, <5>3
      <4> HIDE DEF after
      <4> QED BY <3>2, <4>1 DEF OneMoreOf
    <3> QED BY <2>2, <3>1, <3>2
  <2>4. \A v : Having(v)' = after(v)
      BY <1>9
  <2> HIDE DEF after
  <2>5. \A i \in DOMAIN scoredWords' :
           /\ ~Dropped(scoredWords'[i].view)
           /\ scoredWords'[i].count = Cardinality(Having(scoredWords[i].view)')
      BY <2>1, <2>3, <2>4
  <2>6. \A j \in DOMAIN tokens' :
           Dropped(ViewOf(tokens'[j]))
              \/ \E i \in DOMAIN scoredWords' : scoredWords'[i].view = ViewOf(tokens'[j])
      BY <1>8, <2>1, <2>3 DEF CountInv, view
  <2> QED BY <1>4, <1>6, <1>7, <1>12, <2>5, <2>6 DEF CountInv
<1> QED BY <1>13, <1>14

LEMMA CountInvariant == ASSUME StemIsLength PROVE Spec => []CountInv
<1>1. Init => CountInv
  <2> SUFFICES ASSUME Init PROVE CountInv
      OBVIOUS
  <2>1. tokens = << >> /\ scoredWords = << >> /\ DOMAIN << >> = {} /\ << >> \in Seq({})
      BY DEF Init
  <2> QED BY <2>1 DEF CountInv, IsSequence
<1>2. CountInv /\ WordsInv /\ Offsets /\ Offsets' /\ InPlaceInv /\ [Next]_vars => CountInv'
  <2> SUFFICES ASSUME CountInv, WordsInv, Offsets, Offsets', InPlaceInv, [Next]_vars
               PROVE  CountInv'
      OBVIOUS
  <2>0. in \in Int /\ in' \in Int
      BY DEF Offsets
  <2>1. CASE ReadPoint
    <3>1. UNCHANGED <<tokens, scoredWords, language>>
        BY <2>1 DEF ReadPoint
    <3>2. in <= in'
      <4> DEFINE width == Width(text[in + 1][1])
      <4>1. in' = in + width
          BY <2>1 DEF ReadPoint
      <4>2. width \in Nat
          BY DEF Width
      <4> HIDE DEF width
      <4> QED BY <2>0, <4>1, <4>2
    <3>3. ASSUME NEW j \in DOMAIN tokens
          PROVE  SubSeq(text', tokens[j][1] + 1, tokens[j][2])
                    = SubSeq(text, tokens[j][1] + 1, tokens[j][2])
      <4> DEFINE s == tokens[j][1]
                 e == tokens[j][2]
      <4>1. s \in Nat /\ e \in Int /\ e <= in
          BY DEF CountInv
      <4>2. \A i \in 1..in : text'[i] = text[i]
          BY <2>1, BehindThePointer
      <4> HIDE DEF s, e
      <4>3. CASE e <= s
        <5>1. SubSeq(text', s + 1, e) = << >> /\ SubSeq(text, s + 1, e) = << >>
            BY <4>1, <4>3
        <5> QED BY <5>1 DEF s, e
      <4>4. CASE s < e
        <5>1. /\ SubSeq(text', s + 1, e) = [i \in 1..(e - s) |-> text'[i + s]]
              /\ SubSeq(text, s + 1, e) = [i \in 1..(e - s) |-> text[i + s]]
            BY <4>1, <4>4
        <5>2. \A i \in 1..(e - s) : i + s \in 1..in
            BY <2>0, <4>1, <4>4
        <5>3. [i \in 1..(e - s) |-> text'[i + s]] = [i \in 1..(e - s) |-> text[i + s]]
            BY <4>2, <5>2
        <5> QED BY <5>1, <5>3, Zenon DEF s, e
      <4>5. e <= s \/ s < e
          BY <4>1
      <4> QED BY <4>3, <4>4, <4>5, Zenon
    <3> QED BY <2>0, <3>1, <3>2, <3>3, SameCounts
  <2>2. CASE ProcessToken
      BY <2>2, TokenCounts DEF WordsInv
  <2>3. CASE build \/ saveNewDocument \/ UNCHANGED vars
    <3>1. UNCHANGED <<tokens, scoredWords, language, text, in>>
        BY <2>3 DEF build, saveNewDocument, vars
    <3>2. \A j \in DOMAIN tokens : SubSeq(text', tokens[j][1] + 1, tokens[j][2])
                                      = SubSeq(text, tokens[j][1] + 1, tokens[j][2])
        BY <3>1, Zenon
    <3> QED BY <2>0, <3>1, <3>2, SameCounts
  <2> QED BY <2>1, <2>2, <2>3 DEF Next
<1> QED BY <1>1, <1>2, WordsInvariant, OffsetsInv, InPlaceInvariant, PTL DEF Spec

\* Whatever the text, the stopwords and the stemmer: every token that is not a stopword is
\* counted once, in the only entry of its view, and an entry counts no other token.  The ranges
\* of earlier tokens are never written again, so that their views are still what was counted.
THEOREM EveryTokenIsCounted == ASSUME StemIsLength PROVE Spec => []EveryTokenCounted
BY CountingChecks, CountInvariant, OneEntryPerView, PTL
=============================================================================
