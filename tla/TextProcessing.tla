---------------------------- MODULE TextProcessing ----------------------------
(***************************************************************************)
(* How the text of a document becomes the words and scores that are stored *)
(* for it: DestructiveTokenIterator, which lower-cases the text in place   *)
(* while it cuts it into tokens, DocumentProcessor::process_, which stems  *)
(* each token, drops stopwords and counts the rest in a WordAccumulator,   *)
(* and the binary and JSON forms of the result.                            *)
(*                                                                         *)
(* A text is a sequence of code points; the buffer of its std::string is a *)
(* sequence of bytes <<cp, k>>, the k-th byte of the encoding of cp.  The  *)
(* iterator reads and writes that buffer through two pointers of its own,  *)
(* and hands out byte offsets.  A score is the count of a word: all counts *)
(* of a document are divided by the same total.                            *)
(***************************************************************************)
EXTENDS Unicode, SequencesExt

CONSTANTS
    Texts,          \* the texts of documents, as sequences of code points
    Languages,      \* thrift_protocol::Language
    Stem(_, _),     \* the length that a stemmer of libstemmer leaves of a token
    Stopwords,      \* the table of each language
    Capacity        \* sizeof(ScoredWord::word): 24 in the code

ASSUME CapacityAssumption == Capacity \in Nat /\ Capacity > 2
ASSUME TextsAssumption == Texts \subseteq Seq(Nat)

VARIABLES
    original,       \* the text as the client sent it
    language,       \* Document::language
    text,           \* the buffer of Document::text
    in, out,        \* inputIter_ and outputIter_, as offsets
    size,           \* currentSize
    start,          \* currentStartPointer
    tokens,         \* the ranges handed out so far, <<start, end>>
    scoredWords,    \* WordAccumulator: the words in order of their first use
    document,       \* the ProcessedDocument; << >> before build()
    stored,         \* its binary form in the store
    pc

vars == <<original, language, text, in, out, size, start, tokens, scoredWords,
          document, stored, pc>>

-----------------------------------------------------------------------------
\* utf8::next and utf8::append.

Width(cp) == IF cp < 128 THEN 1 ELSE IF cp < 2048 THEN 2 ELSE IF cp < 65536 THEN 3 ELSE 4

Encode(cp) == [k \in 1..Width(cp) |-> <<cp, k>>]

EncodeAll(points) == FlattenSeq([i \in DOMAIN points |-> Encode(points[i])])

Overwrite(buffer, offset, bytes) ==
    [i \in 1..Max({Len(buffer), offset + Len(bytes)}) |->
        IF i \in offset + 1 .. offset + Len(bytes) THEN bytes[i - offset] ELSE buffer[i]]

-----------------------------------------------------------------------------
Init ==
    /\ original \in Texts
    /\ language \in Languages
    /\ text = EncodeAll(original)
    /\ in = 0 /\ out = 0
    /\ size = 0 /\ start = 0
    /\ tokens = << >>
    /\ scoredWords = << >>
    /\ document = << >> /\ stored = << >>
    /\ pc = IF original = << >> THEN "build" ELSE "read"

\* One round of the loop of next().  A separator ends a token of more than two
\* letters; after fewer it moves the start of the token behind itself.
ReadPoint ==
    LET cp == text[in + 1][1]
        block == getUnicodeBlock(cp)
        point == normalizeCodePoint(cp, block)
        letter == isLetterPoint(point, block)
        next == in + Width(cp)
    IN  /\ pc = "read"
        /\ in' = next
        /\ out' = out + Width(point)
        /\ text' = Overwrite(text, out, Encode(point))
        /\ size' = IF letter THEN size + 1 ELSE IF size > 2 THEN size ELSE 0
        /\ start' = IF letter \/ size > 2 THEN start ELSE next
        /\ pc' = IF size' > 2 /\ (~letter \/ next = Len(text)) THEN "token"
                 ELSE IF next = Len(text) THEN "build"
                 ELSE "read"
        /\ UNCHANGED <<original, language, tokens, scoredWords, document, stored>>

\* A plausible error: the separator is kept in every token.
KeepSeparator(next, length) == next

\* The end of a token: the byte before the next one, or the end of the text.
TokenEnd(next, length) == IF next = length THEN next ELSE next - 1

\* The NUL of C strings, which is also the only byte of U+0000.
Nul == <<0, 1>>

\* strncpy: the bytes before the first NUL, and no more than n.
strncpy(bytes, n) ==
    SubSeq(bytes, 1, Max({k \in 0..Min({Len(bytes), n}) : \A i \in 1..k : bytes[i] # Nul}))

\* ScoredWord::assignWord: a word is cut at Capacity - 2 bytes and at a NUL, its size is not.
assignWord(bytes) ==
    [word |-> strncpy(bytes, Capacity - 2), size |-> Min({Len(bytes), Capacity - 1})]

countryCodeOfThriftLanguage ==
    [DE |-> "de", EN |-> "en", ES |-> "es", FR |-> "fr", IT |-> "it", RU |-> "ru"]
        @@ ("OTHER" :> "OTHER")

\* The test of Utf8Stemmer is the wrong way round: strcmp() is zero for equal strings, so
\* that every language it knows is stemmed as English.
StemmerCode ==
    LET code == countryCodeOfThriftLanguage[language]
    IN  IF code # "UNKNOWN" THEN "en" ELSE code

isStopword(word) ==
    \/ Len(word) <= 2
    \/ word \in Stopwords[IF language = "OTHER" THEN "EN" ELSE language]

\* The entries of WordAccumulator with this view.  A lookup compares the hashes of the whole
\* views and then all but their last bytes, which together is equality of the views; a view
\* may be one byte longer than the word that is stored for it.
Counted(words, view) == {i \in DOMAIN words : words[i].view = view}

\* ScoredWord and the index of a word that is new.
scored(view) ==
    [view |-> view, word |-> assignWord(view).word, size |-> assignWord(view).size, count |-> 1]

\* A plausible error: the index of a word that is there already is not used.
AddAgain(words, view) == Append(words, scored(view))

add(words, view) ==
    IF Counted(words, view) = {}
    THEN Append(words, scored(view))
    ELSE [i \in DOMAIN words |->
             IF i \in Counted(words, view) THEN [words[i] EXCEPT !.count = @ + 1] ELSE words[i]]

\* The end of next() and the body of the loop of process_().
ProcessToken ==
    LET end == TokenEnd(in, Len(text))
        token == SubSeq(text, start + 1, end)
        view == SubSeq(token, 1, Min({Stem(StemmerCode, token), Capacity - 1}))
    IN  /\ pc = "token"
        /\ tokens' = Append(tokens, <<start, end>>)
        /\ scoredWords' = IF isStopword(assignWord(view).word) THEN scoredWords
                          ELSE add(scoredWords, view)
        /\ size' = 0 /\ start' = in
        /\ pc' = IF in = Len(text) THEN "build" ELSE "read"
        /\ UNCHANGED <<original, language, text, in, out, document, stored>>

\* WordAccumulator::build, and the hash that DocumentProcessingWorker::processNew takes of
\* the text, which is the lower-case one by now.
build ==
    /\ pc = "build"
    /\ document' = [words |-> [i \in DOMAIN scoredWords |->
                        [word |-> scoredWords[i].word, size |-> scoredWords[i].size,
                         score |-> scoredWords[i].count]],
                    hash |-> text]
    /\ pc' = "save"
    /\ UNCHANGED <<original, language, text, in, out, size, start, tokens, scoredWords, stored>>

\* BinarySerializer: the words up to their NUL, without their sizes.
serialize(doc) ==
    [words |-> [i \in DOMAIN doc.words |->
                   [wordBuff |-> doc.words[i].word, score |-> doc.words[i].score]],
     hash |-> doc.hash]

\* The constructor of ScoredWord.
ScoredWord(bytes, n) ==
    [word |-> assignWord(bytes).word, size |-> assignWord(bytes).size, score |-> n]

\* A plausible error: the last byte of a word is taken for its terminating NUL.
DeserializeShort(dto) ==
    [words |-> [i \in DOMAIN dto.words |->
                   LET buff == dto.words[i].wordBuff
                   IN  ScoredWord(SubSeq(buff, 1, Len(buff) - 1), dto.words[i].score)],
     hash |-> dto.hash]

deserialize(dto) ==
    [words |-> [i \in DOMAIN dto.words |-> ScoredWord(dto.words[i].wordBuff, dto.words[i].score)],
     hash |-> dto.hash]

saveNewDocument ==
    /\ pc = "save"
    /\ stored' = serialize(document)
    /\ pc' = "saved"
    /\ UNCHANGED <<original, language, text, in, out, size, start, tokens, scoredWords, document>>

\* getDocument() answers with a JSON object; map::insert keeps the first score of a word.
jsonScores(doc) ==
    [w \in {doc.words[i].word : i \in DOMAIN doc.words} |->
        doc.words[CHOOSE i \in DOMAIN doc.words :
                     /\ doc.words[i].word = w
                     /\ \A j \in 1..(i - 1) : doc.words[j].word # w].score]

\* debugGetFullProcessedDocument() assigns scores[k], which keeps the last.
dtoScores(doc) ==
    [w \in {doc.words[i].word : i \in DOMAIN doc.words} |->
        doc.words[CHOOSE i \in DOMAIN doc.words :
                     /\ doc.words[i].word = w
                     /\ \A j \in (i + 1)..Len(doc.words) : doc.words[j].word # w].score]

Next == ReadPoint \/ ProcessToken \/ build \/ saveNewDocument

Spec == Init /\ [][Next]_vars

-----------------------------------------------------------------------------
\* The code points of the original text whose bytes lie before the input pointer.
PointsRead == CHOOSE n \in 0..Len(original) : Len(EncodeAll(SubSeq(original, 1, n))) = in

\* The iterator writes behind its own back: at every moment the buffer holds the
\* normalised text up to the input pointer and the original one from there on.  Otherwise
\* the offsets, which are those of the input, would not be those of the lower-case words,
\* and views of earlier tokens would change under the accumulator.
WrittenInPlace ==
    text = EncodeAll([i \in DOMAIN original |->
              IF i <= PointsRead
              THEN normalizeCodePoint(original[i], getUnicodeBlock(original[i]))
              ELSE original[i]])

\* The maximal runs <<first, last>> of more than two letters in a text.
LetterAt(points, i) == isLetterPoint(points[i], getUnicodeBlock(points[i]))
Words(points) ==
    {r \in (DOMAIN points) \X (DOMAIN points) :
        /\ r[2] - r[1] >= 2
        /\ \A i \in r[1]..r[2] : LetterAt(points, i)
        /\ r[1] > 1 => ~LetterAt(points, r[1] - 1)
        /\ r[2] < Len(points) => ~LetterAt(points, r[2] + 1)}

\* The bytes that the code leaves behind a word: of the separator all but the last byte,
\* and the whole separator when it is the last code point of the text.
Rest(points, i) ==
    IF i = Len(points) THEN 0
    ELSE IF i + 1 = Len(points) THEN Width(points[i + 1])
    ELSE Width(points[i + 1]) - 1

\* next() hands out the maximal runs of more than two letters of the text, each once and in
\* order, from their first byte to their last and Rest; upper and lower case do not matter.
TokensAreWords ==
    pc \in {"build", "save", "saved"} =>
        LET offset(i) == Len(EncodeAll(SubSeq(original, 1, i)))
        IN  /\ ToSet(tokens) = {<<offset(r[1] - 1), offset(r[2]) + Rest(original, r[2])>> :
                                   r \in Words(original)}
            /\ \A i, j \in DOMAIN tokens : i < j => tokens[i][1] < tokens[j][1]

\* Two entries of a document have different views; they share their stored word only if one
\* was cut, at its last byte or at a NUL, and only then do the answers of getDocument() and of
\* debugGetFullProcessedDocument() differ.
EntriesDiffer ==
    /\ \A i, j \in DOMAIN scoredWords :
          /\ i # j => scoredWords[i].view # scoredWords[j].view
          /\ i # j /\ scoredWords[i].word = scoredWords[j].word =>
                \E w \in {scoredWords[i], scoredWords[j]} : Len(w.word) < w.size
    /\ (document # << >> /\ jsonScores(document) # dtoScores(document)) =>
           \E i, j \in DOMAIN scoredWords :
              i # j /\ scoredWords[i].word = scoredWords[j].word

\* The view of a range that was handed out, as the buffer is now.
ViewOf(range) ==
    LET token == SubSeq(text, range[1] + 1, range[2])
    IN  SubSeq(token, 1, Min({Stem(StemmerCode, token), Capacity - 1}))

\* Every token that is not a stopword is counted once, in the one entry of its own view, and no
\* other token is counted there, although the views lie in a buffer that is written on.
EveryTokenCounted ==
    /\ \A i \in DOMAIN scoredWords :
          scoredWords[i].count
             = Cardinality({j \in DOMAIN tokens : ViewOf(tokens[j]) = scoredWords[i].view})
    /\ \A j \in DOMAIN tokens :
          ~isStopword(assignWord(ViewOf(tokens[j])).word)
             <=> \E i \in DOMAIN scoredWords : scoredWords[i].view = ViewOf(tokens[j])
    /\ EntriesDiffer

\* A document that is loaded again has the words and scores it was saved with; only the
\* size of a word that was cut is now that of what is left of it.
SavedDocumentReloads ==
    stored # << >> =>
        LET loaded == deserialize(stored)
        IN  /\ loaded.hash = document.hash
            /\ DOMAIN loaded.words = DOMAIN document.words
            /\ \A i \in DOMAIN loaded.words :
                  /\ loaded.words[i].word = document.words[i].word
                  /\ loaded.words[i].score = document.words[i].score
                  /\ loaded.words[i].size = Len(document.words[i].word)
=============================================================================
