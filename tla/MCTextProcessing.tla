--------------------------- MODULE MCTextProcessing ---------------------------
EXTENDS TextProcessing

\* Every code point below 592, and the first and last one of every block.
Surrogates == 55296..57343
Points ==
    (0..591 \cup {Blocks[i][1] : i \in DOMAIN Blocks}
            \cup {Blocks[i][1] + 1 : i \in 1..(Len(Blocks) - 1)}) \ Surrogates

\* A, a, e-acute, space, em dash.
Alphabet == {65, 97, 233, 32, 8212}
Terms == UNION {[1..n -> {115, 233}] : n \in 3..4}

MCTexts ==
    SeqOf(Alphabet, 5)
        \cup {<<cp, 97, cp, cp>> : cp \in Points}
        \cup {<<97, 97, 97, cp, 98>> : cp \in Points}
        \cup {a \o <<sep>> \o b : a \in Terms, b \in Terms, sep \in {32, 8212}}
        \cup {a \o <<32>> \o a \o <<0>> : a \in Terms}

\* A stemmer that takes the plural s of an English word.
MCStem(code, token) ==
    IF code = "en" /\ Len(token) > 3 /\ token[Len(token)] = <<115, 1>> THEN Len(token) - 1 ELSE Len(token)

MCStopwords == [EN |-> {Encode(97) \o Encode(97) \o Encode(97)}, FR |-> {}]
=============================================================================
