------------------------------- MODULE Unicode -------------------------------
(***************************************************************************)
(* libunicode: which block a code point belongs to, whether the tokenizer  *)
(* takes it for a letter, and its lower-case form.                         *)
(*                                                                         *)
(* getUnicodeBlock() is a binary decision tree over the code point.  Every *)
(* leaf covers one interval, and the leaves follow each other in the order *)
(* of the code points, so that the tree is a sequence of entries           *)
(* <<last code point, block>>, split as the branches of the tree are.  The *)
(* leaf of MEETEI_MAYEK is missing: the test above it is never false       *)
(* (UnicodeBlock.cpp:573-577), and the code points of that block get       *)
(* CHEROKEE_SUPPLEMENT.                                                    *)
(***************************************************************************)
EXTENDS Integers, Sequences

LatinToHangulBlocks == <<
    <<127, "BASIC_LATIN">>, <<255, "LATIN_1_SUPPLEMENT">>, <<383, "LATIN_EXTENDED_A">>, <<591, "LATIN_EXTENDED_B">>,
    <<687, "IPA_EXTENSIONS">>, <<767, "SPACING_MODIFIER_LETTERS">>, <<879, "COMBINING_DIACRITICAL_MARKS">>,
    <<1023, "GREEK_AND_COPTIC">>, <<1279, "CYRILLIC">>, <<1327, "CYRILLIC_SUPPLEMENT">>, <<1423, "ARMENIAN">>,
    <<1535, "HEBREW">>, <<1791, "ARABIC">>, <<1871, "SYRIAC">>, <<1919, "ARABIC_SUPPLEMENT">>, <<1983, "THAANA">>,
    <<2047, "NKO">>, <<2111, "SAMARITAN">>, <<2143, "MANDAIC">>, <<2303, "ARABIC_EXTENDED_A">>,
    <<2431, "DEVANAGARI">>, <<2559, "BENGALI">>, <<2687, "GURMUKHI">>, <<2815, "GUJARATI">>, <<2943, "ORIYA">>,
    <<3071, "TAMIL">>, <<3199, "TELUGU">>, <<3327, "KANNADA">>, <<3455, "MALAYALAM">>, <<3583, "SINHALA">>,
    <<3711, "THAI">>, <<3839, "LAO">>, <<4095, "TIBETAN">>, <<4255, "MYANMAR">>, <<4351, "GEORGIAN">>,
    <<4607, "HANGUL_JAMO">> >>

EthiopicToGreekBlocks == <<
    <<4991, "ETHIOPIC">>, <<5023, "ETHIOPIC_SUPPLEMENT">>, <<5119, "CHEROKEE">>,
    <<5759, "UNIFIED_CANADIAN_ABORIGINAL_SYLLABICS">>, <<5791, "OGHAM">>, <<5887, "RUNIC">>, <<5919, "TAGALOG">>,
    <<5951, "HANUNOO">>, <<5983, "BUHID">>, <<6015, "TAGBANWA">>, <<6143, "KHMER">>, <<6319, "MONGOLIAN">>,
    <<6399, "UNIFIED_CANADIAN_ABORIGINAL_SYLLABICS_EXTENDED">>, <<6479, "LIMBU">>, <<6527, "TAI_LE">>,
    <<6623, "NEW_TAI_LUE">>, <<6655, "KHMER_SYMBOLS">>, <<6687, "BUGINESE">>, <<6831, "TAI_THAM">>,
    <<6911, "COMBINING_DIACRITICAL_MARKS_EXTENDED">>, <<7039, "BALINESE">>, <<7103, "SUNDANESE">>,
    <<7167, "BATAK">>, <<7247, "LEPCHA">>, <<7295, "OL_CHIKI">>, <<7375, "SUNDANESE_SUPPLEMENT">>,
    <<7423, "VEDIC_EXTENSIONS">>, <<7551, "PHONETIC_EXTENSIONS">>, <<7615, "PHONETIC_EXTENSIONS_SUPPLEMENT">>,
    <<7679, "COMBINING_DIACRITICAL_MARKS_SUPPLEMENT">>, <<7935, "LATIN_EXTENDED_ADDITIONAL">>,
    <<8191, "GREEK_EXTENDED">> >>

SymbolBlocks == <<
    <<8303, "GENERAL_PUNCTUATION">>, <<8351, "SUPERSCRIPTS_AND_SUBSCRIPTS">>, <<8399, "CURRENCY_SYMBOLS">>,
    <<8447, "COMBINING_DIACRITICAL_MARKS_FOR_SYMBOLS">>, <<8527, "LETTERLIKE_SYMBOLS">>, <<8591, "NUMBER_FORMS">>,
    <<8703, "ARROWS">>, <<8959, "MATHEMATICAL_OPERATORS">>, <<9215, "MISCELLANEOUS_TECHNICAL">>,
    <<9279, "CONTROL_PICTURES">>, <<9311, "OPTICAL_CHARACTER_RECOGNITION">>, <<9471, "ENCLOSED_ALPHANUMERICS">>,
    <<9599, "BOX_DRAWING">>, <<9631, "BLOCK_ELEMENTS">>, <<9727, "GEOMETRIC_SHAPES">>,
    <<9983, "MISCELLANEOUS_SYMBOLS">>, <<10175, "DINGBATS">>, <<10223, "MISCELLANEOUS_MATHEMATICAL_SYMBOLS_A">>,
    <<10239, "SUPPLEMENTAL_ARROWS_A">>, <<10495, "BRAILLE_PATTERNS">>, <<10623, "SUPPLEMENTAL_ARROWS_B">>,
    <<10751, "MISCELLANEOUS_MATHEMATICAL_SYMBOLS_B">>, <<11007, "SUPPLEMENTAL_MATHEMATICAL_OPERATORS">>,
    <<11263, "MISCELLANEOUS_SYMBOLS_AND_ARROWS">>, <<11359, "GLAGOLITIC">>, <<11391, "LATIN_EXTENDED_C">>,
    <<11519, "COPTIC">>, <<11567, "GEORGIAN_SUPPLEMENT">>, <<11647, "TIFINAGH">>, <<11743, "ETHIOPIC_EXTENDED">>,
    <<11775, "CYRILLIC_EXTENDED_A">>, <<11903, "SUPPLEMENTAL_PUNCTUATION">> >>

EastAsianBlocks == <<
    <<12031, "CJK_RADICALS_SUPPLEMENT">>, <<12271, "KANGXI_RADICALS">>,
    <<12287, "IDEOGRAPHIC_DESCRIPTION_CHARACTERS">>, <<12351, "CJK_SYMBOLS_AND_PUNCTUATION">>,
    <<12447, "HIRAGANA">>, <<12543, "KATAKANA">>, <<12591, "BOPOMOFO">>, <<12687, "HANGUL_COMPATIBILITY_JAMO">>,
    <<12703, "KANBUN">>, <<12735, "BOPOMOFO_EXTENDED">>, <<12783, "CJK_STROKES">>,
    <<12799, "KATAKANA_PHONETIC_EXTENSIONS">>, <<13055, "ENCLOSED_CJK_LETTERS_AND_MONTHS">>,
    <<13311, "CJK_COMPATIBILITY">>, <<19903, "CJK_UNIFIED_IDEOGRAPHS_EXTENSION_A">>,
    <<19967, "YIJING_HEXAGRAM_SYMBOLS">>, <<40959, "CJK_UNIFIED_IDEOGRAPHS">>, <<42127, "YI_SYLLABLES">>,
    <<42191, "YI_RADICALS">>, <<42239, "LISU">>, <<42559, "VAI">>, <<42655, "CYRILLIC_EXTENDED_B">>,
    <<42751, "BAMUM">>, <<42783, "MODIFIER_TONE_LETTERS">>, <<43007, "LATIN_EXTENDED_D">>,
    <<43055, "SYLOTI_NAGRI">>, <<43071, "COMMON_INDIC_NUMBER_FORMS">>, <<43135, "PHAGS_PA">>,
    <<43231, "SAURASHTRA">>, <<43263, "DEVANAGARI_EXTENDED">>, <<43311, "KAYAH_LI">>, <<43359, "REJANG">>,
    <<43391, "HANGUL_JAMO_EXTENDED_A">> >>

JavaneseToSymbolBlocks == <<
    <<43487, "JAVANESE">>, <<43519, "MYANMAR_EXTENDED_B">>, <<43615, "CHAM">>, <<43647, "MYANMAR_EXTENDED_A">>,
    <<43743, "TAI_VIET">>, <<43775, "MEETEI_MAYEK_EXTENSIONS">>, <<43823, "ETHIOPIC_EXTENDED_A">>,
    <<43887, "LATIN_EXTENDED_E">>, <<44031, "CHEROKEE_SUPPLEMENT">>, <<55215, "HANGUL_SYLLABLES">>,
    <<55295, "HANGUL_JAMO_EXTENDED_B">>, <<56191, "HIGH_SURROGATES">>, <<56319, "HIGH_PRIVATE_USE_SURROGATES">>,
    <<57343, "LOW_SURROGATES">>, <<63743, "PRIVATE_USE_AREA">>, <<64255, "CJK_COMPATIBILITY_IDEOGRAPHS">>,
    <<64335, "ALPHABETIC_PRESENTATION_FORMS">>, <<65023, "ARABIC_PRESENTATION_FORMS_A">>,
    <<65039, "VARIATION_SELECTORS">>, <<65055, "VERTICAL_FORMS">>, <<65071, "COMBINING_HALF_MARKS">>,
    <<65103, "CJK_COMPATIBILITY_FORMS">>, <<65135, "SMALL_FORM_VARIANTS">>,
    <<65279, "ARABIC_PRESENTATION_FORMS_B">>, <<65519, "HALFWIDTH_AND_FULLWIDTH_FORMS">>, <<65535, "SPECIALS">>,
    <<65663, "LINEAR_B_SYLLABARY">>, <<65791, "LINEAR_B_IDEOGRAMS">>, <<65855, "AEGEAN_NUMBERS">>,
    <<65935, "ANCIENT_GREEK_NUMBERS">>, <<65999, "ANCIENT_SYMBOLS">> >>

AncientBlocks == <<
    <<66047, "PHAISTOS_DISC">>, <<66207, "LYCIAN">>, <<66271, "CARIAN">>, <<66303, "COPTIC_EPACT_NUMBERS">>,
    <<66351, "OLD_ITALIC">>, <<66383, "GOTHIC">>, <<66431, "OLD_PERMIC">>, <<66463, "UGARITIC">>,
    <<66527, "OLD_PERSIAN">>, <<66639, "DESERET">>, <<66687, "SHAVIAN">>, <<66815, "OSMANYA">>,
    <<66863, "ELBASAN">>, <<67071, "CAUCASIAN_ALBANIAN">>, <<67455, "LINEAR_A">>, <<67647, "CYPRIOT_SYLLABARY">>,
    <<67679, "IMPERIAL_ARAMAIC">>, <<67711, "PALMYRENE">>, <<67759, "NABATAEAN">>, <<67839, "HATRAN">>,
    <<67871, "PHOENICIAN">>, <<67967, "LYDIAN">>, <<67999, "MEROITIC_HIEROGLYPHS">>, <<68095, "MEROITIC_CURSIVE">>,
    <<68191, "KHAROSHTHI">>, <<68223, "OLD_SOUTH_ARABIAN">>, <<68255, "OLD_NORTH_ARABIAN">>,
    <<68351, "MANICHAEAN">>, <<68415, "AVESTAN">>, <<68447, "INSCRIPTIONAL_PARTHIAN">>,
    <<68479, "INSCRIPTIONAL_PAHLAVI">>, <<68607, "PSALTER_PAHLAVI">> >>

IndicToKanaBlocks == <<
    <<68687, "OLD_TURKIC">>, <<69215, "OLD_HUNGARIAN">>, <<69247, "RUMI_NUMERAL_SYMBOLS">>, <<69759, "BRAHMI">>,
    <<69839, "KAITHI">>, <<69887, "SORA_SOMPENG">>, <<69967, "CHAKMA">>, <<70015, "MAHAJANI">>,
    <<70111, "SHARADA">>, <<70143, "SINHALA_ARCHAIC_NUMBERS">>, <<70223, "KHOJKI">>, <<70319, "MULTANI">>,
    <<70399, "KHUDAWADI">>, <<70783, "GRANTHA">>, <<70879, "TIRHUTA">>, <<71167, "SIDDHAM">>, <<71263, "MODI">>,
    <<71423, "TAKRI">>, <<71487, "AHOM">>, <<72383, "WARANG_CITI">>, <<72447, "PAU_CIN_HAU">>,
    <<74751, "CUNEIFORM">>, <<74879, "CUNEIFORM_NUMBERS_AND_PUNCTUATION">>, <<77823, "EARLY_DYNASTIC_CUNEIFORM">>,
    <<78895, "EGYPTIAN_HIEROGLYPHS">>, <<92159, "ANATOLIAN_HIEROGLYPHS">>, <<92735, "BAMUM_SUPPLEMENT">>,
    <<92879, "MRO">>, <<92927, "BASSA_VAH">>, <<93951, "PAHAWH_HMONG">>, <<94111, "MIAO">>,
    <<113663, "KANA_SUPPLEMENT">> >>

SupplementaryBlocks == <<
    <<113823, "DUPLOYAN">>, <<118783, "SHORTHAND_FORMAT_CONTROLS">>, <<119039, "BYZANTINE_MUSICAL_SYMBOLS">>,
    <<119295, "MUSICAL_SYMBOLS">>, <<119375, "ANCIENT_GREEK_MUSICAL_NOTATION">>,
    <<119647, "TAI_XUAN_JING_SYMBOLS">>, <<119679, "COUNTING_ROD_NUMERALS">>,
    <<120831, "MATHEMATICAL_ALPHANUMERIC_SYMBOLS">>, <<121519, "SUTTON_SIGNWRITING">>, <<126463, "MENDE_KIKAKUI">>,
    <<126719, "ARABIC_MATHEMATICAL_ALPHABETIC_SYMBOLS">>, <<127023, "MAHJONG_TILES">>, <<127135, "DOMINO_TILES">>,
    <<127231, "PLAYING_CARDS">>, <<127487, "ENCLOSED_ALPHANUMERIC_SUPPLEMENT">>,
    <<127743, "ENCLOSED_IDEOGRAPHIC_SUPPLEMENT">>, <<128511, "MISCELLANEOUS_SYMBOLS_AND_PICTOGRAPHS">>,
    <<128591, "EMOTICONS">>, <<128639, "ORNAMENTAL_DINGBATS">>, <<128767, "TRANSPORT_AND_MAP_SYMBOLS">>,
    <<128895, "ALCHEMICAL_SYMBOLS">>, <<129023, "GEOMETRIC_SHAPES_EXTENDED">>, <<129279, "SUPPLEMENTAL_ARROWS_C">>,
    <<131071, "SUPPLEMENTAL_SYMBOLS_AND_PICTOGRAPHS">>, <<173791, "CJK_UNIFIED_IDEOGRAPHS_EXTENSION_B">>,
    <<177983, "CJK_UNIFIED_IDEOGRAPHS_EXTENSION_C">>, <<178207, "CJK_UNIFIED_IDEOGRAPHS_EXTENSION_D">>,
    <<194559, "CJK_UNIFIED_IDEOGRAPHS_EXTENSION_E">>, <<195103, "CJK_COMPATIBILITY_IDEOGRAPHS_SUPPLEMENT">>,
    <<917759, "TAGS">>, <<917999, "VARIATION_SELECTORS_SUPPLEMENT">>,
    <<1048575, "SUPPLEMENTARY_PRIVATE_USE_AREA_A">>, <<1114111, "SUPPLEMENTARY_PRIVATE_USE_AREA_B">> >>

Blocks == LatinToHangulBlocks \o EthiopicToGreekBlocks \o SymbolBlocks \o EastAsianBlocks
            \o JavaneseToSymbolBlocks \o AncientBlocks \o IndicToKanaBlocks \o SupplementaryBlocks

\* The enumerators of UnicodeBlock.
UnicodeBlock == {Blocks[i][2] : i \in DOMAIN Blocks} \cup {"MEETEI_MAYEK", "UNKNOWN"}

getUnicodeBlock(cp) ==
    Blocks[CHOOSE i \in DOMAIN Blocks : cp <= Blocks[i][1] /\ (i > 1 => Blocks[i - 1][1] < cp)][2]

-----------------------------------------------------------------------------
\* Lower case, for three blocks.

normalizeBasicLatinCodePoint(cp) == IF cp \in 65..90 THEN cp + 32 ELSE cp

normalizeLatin1SupplementCodePoint(cp) ==
    IF cp \in 192..214 \cup 216..221 THEN cp + 32 ELSE cp

\* A plausible error: U+0130 is turned into the i of ASCII, which is one byte shorter.
NormalizeDottedI(cp) ==
    IF cp = 304 THEN 105 ELSE IF cp < 311 /\ cp % 2 = 0 THEN cp + 1 ELSE cp

normalizeLatinExtendedACodePoint(cp) == IF cp < 311 /\ cp % 2 = 0 THEN cp + 1 ELSE cp

normalizeCodePoint(cp, block) ==
    CASE block = "BASIC_LATIN" -> normalizeBasicLatinCodePoint(cp)
      [] block = "LATIN_1_SUPPLEMENT" -> normalizeLatin1SupplementCodePoint(cp)
      [] block = "LATIN_EXTENDED_A" -> normalizeLatinExtendedACodePoint(cp)
      [] OTHER -> cp

-----------------------------------------------------------------------------
\* Letters.

isBasicLatinLetter(cp) == cp \in 65..90 \cup 97..122

isLatin1SupplementLetter(cp) == cp > 191 /\ cp \notin {215, 247}

NoLetterBlocks ==
    {"GENERAL_PUNCTUATION", "ARROWS", "BLOCK_ELEMENTS", "BOX_DRAWING", "BRAILLE_PATTERNS",
     "COMBINING_DIACRITICAL_MARKS", "COMBINING_DIACRITICAL_MARKS_EXTENDED", "CONTROL_PICTURES",
     "DINGBATS", "DOMINO_TILES", "EMOTICONS", "ENCLOSED_ALPHANUMERICS", "GEOMETRIC_SHAPES",
     "IPA_EXTENSIONS", "MATHEMATICAL_OPERATORS", "MISCELLANEOUS_MATHEMATICAL_SYMBOLS_A",
     "MISCELLANEOUS_MATHEMATICAL_SYMBOLS_B", "MISCELLANEOUS_SYMBOLS",
     "MISCELLANEOUS_SYMBOLS_AND_ARROWS", "MISCELLANEOUS_TECHNICAL", "MUSICAL_SYMBOLS",
     "NUMBER_FORMS", "SPACING_MODIFIER_LETTERS", "SUPERSCRIPTS_AND_SUBSCRIPTS",
     "SUPPLEMENTAL_MATHEMATICAL_OPERATORS", "SUPPLEMENTAL_PUNCTUATION"}

isLetterPoint(cp, block) ==
    CASE block = "BASIC_LATIN" -> isBasicLatinLetter(cp)
      [] block = "LATIN_1_SUPPLEMENT" -> isLatin1SupplementLetter(cp)
      [] OTHER -> block \notin NoLetterBlocks

=============================================================================
