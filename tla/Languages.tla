----------------------------- MODULE Languages -----------------------------
(***************************************************************************)
(* The tables of languages: the full names a request may use               *)
(* (lib/language.go), those Hy-MT2 translates between, and the codes that  *)
(* TranslateGemma's template takes for those it knows.                     *)
(***************************************************************************)
NoLanguage == ""        \* the field was left out

SupportedLanguages == {
    "Chinese", "English", "French", "Portuguese", "Spanish", "Japanese",
    "Turkish", "Russian", "Arabic", "Korean", "Thai", "Italian", "German",
    "Vietnamese", "Malay", "Indonesian", "Filipino", "Hindi",
    "Traditional Chinese", "Polish", "Czech", "Dutch", "Khmer", "Burmese",
    "Persian", "Gujarati", "Urdu", "Telugu", "Marathi", "Hebrew", "Bengali",
    "Tamil", "Ukrainian", "Tibetan", "Kazakh", "Mongolian", "Uyghur",
    "Cantonese", "Swedish", "Norwegian", "Danish", "Finnish", "Icelandic",
    "Slovak", "Hungarian", "Romanian", "Bulgarian", "Croatian", "Serbian",
    "Bosnian", "Slovenian", "Greek", "Punjabi", "Kannada", "Malayalam",
    "Sinhala", "Nepali", "Swahili", "Amharic", "Yoruba", "Hausa"}

HymtLanguages == {
    "Chinese", "English", "French", "Portuguese", "Spanish", "Japanese",
    "Turkish", "Russian", "Arabic", "Korean", "Thai", "Italian", "German",
    "Vietnamese", "Malay", "Indonesian", "Filipino", "Hindi",
    "Traditional Chinese", "Polish", "Czech", "Dutch", "Khmer", "Burmese",
    "Persian", "Gujarati", "Urdu", "Telugu", "Marathi", "Hebrew", "Bengali",
    "Tamil", "Ukrainian", "Tibetan", "Kazakh", "Mongolian", "Uyghur",
    "Cantonese"}

\* Language and code.
GemmaTable == {
    <<"English", "en">>, <<"Spanish", "es">>, <<"French", "fr">>,
    <<"German", "de">>, <<"Italian", "it">>, <<"Portuguese", "pt">>,
    <<"Dutch", "nl">>, <<"Swedish", "sv">>, <<"Norwegian", "no">>,
    <<"Danish", "da">>, <<"Finnish", "fi">>, <<"Icelandic", "is">>,
    <<"Russian", "ru">>, <<"Ukrainian", "uk">>, <<"Polish", "pl">>,
    <<"Czech", "cs">>, <<"Slovak", "sk">>, <<"Hungarian", "hu">>,
    <<"Romanian", "ro">>, <<"Bulgarian", "bg">>, <<"Croatian", "hr">>,
    <<"Serbian", "sr">>, <<"Bosnian", "bs">>, <<"Slovenian", "sl">>,
    <<"Greek", "el">>, <<"Turkish", "tr">>, <<"Arabic", "ar">>,
    <<"Hebrew", "he">>, <<"Persian", "fa">>, <<"Hindi", "hi">>,
    <<"Urdu", "ur">>, <<"Bengali", "bn">>, <<"Punjabi", "pa">>,
    <<"Gujarati", "gu">>, <<"Marathi", "mr">>, <<"Tamil", "ta">>,
    <<"Telugu", "te">>, <<"Kannada", "kn">>, <<"Malayalam", "ml">>,
    <<"Sinhala", "si">>, <<"Nepali", "ne">>, <<"Indonesian", "id">>,
    <<"Malay", "ms">>, <<"Filipino", "tl">>, <<"Thai", "th">>,
    <<"Vietnamese", "vi">>, <<"Khmer", "km">>, <<"Chinese", "zh">>,
    <<"Traditional Chinese", "zh-TW">>, <<"Japanese", "ja">>,
    <<"Korean", "ko">>, <<"Swahili", "sw">>, <<"Amharic", "am">>,
    <<"Yoruba", "yo">>, <<"Hausa", "ha">>}

GemmaLanguages == {entry[1] : entry \in GemmaTable}

LanguageCode(language) == (CHOOSE entry \in GemmaTable : entry[1] = language)[2]

Valid(language) == language \in SupportedLanguages
=============================================================================
