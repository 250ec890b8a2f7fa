------------------------------ MODULE MCTexts ------------------------------
(* Texts as a terminal writes them, lines and paragraphs, sentences, and    *)
(* words of two scripts; JSON values with brackets, blanks, escaped quotes  *)
(* and escaped backslashes within their strings.                            *)
EXTENDS Texts

MCAlphabet ==
  [terminal   |-> {"esc", "[", "]", "0", "sp", "m", "bel", "bs"},
   paragraphs |-> {"a", "sp", "nl", "cr", "zw"},
   sentences  |-> {"A", "e", ".", "sp", "nl", "-"},
   scripts    |-> {"a", "han", "sp", ",", "wj"}]

MCMaxText == [terminal |-> 5, paragraphs |-> 5, sentences |-> 6, scripts |-> 6]

MCAbbreviations == {<<"e", ".", "e">>}

MCJsonTokens ==
  {<<"{">>, <<"}">>, <<"]">>, <<",">>, <<"9">>,
   <<"quote", "sp", "{", "quote">>, <<"quote", "bs", "quote", "sp", "quote">>,
   <<"quote", "bs", "bs", "quote">>}

MCEscapes == {<<"esc", "[", "0", ";", "9", "m">>, <<"esc", "[", "sp", "A">>,
              <<"esc", "]", "cr", "nl", "bel">>, <<"esc", "]", "esc", "a", "esc", "bs">>,
              <<"esc", "A">>}
=============================================================================
