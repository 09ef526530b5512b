---------------------------- MODULE MCInterchange ---------------------------
EXTENDS Interchange

MCAlphabets ==
  [structure |-> {<<"{">>, <<"}">>, <<"[">>, <<"]">>, <<":">>, <<",">>, <<"\"", "k", "\"">>, <<"1">>, <<" ">>,
                  <<"n", "u", "l", "l">>},
   numeral |-> {<<"-">>, <<"0">>, <<"1">>, <<"8">>, <<".">>, <<"e">>, <<"+">>, <<"0", "0", "0">>, <<"3">>, <<"6">>},
   quoted |-> {<<"\"">>, <<"\\">>, <<"u">>, <<"0", "0", "0", "1">>, <<"0", "0", "E", "9">>, <<"2", "0", "A", "C">>,
               <<"D", "8", "3", "D">>, <<"D", "e", "0", "1">>, <<"n">>},
   elements |-> {<<"<", "a">>, <<"<", "a", ">">>, <<">">>, <<"<", "/", "a", ">">>, <<"/", ">">>, <<" ">>, <<"x">>,
                 <<" ", "b", "=", "'", "&", "l", "t", ";", "'">>},
   markup |-> {<<"<", "!", "-", "-">>, <<"-", "-", ">">>, <<"<", "!", "[", "C", "D", "A", "T", "A", "[">>,
               <<"]", "]", ">">>, <<"<", "?", "x", "m", "l">>, <<"?", ">">>, <<" ">>, <<"<", "/", "a", ">">>,
               <<"<", "!", "D", "O", "C", "T", "Y", "P", "E">>, <<"[">>},
   attributes |-> {<<"b">>, <<"=">>, <<"'">>, <<"\"">>, <<"&", "l", "t", ";">>, <<"&", "#", "x", "2", "0", "A", "C", ";">>,
                   <<"&", "#", "F", "F", ";">>, <<"&", "a">>, <<"/", ">">>, <<" ">>}]
MCBeginning ==
  [structure |-> <<>>, numeral |-> <<>>, quoted |-> <<"\"">>, elements |-> <<>>, markup |-> <<"<", "a", ">">>,
   attributes |-> <<"<", "a", " ">>]
MCXmlKinds == {"elements", "markup", "attributes"}

MCScalars == {SetInt(9)}
\* a string kept in its value, and one that is allocated
MCTexts == {<<34>>, <<1, 127, 92>>}
MCNames == {<<107>>}

=============================================================================
