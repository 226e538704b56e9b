----------------------------- MODULE MCConsole -----------------------------
EXTENDS Console

MCStrings == {<<>>, <<"a">>, <<"b", "a">>, <<NL>>, <<"b", NL>>, <<NL, "a">>}
=============================================================================
