----------------------------- MODULE MCNdgUpstream ----------------------------
\* Answers: as long as announced, longer, shorter, without a body, cut off.
EXTENDS NdgUpstream

MCArgs == {<<>>, <<"a", "b", "c">>, <<"a", "b", "c", "d">>, <<"a", "b", "c", "d", "e">>}
MCAnswers == {<<0, 2, 7, 8>>, <<0, 1, 7, 8, 9>>, <<1, 2, 7>>, <<0, 0>>, <<1>>, <<>>}
===============================================================================
