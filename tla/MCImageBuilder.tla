--------------------------- MODULE MCImageBuilder ---------------------------
EXTENDS ImageBuilder
Plain == [caching |-> FALSE, disableExport |-> FALSE, mode |-> "", args |-> TRUE]
Requests == {Plain, [Plain EXCEPT !.caching = TRUE, !.mode = "invalid"], [Plain EXCEPT !.args = FALSE]}
MCOptions ==
  [push : {<<"a", "b">>, <<"a", "a">>}, limit : {0, 1}, plugins : {0, 2}, request : {Plain}]
  \cup [push : {<<>>, <<"a">>, <<"bad">>, <<"a", "bad">>}, limit : {1}, plugins : {1}, request : Requests]
MCSources == [kind : {"gzip", "tar", "other"}, sized : BOOLEAN]
=============================================================================
