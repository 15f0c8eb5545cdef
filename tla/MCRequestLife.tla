---------------------------- MODULE MCRequestLife ----------------------------
EXTENDS RequestLife

\* gpg may die after any line, so its output is any prefix: a good signature,
\* or more than the buffer holds, with a line against the signature at its end.
MCScripts == {<<"VALIDSIG", "OTHER", "BADSIG">>}
=============================================================================
