----------------------------- MODULE MCRecords ------------------------------
(* A small instance of Records for TLC.                                     *)
EXTENDS Records

\* Nothing, one character, and the characters that mean something: those of
\* the format, the quote, and the one that escapes it.
SomeTexts == {<<>>, <<"a">>, <<"a", ":", "b">>, <<"a", ",", "7">>, <<"'">>, <<"%">>}

SomeChars == {"a", "b", "7", ":", ",", "'", "%"}

\* Of one and two figures, negative, and the largest.
SomeInts == {-5, 0, 7, 15}

\* A small one, and of more bits than an int: cut down they are 7, -12 and 0.
SomeTimes == {3, 39, 52, -64}
=============================================================================
