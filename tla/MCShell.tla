------------------------------ MODULE MCShell ------------------------------
EXTENDS Shell

\* "a", "b", "a b" and "abc", the longest that fits in an entry of four bytes;
\* the repeats; "!", "!a" and "!12", whose first digit names another entry.
MCLines == {
  <<>>, <<97>>, <<98>>, <<97, 32, 98>>, <<97, 98, 99>>,
  <<33, 48>>, <<33, 49>>, <<33, 50>>, <<33, 51>>, <<33, 52>>,
  <<33>>, <<33, 97>>, <<33, 49, 50>> }
MCNames == {<<97>>}

\* "a", "b" and "!10".
MCTen == {<<97>>, <<98>>, <<33, 49, 48>>}
=============================================================================
