------------------------------ MODULE MCPrintf ------------------------------
EXTENDS Printf

\* Short formats over all kinds of specifiers, and longer ones in which a bad
\* specifier stands between two good ones.
Short == SeqOf({"%", "d", "x", "l", "s", "z"}, 4)
Long == SeqOf({"%", "d", "z"}, 7)

\* Every number in every conversion.
Single == {<<"%", s>> : s \in Numbers}

Few == {-2, 0, 9}

MCCalls ==
  [format : Short, args : {<<a, b>> : a \in Few, b \in Few}]
    \union [format : Long, args : {<<1, -2, 3>>}]
    \union [format : Single, args : {<<n>> : n \in Ints}]
=============================================================================
