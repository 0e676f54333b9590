----------------------------- MODULE MCTerminal -----------------------------
EXTENDS Terminal

MCLetters == {"a"}
=============================================================================
