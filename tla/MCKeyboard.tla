----------------------------- MODULE MCKeyboard -----------------------------
EXTENDS Keyboard

MCLetters == {"a"}
=============================================================================
