---------------------------- MODULE MCInterrupts ----------------------------
EXTENDS Interrupts

\* The clock of the slave controller.
MCOtherIrqs == {8}
=============================================================================
