---------------------------- MODULE MCExitFlush ----------------------------
EXTENDS ExitFlush
CONSTANT a
OneDocument == [s \in Sheets |-> "afg"]
TypesOn == {"typeOn"}
=============================================================================
