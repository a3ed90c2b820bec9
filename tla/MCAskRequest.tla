---------------------------- MODULE MCAskRequest ----------------------------
EXTENDS AskRequest
CONSTANTS r1, r2
=============================================================================
