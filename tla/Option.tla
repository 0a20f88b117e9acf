------------------------------- MODULE Option -------------------------------
CONSTANT None   \* the None of every Option
=============================================================================
