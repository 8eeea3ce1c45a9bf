------------------------------ MODULE MCFsData ------------------------------
EXTENDS FsData

\* Neighbouring bytes differ, so that a byte out of place is seen.
MCTexts == {<<1>>, <<2, 1>>, <<1, 2, 1>>, <<2, 1, 2, 1, 2>>}
=============================================================================
