------------------------------- MODULE MCRBTree -------------------------------
EXTENDS RBTree

==============================================================================
