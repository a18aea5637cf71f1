---------------------------- MODULE MCLearnerSync ----------------------------
EXTENDS LearnerSync
==============================================================================
