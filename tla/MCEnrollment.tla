----------------------------- MODULE MCEnrollment -----------------------------
EXTENDS Enrollment, TLC
=============================================================================
