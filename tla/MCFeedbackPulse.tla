-------------------------- MODULE MCFeedbackPulse --------------------------
(* An instance of FeedbackPulse small enough for TLC.                      *)
EXTENDS FeedbackPulse

CONSTANTS t1, t2

MCTabs == {t1, t2}
MCWriters == {t1}
===========================================================================
