------------------------ MODULE MCMilestoneDrivers -------------------------
\* One agent thread and one caller of advance_one_milestone, enough for every
\* race between the two kinds; two milestones, one of which may depend on the
\* other; two driven milestones per user turn, so that the cap is reached.
EXTENDS MilestoneDrivers
=============================================================================
