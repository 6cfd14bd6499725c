------------------------------ MODULE MCController ------------------------------
\* Controller on a small instance; MCController.cfg gives the constants their values.
EXTENDS Controller

\* Once what FrameNumberNeverGoesBack exempts has happened a behaviour is not followed: nothing
\* is claimed of the clock any more, and the life cycle takes no notice of clock and reader.
Followed == lifeUpset \cap {"late", "firstWrap", "torn"} = {}
=============================================================================
