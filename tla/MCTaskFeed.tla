----------------------------- MODULE MCTaskFeed -----------------------------
\* One follower stands for all: the streams of two never meet.
EXTENDS TaskFeed
=============================================================================
