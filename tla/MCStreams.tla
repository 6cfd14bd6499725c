------------------------------- MODULE MCStreams --------------------------------
\* Streams on a small instance; MCStreams.cfg gives the constants their values.
EXTENDS Streams
=============================================================================
