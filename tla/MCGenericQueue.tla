--------------------------- MODULE MCGenericQueue ---------------------------
\* Three requests: one can be called back while a second is at work and a
\* third is being pushed, from the script or from the callback.
EXTENDS GenericQueue
=============================================================================
