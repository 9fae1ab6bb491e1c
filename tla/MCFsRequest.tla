---------------------------- MODULE MCFsRequest ----------------------------
\* Every binding of fs.c, called up to twice, with a C runtime that has one
\* descriptor to give.
EXTENDS FsRequest
=============================================================================
