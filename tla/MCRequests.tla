----------------------------- MODULE MCRequests -----------------------------
EXTENDS Requests
=============================================================================
