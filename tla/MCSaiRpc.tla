----------------------------- MODULE MCSaiRpc ------------------------------
\* One procedure of each kind: served, served with a path that returns nothing, in the
\* interface only, and unknown to the server.
EXTENDS SaiRpc
============================================================================
