---------------------------- MODULE MCThriftWire ----------------------------
\* The two services with Python stubs.  A client of either may reach the server of either.
EXTENDS ThriftWire, SaiThrift, SswitchThrift

MCServices == [switch_sai_rpc |-> SaiMethods, SimpleSwitch |-> SswitchMethods]
=============================================================================
