---------------------------- MODULE MCFtpSession ----------------------------
EXTENDS FtpSession
CONSTANTS c1, c2, x, s1, s2
MCClients == {c1, c2}
MCSessions == {s1, s2}
\* Everything on one session at a time, and dials beside a session that is late.
MCWorkloads ==
    {[operations |-> Operations, sessions |-> {s1}],
     [operations |-> {"query", "close"}, sessions |-> {s1, s2}]}
=============================================================================
