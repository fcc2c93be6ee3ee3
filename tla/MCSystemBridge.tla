--------------------------- MODULE MCSystemBridge ---------------------------
(* Small instances of SystemBridge: each budget lets other things happen.    *)
EXTENDS SystemBridge

Allow(calls, messages, stops, observers, lost) ==
    [requests |-> calls, sent |-> messages, stops |-> stops, observers |-> observers, faults |-> lost]

MCBudgets ==
    { Allow(<<"read", "read", "read">>, 0, 0, 0, 0),  \* the limit of outstanding calls
      Allow(<<"read", "write">>, 1, 0, 0, 0),         \* calls that overlap
      Allow(<<"read">>, 2, 0, 0, 0),                  \* a reply among signals
      Allow(<<"big", "register">>, 1, 0, 0, 1),       \* an agent, and a lost connection
      Allow(<<"register">>, 1, 1, 0, 0),              \* an agent, and a restarted service
      Allow(<<"unregister">>, 1, 0, 0, 0),
      Allow(<<"read">>, 0, 1, 1, 0),                  \* observer, client and restart
      Allow(<<>>, 3, 1, 1, 0),                        \* a restart at a full queue
      Allow(<<"read">>, 1, 0, 1, 0),                  \* observer, client and a broadcast
      Allow(<<>>, 1, 1, 2, 1) }                       \* a lost observer
====
