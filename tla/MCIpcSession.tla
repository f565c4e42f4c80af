--------------------------- MODULE MCIpcSession ---------------------------
(* Model values for IpcSession: two connections may hold sessions of the   *)
(* same id, which select the same entries of the subscription table.       *)
EXTENDS IpcSession

CONSTANTS a, b, s1

OneConn == {a}
TwoConns == {a, b}
OneSignal == {s1}

=============================================================================
