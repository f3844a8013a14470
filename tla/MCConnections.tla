--------------------------- MODULE MCConnections ---------------------------
(* A client that subscribes, unsubscribes and stops the daemon, and one    *)
(* that connects and then stays silent.                                    *)
EXTENDS Connections, TLC

CONSTANTS c1, c2

Calls == (c1 :> {"handshake", "oversized", "subscribe", "unsubscribe", "shutdown"})
            @@ (c2 :> {})
Bounds == (c1 :> 3) @@ (c2 :> 0)
=============================================================================
