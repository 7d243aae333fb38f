------------------------------ MODULE MCIpcBus ------------------------------
(* Small instances of the IPC bus for TLC.                                  *)
EXTENDS IpcBus, TLC

Symmetry == Permutations(Conns) \cup Permutations(Fds)

(* client.hpp on subscribe: "delivered via `on_event` on the poll/read      *)
(* path": an event the client has read is handed to its handler.            *)
EventNext(k) == cliBuf[k] # <<>> /\ IsEvent(Head(cliBuf[k]))
ReadIsDispatched == \A k \in Conns : EventNext(k) ~> ~EventNext(k)
=============================================================================
