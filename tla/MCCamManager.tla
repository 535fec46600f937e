--------------------------- MODULE MCCamManager ---------------------------
(* Instances of CamManager for TLC: how often the clients make each call.  *)
EXTENDS CamManager, TLC

Budget(add, start, stop, recover, reopen, delete, polling, reqStop, shutdown) ==
    [call \in Calls |->
        CASE call = "add" -> add
          [] call = "start" -> start
          [] call = "stop" -> stop
          [] call = "recover" -> recover
          [] call = "reopen" -> reopen
          [] call = "delete" -> delete
          [] call = "startPolling" -> polling
          [] call = "requestStop" -> reqStop
          [] call = "shutdown" -> shutdown]

(* One camera, started, stopped, reopened and faulted with its frame out.  *)
ControlCalls == Budget(1, 2, 1, 0, 1, 0, 1, 0, 0)

(* The poll thread started, stopped and restarted while a camera is deleted.*)
LifecycleCalls == Budget(1, 1, 0, 0, 0, 1, 2, 1, 1)

(* The smallest program: add, start polling, start.                        *)
StartCalls == Budget(1, 1, 0, 0, 0, 0, 1, 0, 0)
=============================================================================
