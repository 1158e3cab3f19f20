---------------------------- MODULE ServiceProcess ----------------------------
(***************************************************************************)
(* The life of a service process: main (cmd/*-service) runs a gRPC server  *)
(* (internal/platform/grpcserver) and an HTTP server for health checks and *)
(* metrics (internal/platform/httpserver) until a signal or an error.      *)
(*                                                                         *)
(* main waits for ONE of the two to return.  The HTTP server, which no     *)
(* call keeps open, is usually the first.                                  *)
(***************************************************************************)
EXTENDS Naturals

CONSTANT Services   \* the service processes

VARIABLE process    \* service -> [grpc, http]

\* "serving", then "closing" after the signal, then "stopped".
ServerState == {"serving", "closing", "stopped", "exited", "crashed"}

Started == [grpc |-> "serving", http |-> "serving"]
Exited == [grpc |-> "exited", http |-> "exited"]
Crashed == [grpc |-> "crashed", http |-> "crashed"]

Running(s) == process[s] \notin {Exited, Crashed}

ProcessInit == process = [s \in Services |-> Started]

\* A call can be sent to the service; the health service says SERVING.
Serving(s) == process[s].grpc = "serving"

\* SIGTERM cancels the context of both servers: health says NOT_SERVING,
\* and neither takes new connections.
Signal(s) ==
  /\ process[s] = Started
  /\ process' = [process EXCEPT ![s] = [grpc |-> "closing", http |-> "closing"]]

\* GracefulStop returns when no call is left.
GrpcStops(s, busy) ==
  /\ process[s].grpc = "closing"
  /\ ~busy
  /\ process' = [process EXCEPT ![s].grpc = "stopped"]

\* Calls that outlast the grace period are cut by Stop.
GrpcForced(s) ==
  /\ process[s].grpc = "closing"
  /\ process' = [process EXCEPT ![s].grpc = "stopped"]

\* Shutdown of the HTTP server for operations.
HttpStops(s) ==
  /\ process[s].http = "closing"
  /\ process' = [process EXCEPT ![s].http = "stopped"]

\* main receives from the channel once and returns; what it deferred closes
\* the connection pool, which waits for open transactions only.
MainReturns(s, transaction) ==
  /\ Running(s)
  /\ process[s].grpc = "stopped" \/ process[s].http = "stopped"
  /\ ~transaction
  /\ process' = [process EXCEPT ![s] = Exited]

\* A server fails, and os.Exit runs nothing that was deferred; or the process
\* is killed.
Crash(s) ==
  /\ Running(s)
  /\ process' = [process EXCEPT ![s] = Crashed]

\* The process is started again.
Restart(s) ==
  /\ ~Running(s)
  /\ process' = [process EXCEPT ![s] = Started]
=============================================================================
