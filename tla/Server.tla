------------------------------- MODULE Server -------------------------------
(***************************************************************************)
(* The process around the database: it loads the embedder, picks a         *)
(* transport from the environment, serves sessions that all share the one  *)
(* database of NanoVecDatabase.tla, and stops when the pipe closes or when *)
(* its HTTP server is told to shut down.                                   *)
(***************************************************************************)
EXTENDS NanoVecDatabase

CONSTANT MaxSessions    \* bound on the sessions open at once

ASSUME MaxSessionsAssumption == MaxSessions \in Nat \ {0}

VARIABLES
  phase,       \* of the process: "loading", "loaded", "binding", "serving",
               \* "draining" (its sessions), "stopping" (its calls), "exited"
  transport,
  sessions     \* sessions open

serverVars == <<phase, transport, sessions>>
allVars    == <<vars, serverVars>>

ServerInit ==
  /\ Init
  /\ phase = "loading"
  /\ transport = "none"
  /\ sessions = 0

(* What may be called or connected to is decided by the process, and the   *)
(* database stays as it is when the process moves on.                      *)
Move(from, to) == phase = from /\ phase' = to /\ UNCHANGED vars

(* The transport returns, and main with it.                                *)
Stop(from) == Move(from, "stopping") /\ transport' = "none" /\ sessions' = 0

-----------------------------------------------------------------------------
(* Embedder::load fetches, reads and builds the model.  A step that fails, *)
(* or panics, ends the process before any transport is open.               *)
Load ==
  \/ Move("loading", "loaded") /\ UNCHANGED <<transport, sessions>>
  \/ Stop("loading")

(* select_from_env: an address that does not parse means stdio.            *)
SelectTransport ==
  /\ \/ transport' = "http" /\ Move("loaded", "binding")
     \/ transport' = "stdio" /\ Move("loaded", "serving")
  /\ UNCHANGED sessions

(* The address may be taken.                                               *)
Bind ==
  \/ Move("binding", "serving") /\ UNCHANGED <<transport, sessions>>
  \/ Stop("binding")

(* Stdio is one session, and the server is done when its handshake fails.  *)
Connect ==
  /\ sessions < IF transport = "stdio" THEN 1 ELSE MaxSessions
  /\ \/ /\ Move("serving", "serving")
        /\ sessions' = sessions + 1
        /\ UNCHANGED transport
     \/ transport = "stdio" /\ Stop("serving")

(* A client leaves.  A handler at work goes on, but with the pipe of stdio *)
(* the server is done.                                                     *)
Disconnect ==
  /\ sessions > 0
  /\ \/ transport = "stdio" /\ Stop("serving")
     \/ /\ transport = "http"
        /\ Move("serving", "serving")
        /\ sessions' = sessions - 1
        /\ UNCHANGED transport

-----------------------------------------------------------------------------
(* The token given to run_with_cancel is cancelled: no more connections.   *)
Cancel ==
  /\ transport = "http"
  /\ Move("serving", "draining")
  /\ UNCHANGED <<transport, sessions>>

(* Mutation: the sessions are not given the token.                         *)
CloseSession_NoToken ==
  /\ sessions > MaxSessions
  /\ Move("draining", "draining")
  /\ sessions' = sessions - 1
  /\ UNCHANGED transport

(* The token is in the configuration of the service too: it closes the     *)
(* streams of the sessions.                                                *)
CloseSession ==
  /\ sessions > 0
  /\ Move("draining", "draining")
  /\ sessions' = sessions - 1
  /\ UNCHANGED transport

(* The graceful shutdown waits for the connections.                        *)
Drained == sessions = 0 /\ Stop("draining")

(* Handlers do not await: the runtime that main drops waits until those    *)
(* that have begun are done.  Nothing is persisted.                        *)
Exit ==
  /\ \A c \in Client : At(c, "idle")
  /\ phase = "stopping" /\ phase' = "exited"
  /\ collections' = [n \in Name |-> None]
  /\ guards' = [g \in Guard |-> Free]
  /\ tick_counter' = 0
  /\ UNCHANGED <<outer, inner, call, shrunk, transport, sessions>>

-----------------------------------------------------------------------------
(* The handlers run on the threads of the process until it ends.           *)
Serve(c) ==
  /\ phase \in {"serving", "draining", "stopping"}
  /\ Step(c)
  /\ UNCHANGED serverVars

Request(c) ==
  /\ phase = "serving" /\ sessions > 0
  /\ \E op \in OpNames, n \in Name \cup {None} : Call(c, op, n)
  /\ UNCHANGED serverVars

StartUp == Load \/ SelectTransport \/ Bind

ServerNext ==
  \/ StartUp \/ Connect \/ Disconnect
  \/ Cancel \/ CloseSession \/ Drained \/ Exit
  \/ (\E c \in Client : Serve(c) \/ Request(c)) /\ Observe

(* Locks are fair, the start-up does not wait for anyone, and a server     *)
(* that has been told to stop closes its sessions; that anyone connects,   *)
(* calls, leaves or cancels is not promised.                               *)
ServerSpec ==
  /\ ServerInit /\ [][ServerNext]_allVars
  /\ \A c \in Client : SF_<<dbVars, serverVars>>(Serve(c))
  /\ WF_serverVars(StartUp) /\ WF_serverVars(CloseSession)
  /\ WF_serverVars(Drained) /\ WF_serverVars(Exit)

-----------------------------------------------------------------------------
(* A call that has begun comes to its end unless it evicts, whoever        *)
(* connects, leaves or shuts the server down meanwhile and whichever locks *)
(* it meets (database.rs:226-281, 314-350).                                *)
CallsReturn ==
  \A c \in Client : (~At(c, "idle") /\ call[c].op # "evict") ~> At(c, "idle")

(* A server told to shut down does, with sessions open and calls at work   *)
(* that wait for each other's locks (http.rs:37, 57-59).                   *)
ShutdownCompletes == (phase = "draining") ~> (phase = "exited")
=============================================================================
