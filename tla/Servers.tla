-------------------------------- MODULE Servers -------------------------------
(***************************************************************************)
(* The two servers from start to exit (cmd/apiserver, cmd/gateway-runtime) *)
(* and the requests that pass through them while they stop: a REST call    *)
(* goes from the HTTP server of the apiserver to its own gRPC server, a    *)
(* Bootstrap or Renew from the gateway to the apiserver.  On SIGTERM both  *)
(* programs call GracefulStop, which waits for its calls without a limit,  *)
(* then Shutdown of the HTTP server, which waits 10 s, and then the        *)
(* deferred db.Close; the process ends with whatever still runs in it.     *)
(***************************************************************************)
EXTENDS ApiSurface, Naturals, Sequences

CONSTANTS Requests,  \* requests under way at once
          MaxStarts, \* bound on the starts of a server
          MaxKills   \* bound on SIGKILLs and power cuts

ASSUME ServersAssumption == MaxStarts \in Nat /\ MaxKills \in Nat

VARIABLES mtls,   \* whether GATEWAY_TLS_CERT_PATH, ..KEY_PATH and ..CA_CERT_PATH are set
          phase,  \* where main of each server is
          late,   \* whether Shutdown of the HTTP server gave up waiting
          req,    \* the requests
          starts, kills

serverVars == <<mtls, phase, late, req, starts, kills>>

Programs == {"apiserver", "gateway-runtime"}
ProgramOf(e) == IF e \in {"api.grpc", "api.http"} THEN "apiserver" ELSE "gateway-runtime"
Grpc == {"api.grpc", "gw.grpc"}
Http == {"api.http", "gw.http"}

NoRequest == [state |-> "none"]

SrvInit ==
    /\ mtls \in BOOLEAN
    /\ phase = [p \in Programs |-> "down"]
    /\ late = [p \in Programs |-> FALSE]
    /\ req = [r \in Requests |-> NoRequest]
    /\ starts = [p \in Programs |-> 0]
    /\ kills = 0

-------------------------------------------------------------------------------
(* Requests.  state is arrive at the server number at of the path, serve    *)
(* there, or back when the next server of the path has answered.            *)

\* Request r is inside server e.
In(r, e) ==
    /\ req[r].state \in {"arrive", "serve", "back"}
    /\ \E i \in 1 .. req[r].at :
        req[r].path[i] = e /\ (i < req[r].at \/ req[r].state # "arrive")

Here(r) == req[r].path[req[r].at]

\* The answer of the server a request is at goes to the one before it.
Answer(r, code) ==
    LET q == req[r]
    IN  req' = [req EXCEPT ![r] =
                  IF q.at = 1 THEN [state |-> "ended", code |-> code]
                  ELSE [q EXCEPT !.at = q.at - 1, !.state = "back", !.code = code]]

\* What the servers can tell calls apart by: whether each server of the path has
\* the method, and whether the interceptor checks it.
Kind(c) == [path |-> c.path, tls |-> c.tls,
            known |-> [i \in DOMAIN c.path |-> c.method \in Offered[c.path[i]]],
            skip |-> c.method \in SkipMethods]
Kinds == {Kind(c) : c \in Calls}

\* A client or a user makes a call.
Arrive(r, kind) ==
    /\ req[r] = NoRequest
    /\ req' = [req EXCEPT ![r] =
                 [state |-> "arrive", at |-> 1, code |-> "",
                  path |-> kind.path, tls |-> kind.tls, known |-> kind.known, skip |-> kind.skip]]

\* Mutant of Listening: gRPC calls are accepted until none is left.
ListeningWhileStopping(e) == phase[ProgramOf(e)] \in {"serving", "stopping"}

\* Whether the listener of e accepts: GracefulStop closes that of gRPC, Shutdown
\* that of HTTP.
Listening(e) ==
    phase[ProgramOf(e)] \in (IF e \in Grpc THEN {"serving"} ELSE {"serving", "stopping"})

\* RequireAndVerifyClientCert of the gateway's gRPC server, if it has TLS; its HTTP
\* server never has.  Between the programs nothing is encrypted.
Handshake(r) ==
    LET tls == req[r].at = 1 /\ req[r].tls
    IN  tls = (Here(r) = "gw.grpc" /\ mtls)

Refused(r) ==
    /\ req[r].state = "arrive"
    /\ ~Listening(Here(r)) \/ ~Handshake(r)
    /\ Answer(r, "Unavailable")

Accept(r) ==
    /\ req[r].state = "arrive" /\ Listening(Here(r)) /\ Handshake(r)
    /\ IF req[r].known[req[r].at]
       THEN req' = [req EXCEPT ![r].state = "serve"]
       ELSE Answer(r, IF Here(r) \in Grpc THEN "Unimplemented" ELSE "NotFound")

\* The request does not decode, or the interceptor of the gateway does not know
\* the certificate (IdentityCache!Admit says which it knows).
Reject(r) ==
    /\ req[r].state = "serve"
    /\ \/ Answer(r, "InvalidArgument")
       \/ /\ Here(r) = "gw.grpc" /\ mtls /\ ~req[r].skip
          /\ Answer(r, "Unauthenticated")

\* The handler calls the next server: the REST route its gRPC method, the proxy
\* the control plane.
Forward(r) ==
    /\ req[r].state = "serve" /\ req[r].at < Len(req[r].path)
    /\ req' = [req EXCEPT ![r].state = "arrive", ![r].at = @ + 1]

\* The last handler of the path returns.
Return(r) ==
    /\ req[r].state = "serve" /\ req[r].at = Len(req[r].path)
    /\ Answer(r, "Returned")

Back(r) ==
    /\ req[r].state = "back"
    /\ Answer(r, req[r].code)

\* The caller has its answer and goes on.
Leave(r) ==
    /\ req[r].state = "ended"
    /\ req' = [req EXCEPT ![r] = NoRequest]

-------------------------------------------------------------------------------
(* The main functions *)

\* From store.New to the servers.  Whatever fails ends in log.Fatal: the program is
\* still down.
StartApiserver ==
    /\ phase["apiserver"] = "down" /\ starts["apiserver"] < MaxStarts
    /\ phase' = [phase EXCEPT !["apiserver"] = "serving"]
    /\ starts' = [starts EXCEPT !["apiserver"] = @ + 1]
    /\ UNCHANGED <<late, req, kills>>

\* With GATEWAY_AUTO_REGISTER the gateway registers first (GatewayRegistry), so the
\* apiserver must serve.
StartGateway(autoRegister) ==
    /\ phase["gateway-runtime"] = "down" /\ starts["gateway-runtime"] < MaxStarts
    /\ autoRegister => phase["apiserver"] = "serving"
    /\ phase' = [phase EXCEPT !["gateway-runtime"] = "serving"]
    /\ starts' = [starts EXCEPT !["gateway-runtime"] = @ + 1]
    /\ UNCHANGED <<late, req, kills>>

Signal(p) ==
    /\ phase[p] = "serving"
    /\ phase' = [phase EXCEPT ![p] = "stopping"]
    /\ UNCHANGED <<late, req, starts, kills>>

\* Mutant of GracefulStop: Stop, which does not wait for the handlers.
GracefulStopNoWait(p) ==
    /\ phase[p] = "stopping"
    /\ phase' = [phase EXCEPT ![p] = "draining"]
    /\ UNCHANGED <<late, req, starts, kills>>

\* GracefulStop returns when the last call has.
GracefulStop(p) ==
    /\ phase[p] = "stopping"
    /\ ~\E r \in Requests, e \in Grpc : ProgramOf(e) = p /\ In(r, e)
    /\ phase' = [phase EXCEPT ![p] = "draining"]
    /\ UNCHANGED <<late, req, starts, kills>>

\* httpServer.Shutdown returns when the last request has ended or its 10 s are
\* over; then db.Close.
Shutdown(p) ==
    /\ phase[p] = "draining"
    /\ late' = [late EXCEPT ![p] = \E r \in Requests, e \in Http : ProgramOf(e) = p /\ In(r, e)]
    /\ phase' = [phase EXCEPT ![p] = "closed"]
    /\ UNCHANGED <<req, starts, kills>>

\* The process ends: a request inside it is cut off, at the first server of its
\* path that is gone; the server before that one sees the connection break.
Cut(p) ==
    req' = [r \in Requests |->
              LET gone == {i \in DOMAIN req[r].path : ProgramOf(req[r].path[i]) = p}
                  i == CHOOSE j \in gone : \A k \in gone : j <= k
              IN  IF ~\E e \in Grpc \cup Http : ProgramOf(e) = p /\ In(r, e) THEN req[r]
                  ELSE IF i = 1 THEN [state |-> "ended", code |-> "Unavailable"]
                  ELSE [req[r] EXCEPT !.at = i - 1, !.state = "back", !.code = "Unavailable"]]

Exit(p) ==
    /\ phase[p] = "closed"
    /\ phase' = [phase EXCEPT ![p] = "down"]
    /\ late' = [late EXCEPT ![p] = FALSE]
    /\ Cut(p)
    /\ UNCHANGED <<starts, kills>>

Kill(p) ==
    /\ phase[p] # "down" /\ kills < MaxKills
    /\ kills' = kills + 1
    /\ phase' = [phase EXCEPT ![p] = "down"]
    /\ late' = [late EXCEPT ![p] = FALSE]
    /\ Cut(p)
    /\ UNCHANGED starts

RequestStep(r) ==
    /\ Refused(r) \/ Accept(r) \/ Reject(r) \/ Forward(r) \/ Return(r) \/ Back(r)
    /\ UNCHANGED <<phase, late, starts, kills>>

StopStep(p) == GracefulStop(p) \/ Shutdown(p) \/ Exit(p)

SrvNext ==
    /\ \/ \E r \in Requests :
            \/ RequestStep(r)
            \/ (Leave(r) \/ \E k \in Kinds : Arrive(r, k)) /\ UNCHANGED <<phase, late, starts, kills>>
       \/ StartApiserver \/ \E autoRegister \in BOOLEAN : StartGateway(autoRegister)
       \/ \E p \in Programs : Signal(p) \/ StopStep(p) \/ Kill(p)
    /\ UNCHANGED mtls

SrvSpec == SrvInit /\ [][SrvNext]_serverVars

\* Handlers return (they make a bounded number of statements to a database that
\* answers), a connection attempt ends, and main goes on when it can.
SrvFairness ==
    /\ \A r \in Requests : WF_serverVars(RequestStep(r) /\ UNCHANGED mtls)
    /\ \A p \in Programs : WF_serverVars(StopStep(p) /\ UNCHANGED mtls)

-------------------------------------------------------------------------------
(* Properties *)

\* A handler never runs on a closed database, except one of the HTTP server of the
\* gateway that outlasted the 10 s of Shutdown: the order of GracefulStop, Shutdown
\* and the deferred Close keeps it open for calls that came through either server.
HandlersKeepDatabase ==
    \A r \in Requests :
        (/\ req[r].state = "serve" /\ req[r].at = Len(req[r].path)
         /\ phase[ProgramOf(Here(r))] = "closed") =>
            Here(r) = "gw.http" /\ late["gateway-runtime"]

\* What the programs call is there: no call ends as Unimplemented, so the routes
\* and the proxy lead to registered services.  (The log upload, to a route that no
\* server has, ends as NotFound; so does a user's wrong path.)
CallsAreServed ==
    \A r \in Requests : req[r].state = "ended" => req[r].code # "Unimplemented"

\* Stopping never hangs, although GracefulStop waits without a limit, and a gateway
\* that stops may wait for a call to the apiserver while that one stops as well.
ServersStop == \A p \in Programs : (phase[p] = "stopping") ~> (phase[p] = "down")
===============================================================================
