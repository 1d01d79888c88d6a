------------------------------ MODULE ApiSurface ------------------------------
(***************************************************************************)
(* What the programs offer to each other, as the generated code and the    *)
(* main functions say it: the methods of the gRPC services, the REST       *)
(* routes in front of them, which server registers what, and the calls     *)
(* that the programs of this repository make.                              *)
(***************************************************************************)
\* <Service>: the methods whose handlers the descriptor of the service lists.  A
\* handler decodes the request, then calls the method through the interceptor of
\* the server if there is one (Servers!Serve).
GatewayService == {"CreateGateway", "GetGateway", "ListGateways", "UpdateGateway", "DeleteGateway"}
NodeService == {"GetNode", "ListNodes", "UpdateNode"}
IdentityService == {"GetIdentity", "ListIdentities", "RevokeIdentity"}
NodeOnboardingService == {"Bootstrap", "Renew"}
BootstrapTokenService == {"CreateBootstrapToken", "GetBootstrapToken", "ListBootstrapTokens",
                          "FreezeBootstrapToken", "RevokeBootstrapToken"}
TaskService == {"CreateTask", "GetTask", "ListTasks", "CancelTask"}
ModelService == {"CreateModel", "GetModel", "ListModels"}
DeploymentService == {"CreateDeployment", "GetDeployment", "ListDeployments", "UpdateDeployment"}
GatewaySyncService == {"PushRegionalTask", "SyncGatewayStatus", "NotifyIdentityEvent"}
AgentService == {"ReportHeartbeat", "PullTasks", "ReportTaskResult", "ReportMetrics",
                 "ReportRuntimeState"}

\* <Service>Routes: the REST routes of the service, POST /<service>/<method> each.
GatewayServiceRoutes == {"CreateGateway", "GetGateway", "ListGateways", "UpdateGateway", "DeleteGateway"}
NodeServiceRoutes == {"GetNode", "ListNodes", "UpdateNode"}
IdentityServiceRoutes == {"GetIdentity", "ListIdentities", "RevokeIdentity"}
NodeOnboardingServiceRoutes == {"Bootstrap", "Renew"}
BootstrapTokenServiceRoutes == {"CreateBootstrapToken", "GetBootstrapToken", "ListBootstrapTokens",
                                "FreezeBootstrapToken", "RevokeBootstrapToken"}
TaskServiceRoutes == {"CreateTask", "GetTask", "ListTasks", "CancelTask"}
ModelServiceRoutes == {"CreateModel", "GetModel", "ListModels"}
DeploymentServiceRoutes == {"CreateDeployment", "GetDeployment", "ListDeployments", "UpdateDeployment"}

\* Mutant of registerServices: a service is generated and routed, not registered.
registerServicesButOne ==
    GatewayService \cup NodeService \cup IdentityService \cup NodeOnboardingService
    \cup BootstrapTokenService \cup TaskService \cup DeploymentService

\* The methods the gRPC server of the apiserver has.
registerServices ==
    GatewayService \cup NodeService \cup IdentityService \cup NodeOnboardingService
    \cup BootstrapTokenService \cup TaskService \cup ModelService \cup DeploymentService

\* The routes of its HTTP server.
registerGatewayHandlers ==
    GatewayServiceRoutes \cup NodeServiceRoutes \cup IdentityServiceRoutes
    \cup NodeOnboardingServiceRoutes \cup BootstrapTokenServiceRoutes \cup TaskServiceRoutes
    \cup ModelServiceRoutes \cup DeploymentServiceRoutes

\* The methods and the HTTP routes of the gateway-runtime.
gatewayServices == NodeOnboardingService \cup GatewaySyncService \cup AgentService
gatewayRoutes == {"/v1/artifacts/models/", "/healthz", "/metrics"}

\* The methods that the gateway's interceptor lets through unchecked.
SkipMethods == {"Bootstrap", "PushRegionalTask", "SyncGatewayStatus", "NotifyIdentityEvent"}

Offered ==
    [e \in {"api.grpc", "api.http", "gw.grpc", "gw.http"} |->
        CASE e = "api.grpc" -> registerServices
          [] e = "api.http" -> registerGatewayHandlers
          [] e = "gw.grpc" -> gatewayServices
          [] e = "gw.http" -> gatewayRoutes]

-------------------------------------------------------------------------------

\* A call: who makes it, the servers it passes through, and at each of them the
\* method it asks for; tls: whether the caller speaks TLS, with a certificate.
Direct(by, e, methods, tls) ==
    [by : {by}, path : {<<e>>}, method : methods, tls : tls]

\* The commands of edgectl.
gatewayCmd ==
    Direct("edgectl", "api.grpc",
           {"CreateGateway", "GetGateway", "ListGateways", "UpdateGateway", "DeleteGateway"}, {FALSE})
tokenCmd == Direct("edgectl", "api.grpc", {"CreateBootstrapToken", "ListBootstrapTokens"}, {FALSE})
nodeCmd == Direct("edgectl", "api.grpc", {"ListNodes", "RevokeIdentity"}, {FALSE})
deploymentCmd == Direct("edgectl", "api.grpc", {"CreateTask"}, {FALSE})
taskCmd == Direct("edgectl", "api.grpc", {"ListTasks", "GetTask"}, {FALSE})

edgectlCalls == gatewayCmd \cup tokenCmd \cup nodeCmd \cup deploymentCmd \cup taskCmd

\* SelfRegister of a gateway.
selfRegisterCalls == Direct("gateway", "api.grpc", {"CreateGateway", "ListGateways"}, {FALSE})

\* The agent's first call is made without TLS; the others with its certificate if
\* EDGE_USE_MTLS is set.  The gateway passes Bootstrap and Renew on.
bootstrapCalls ==
    [by : {"agent"}, path : {<<"gw.grpc", "api.grpc">>}, method : {"Bootstrap"}, tls : {FALSE}]
renewCalls ==
    [by : {"agent"}, path : {<<"gw.grpc", "api.grpc">>}, method : {"Renew"}, tls : BOOLEAN]
agentCalls ==
    Direct("agent", "gw.grpc", {"ReportHeartbeat", "PullTasks", "ReportTaskResult"}, BOOLEAN)
downloadCalls == Direct("agent", "gw.http", {"/v1/artifacts/models/"}, BOOLEAN)
uploadCalls == Direct("agent", "gw.http", {"/v1/logs"}, BOOLEAN)

\* A user of the REST interface, with any route or one that does not exist.
restCalls ==
    [by : {"user"}, path : {<<"api.http", "api.grpc">>},
     method : registerGatewayHandlers \cup {"/"}, tls : {FALSE}]

Calls == edgectlCalls \cup selfRegisterCalls \cup bootstrapCalls \cup renewCalls
         \cup agentCalls \cup downloadCalls \cup uploadCalls \cup restCalls
===============================================================================
