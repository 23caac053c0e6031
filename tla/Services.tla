----------------------------- MODULE Services ------------------------------
(***************************************************************************)
(* The thirty-five services as Lifecycle sees them, each read off the      *)
(* run() of its cmd/<service>/main.go.                                     *)
(***************************************************************************)
EXTENDS Sequences

(* A profile.  optional: run() goes without when it is not configured;      *)
(* lenient: a failure to acquire it is logged or ignored.                  *)

Profile(boot, hooks, needs, optional, lenient) ==
    [boot |-> boot, hooks |-> hooks, needs |-> needs,
     optional |-> optional, lenient |-> lenient]

(* Servers closed first (registered last), or closed last.                 *)
ServersFirst(hooks) == hooks \o <<"health", "http">>
ServersLast(hooks)  == <<"http", "health">> \o hooks

(* The four services that only keep rows: otel, database, schema.          *)
Rows == Profile(<<"otel", "db", "migrate">>, ServersLast(<<"db", "otel">>),
                [http |-> {"db"}], {}, {})

(* The services that keep nothing a closer would release but the tracer.   *)
Stateless(boot) == Profile(boot, ServersLast(<<"otel">>), [http |-> {}], {}, {})

ActiveLearningHooks == ServersLast(<<"bus", "db", "otel">>)
ActiveLearning == Profile(<<"otel", "db", "migrate", "bus", "sub">>, ActiveLearningHooks,
                          [http |-> {"db", "bus"}, msg |-> {"db", "bus"}], {}, {})
AgentServiceHooks == ServersFirst(<<"otel", "db", "bus", "sub">>)
AgentService   == Profile(<<"otel", "db", "migrate", "bus", "sub">>, AgentServiceHooks,
                          [http |-> {"db"}, msg |-> {"db"}], {"bus", "sub"}, {"bus", "sub"})
Annotation     == Rows
ApiGatewayHooks == ServersLast(<<"pipeline", "stream", "otel">>)
ApiGateway     == Profile(<<"config", "otel", "pipeline", "authn", "stream">>,
                          ApiGatewayHooks,
                          [http |-> {"pipeline", "stream"}], {"authn", "stream"}, {})
AuditService   == Profile(<<"config", "otel", "db", "migrate", "bus", "sub">>,
                          ServersFirst(<<"otel", "db", "bus", "sub">>),
                          [http |-> {"db"}, msg |-> {"db"}], {}, {})
AuthProxy      == [Stateless(<<"config", "otel", "authn">>) EXCEPT !.optional = {"authn"}]
AutonomyHooks == ServersLast(<<"bus", "db", "scheduler", "otel">>)
Autonomy       == Profile(<<"otel", "db", "migrate", "bus", "sub", "scheduler">>,
                          AutonomyHooks,
                          [http |-> {"db"}, msg |-> {"db"}, tick |-> {"db"}], {"scheduler"}, {"sub"})
CanaryHooks == ServersLast(<<"bus", "db", "otel">>)
Canary         == Profile(<<"otel", "db", "migrate", "bus", "ticker">>, CanaryHooks,
                          [http |-> {"db", "bus"}, tick |-> {"db", "bus"}], {}, {})
Compliance     == Stateless(<<"otel">>)
Cost           == Rows
DataplaneRunner == Profile(<<"config", "otel", "bus", "sub">>, <<"runner", "health", "bus", "otel">>,
                           [msg |-> {"bus"}], {}, {})
Dataset        == Rows
DriftHooks == ServersLast(<<"bus", "db", "otel">>)
Drift          == Profile(<<"otel", "db", "migrate", "bus", "sub", "ticker">>, DriftHooks,
                          [http |-> {"db"}, msg |-> {"db"}, tick |-> {"db", "bus"}], {}, {"sub"})
EdgeGateway    == Profile(<<"otel", "queue", "forwarder">>, ServersLast(<<"forwarder", "otel">>),
                          [http |-> {"queue"}, tick |-> {"queue"}], {"forwarder"}, {})
EventService   == Profile(<<"otel", "embedded", "bus", "sub">>, ServersFirst(<<"otel", "embedded", "bus", "sub">>),
                          [http |-> {}, msg |-> {}], {"embedded"}, {})
GpuScheduler   == Stateless(<<"otel">>)
InferenceRouter == Profile(<<"otel", "bus">>, ServersLast(<<"bus", "otel">>), [http |-> {"bus"}], {"bus"}, {})
KnowledgeHooks == ServersLast(<<"db", "otel">>)
Knowledge      == [Rows EXCEPT !.hooks = KnowledgeHooks, !.boot = @ \o <<"ingest">>, !.lenient = {"ingest"}]
LlmGatewayHooks == ServersLast(<<"otel">>)
LlmGateway     == [Stateless(<<"config", "otel">>) EXCEPT !.hooks = LlmGatewayHooks]
Media          == Rows
Metering       == Profile(<<"otel", "db", "migrate", "bus", "sub", "ticker">>, <<"sub">> \o ServersLast(<<"db", "otel">>),
                          [http |-> {"db"}, msg |-> {}, tick |-> {"db"}], {"bus", "sub", "ticker"}, {})
ModelRegistry  == Profile(<<"otel", "db", "migrate", "grpc">>, <<"grpc", "health", "db", "otel">>,
                          [grpc |-> {"db"}], {}, {})
NlqHooks == ServersLast(<<"otel">>)
Nlq            == [Stateless(<<"otel">>) EXCEPT !.hooks = NlqHooks]
Notification   == Profile(<<"config", "otel", "db", "migrate", "bus", "sub">>,
                          ServersFirst(<<"otel", "db", "bus", "sub">>),
                          [http |-> {"db"}, msg |-> {"db", "bus"}], {}, {})
PipelineService == Profile(<<"otel", "grpc">>, <<"grpc", "health", "otel">>, [grpc |-> {}], {}, {})
PolicyGateSvcHooks == ServersLast(<<"bus", "db", "otel">>)
PolicyGateSvc  == Profile(<<"otel", "db", "migrate", "bus">>, PolicyGateSvcHooks,
                          [http |-> {"db", "bus"}], {}, {})
PrefetchHooks == ServersLast(<<"bus", "otel">>)
Prefetch       == Profile(<<"otel", "bus", "sub", "ticker">>, PrefetchHooks,
                          [http |-> {}, msg |-> {}, tick |-> {"bus"}], {}, {"sub"})
RealtimeHub    == Profile(<<"config", "otel", "bus", "sub">>, ServersFirst(<<"otel", "bus", "sub">>),
                          [http |-> {}, msg |-> {}], {}, {})
RuleEngine     == Profile(<<"config", "otel", "rules", "bus", "sub">>, ServersFirst(<<"otel", "bus", "sub">>),
                          [http |-> {}, msg |-> {"bus"}], {}, {"rules"})
SemanticSearch == Stateless(<<"otel">>)
ShadowHooks == ServersLast(<<"bus", "otel">>)
Shadow         == Profile(<<"otel", "bus", "sub", "ticker">>, ShadowHooks,
                          [http |-> {}, msg |-> {}, tick |-> {"bus"}], {}, {"sub"})
SloWatchdogHooks == ServersLast(<<"bus", "db", "otel">>)
SloWatchdog    == Profile(<<"config", "otel", "db", "migrate", "bus", "ticker">>, SloWatchdogHooks,
                          [http |-> {"db"}, tick |-> {"db", "bus"}], {}, {})
StreamManager  == Profile(<<"otel", "bus", "grpc">>, <<"grpc", "health", "bus", "otel">>,
                          [grpc |-> {"bus"}], {"bus"}, {})
TenantService  == Profile(<<"otel", "db", "migrate", "bus">>, ServersLast(<<"db", "bus", "otel">>),
                          [http |-> {"db", "bus"}], {"bus"}, {})
Training       == Rows

AllServices ==
  [active_learning |-> ActiveLearning, agent |-> AgentService, annotation |-> Annotation,
   api_gateway |-> ApiGateway, audit |-> AuditService, auth_proxy |-> AuthProxy,
   autonomy |-> Autonomy, canary |-> Canary, compliance |-> Compliance, cost |-> Cost,
   dataplane_runner |-> DataplaneRunner, dataset |-> Dataset, drift |-> Drift,
   edge |-> EdgeGateway, event |-> EventService, gpu |-> GpuScheduler,
   inference_router |-> InferenceRouter, knowledge |-> Knowledge, llm_gateway |-> LlmGateway,
   media |-> Media, metering |-> Metering, model_registry |-> ModelRegistry, nlq |-> Nlq,
   notification |-> Notification, pipeline |-> PipelineService, policy_gate |-> PolicyGateSvc,
   prefetch |-> Prefetch, realtime |-> RealtimeHub, rule_engine |-> RuleEngine,
   semantic |-> SemanticSearch, shadow |-> Shadow, slo |-> SloWatchdog,
   stream_manager |-> StreamManager, tenant |-> TenantService, training |-> Training]

=============================================================================
