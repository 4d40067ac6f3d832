---------------------------- MODULE MCPromQueries ----------------------------
(* A Docker host's series, one of a pod with a collector that names the     *)
(* container and one of a pod with a collector that does not yet; calls     *)
(* whose argument is a whole name, a part of one, nothing, and a name with  *)
(* a dash and with a dot, where a dot of a pattern could match a dash.      *)
EXTENDS PromQueries

MCLabels == <<"container_name", "k8s_pod_name", "k8s_namespace_name">>

Grafana == <<"grafana">>
Agent == <<"otel", "-", "agent">>
AgentPod == <<"otel", "-", "agent", "-", "qsm7c">>
Dotted == <<"otel", ".", "agent">>
Cortex == <<"cortex">>

MCSeries == {
    "container_name" :> Grafana,
    [l \in Range(MCLabels) |-> IF l = "k8s_namespace_name" THEN Cortex ELSE AgentPod],
    "k8s_pod_name" :> Agent @@ "k8s_namespace_name" :> Cortex}

Ask(m, w, s) == [tool |-> "query", mode |-> m, workload |-> w, start |-> s]

MCRequests == {
    Ask("exact", Agent, "whole"), Ask("exact", <<>>, "whole"), Ask("substring", Agent, "whole"),
    Ask("substring", <<"agent">>, "whole"), Ask("substring", <<>>, "whole"),
    Ask("substring", Dotted, "whole"), Ask("substring", <<"agent">>, "fraction"),
    Ask("other", Agent, "whole"),
    [Ask("exact", <<>>, "whole") EXCEPT !.tool = "list"]}
=============================================================================
