------------------------------ MODULE Profiling ------------------------------
(***************************************************************************)
(* The parts of the library that share no state: the insertion order of a  *)
(* store, the analysis, an operation of an integration, a middleware, a    *)
(* captured response, the default profiler and the spans of a trace.  An   *)
(* execution of this module is one of one part; nothing would be added by  *)
(* interleaving them.                                                      *)
(***************************************************************************)
EXTENDS EntryOrder, Analysis, Operations, HandlerTiming, Lifecycle, OtelSpans

VARIABLE part  \* the part that is executed

vars == <<part, orderVars, analysisVars, operationVars, timingVars, lifecycleVars, spanVars>>

Parts == {"order", "analysis", "operation", "middleware", "response", "lifecycle", "spans"}

Init ==
    /\ part \in Parts
    /\ OrderInit
    /\ AnalysisInit /\ (part # "analysis" => scene = 1)
    /\ OperationInit /\ TimingInit /\ LifecycleInit /\ SpansInit
    /\ (part # "response" => \A limit \in BodyLimits : bodyLimit <= limit)

Ordering ==
    /\ part = "order" /\ OrderNext
    /\ UNCHANGED <<part, analysisVars, operationVars, timingVars, lifecycleVars, spanVars>>

Analyzing ==
    /\ part = "analysis" /\ AnalysisNext
    /\ UNCHANGED <<part, orderVars, operationVars, timingVars, lifecycleVars, spanVars>>

Operating ==
    /\ part = "operation" /\ OperationNext
    /\ UNCHANGED <<part, orderVars, analysisVars, timingVars, lifecycleVars, spanVars>>

Timing ==
    /\ part = "middleware" /\ MiddlewareNext
    /\ UNCHANGED <<part, orderVars, analysisVars, operationVars, lifecycleVars, spanVars>>

Responding ==
    /\ part = "response" /\ ResponseNext
    /\ UNCHANGED <<part, orderVars, analysisVars, operationVars, lifecycleVars, spanVars>>

StartingAndClosing ==
    /\ part = "lifecycle" /\ LifecycleNext
    /\ UNCHANGED <<part, orderVars, analysisVars, operationVars, timingVars, spanVars>>

Tracing ==
    /\ part = "spans" /\ SpansNext
    /\ UNCHANGED <<part, orderVars, analysisVars, operationVars, timingVars, lifecycleVars>>

Next ==
    \/ Ordering \/ Analyzing \/ Operating \/ Timing \/ Responding
    \/ StartingAndClosing \/ Tracing

Spec == Init /\ [][Next]_vars
=============================================================================
