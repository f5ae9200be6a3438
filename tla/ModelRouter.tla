----------------------------- MODULE ModelRouter -----------------------------
(***************************************************************************)
(* ModelRouter.route (src/model_router.py): the providers of a policy are  *)
(* called in order, each of them retry_count + 1 times, until one answers  *)
(* or a failure may not be passed over.  outcome[p][a] is what attempt a   *)
(* of provider p comes to: "answer", "timeout" or "error".                 *)
(***************************************************************************)
EXTENDS Integers, SequencesExt

\* _call_provider: a provider set to fail raises, a mock slower than its time-out times out,
\* and a real provider raises for want of a key or of its package.
CallProvider(provider) ==
  IF provider.fail THEN "error"
  ELSE IF provider.is_mock
  THEN IF provider.delay > provider.timeout THEN "timeout" ELSE "answer"
  ELSE provider.api

Attempts(policy) == policy.retry_count + 1

\* The calls in the order of the two loops.
SlipCalls(policy) ==
  FlattenSeq([p \in DOMAIN policy.providers |->
               [a \in 1 .. policy.retry_count |-> [provider |-> p, attempt |-> a]]])
Calls(policy) ==
  FlattenSeq([p \in DOMAIN policy.providers |->
               [a \in 1 .. Attempts(policy) |-> [provider |-> p, attempt |-> a]]])

Fatal(policy, result) ==
  \/ result = "timeout" /\ ~policy.fallback_on_timeout
  \/ result = "error" /\ ~policy.fallback_on_error

\* The loops as a state: the providers attempted, the last failure, and how it ended.
Begin == [attempted |-> <<>>, from |-> 0, error |-> "none", end |-> "running", by |-> 0]

Attempt(policy, outcome, s, call) ==
  LET result == outcome[call.provider][call.attempt]
      tried == [s EXCEPT !.attempted = Append(@, call.provider)]
  IN  IF s.end # "running" THEN s
      ELSE IF result = "answer" THEN [tried EXCEPT !.end = "answered", !.by = call.provider]
      ELSE [tried EXCEPT !.from = call.provider, !.error = result,
                         !.end = IF Fatal(policy, result) THEN "raised" ELSE "running"]

\* The response, the failure passed on, or a ModelRoutingError with the providers attempted and
\* the last failure.
Route(policy, outcome) ==
  LET s == FoldLeft(LAMBDA t, call : Attempt(policy, outcome, t, call), Begin, Calls(policy))
      fallback == s.by > 1
  IN  CASE s.end = "answered" ->
             [end |-> "answered", by |-> s.by, attempted |-> s.attempted, was_fallback |-> fallback,
              fallback_from |-> IF fallback THEN s.from ELSE 0,
              fallback_error |-> IF fallback THEN s.error ELSE "none"]
        [] s.end = "raised" -> [end |-> "raised", error |-> s.error, attempted |-> s.attempted]
        [] OTHER -> [end |-> "routing_error", error |-> s.error, attempted |-> s.attempted]
=============================================================================
