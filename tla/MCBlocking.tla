----------------------------- MODULE MCBlocking -----------------------------
(* The blocking layer with one or two callers and a few calls each. *)
EXTENDS Blocking

CONSTANTS u, v

Does(calls, n) == [calls |-> calls, budget |-> n]
Idle == Does({}, 0)
Two(a, b) == [w \in {u, v} |-> IF w = u THEN a ELSE b]

\* One publishes and flushes, the other controls the layer.
Flow == Two(Does({"publish", "flush", "set_size"}, 3),
            Does({"pause", "resume", "start"}, 2))

\* One starts and stops, the other handles messages itself.
Halt == Two(Does({"start", "stop", "publish"}, 3),
            Does({"stop", "handle", "handle_nonblock"}, 3))

\* One is the dispatch loop, the other stops it.
Loop == Two(Does({"publish", "stop", "pause", "resume"}, 3), Does({"run"}, 1))

\* Everything one thread can call and come back from.
Solo == Two(Does(CallNames \ {"run", "handle"}, 3), Idle)

\* Both publish, pause and resume.
Talk == Two(Does({"publish", "pause", "resume"}, 2),
            Does({"publish", "pause", "resume"}, 2))

SafetyPrograms == {Flow, Halt}
LivePrograms   == {Loop, Solo, Talk}

\* The disagreements with the documentation.
AgainPrograms     == {Two(Does({"publish", "stop"}, 3), Idle)}
TwoFlushPrograms  == {Two(Does({"publish", "flush"}, 3), Does({"flush"}, 1))}
StopFlushPrograms == {Two(Does({"publish", "stop"}, 3), Does({"flush"}, 1))}
TryStopPrograms   == {Two(Does({"start", "try_stop", "stop"}, 4), Idle)}
=============================================================================
