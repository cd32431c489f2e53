--------------------------- MODULE MCRecogPipeline ---------------------------
(* Small instances of RecogPipeline.                                        *)
EXTENDS RecogPipeline, TLC

CONSTANTS ws, http, e1, e2

OneWs == {ws}
OneHttp == {http}
NoSession == {}
TwoExecutors == {e1, e2}

\* Bounds on the frames of the two sessions.
OneEach == [s \in Sessions |-> 1]
WsTwo == [s \in Sessions |-> IF s = ws THEN 2 ELSE 0]
WsOneHttpTwo == [s \in Sessions |-> IF s = ws THEN 1 ELSE 2]

\* The second frame of a session cannot be processed.
FirstFrames == {f \in Frames : f[2] = 1}

ExecutorSymmetry == Permutations(Executors)

=============================================================================
