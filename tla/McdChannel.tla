---------------------------- MODULE McdChannel ----------------------------
(***************************************************************************)
(* What the hypervisor and the mcd daemon may assume of the ring between    *)
(* them: a request queue and a response queue, each first in first out,     *)
(* nothing lost, duplicated, changed or delivered twice.  McdRing implements*)
(* it with one array of slots that requests and responses share.            *)
(***************************************************************************)
EXTENDS Sequences

CONSTANT Request             \* what can be asked of the daemon

VARIABLES
    requests,                \* sent by the hypervisor, not yet taken
    serving,                 \* taken by the daemon, not yet disposed of
    responses                \* answered by the daemon, not yet accepted

vars == <<requests, serving, responses>>

Init ==
    /\ requests = <<>>
    /\ serving = <<>>
    /\ responses = <<>>

Send ==
    /\ \E r \in Request : requests' = Append(requests, r)
    /\ UNCHANGED <<serving, responses>>

Take ==
    /\ requests # <<>>
    /\ serving = <<>>
    /\ serving' = <<Head(requests)>>
    /\ requests' = Tail(requests)
    /\ UNCHANGED responses

\* The answer is the request itself, with its flags changed.
Answer ==
    /\ serving # <<>>
    /\ responses' = responses \o serving
    /\ serving' = <<>>
    /\ UNCHANGED requests

\* A request for more shared pages is not answered.
Forget ==
    /\ serving # <<>>
    /\ serving' = <<>>
    /\ UNCHANGED <<requests, responses>>

Accept ==
    /\ responses # <<>>
    /\ responses' = Tail(responses)
    /\ UNCHANGED <<requests, serving>>

\* Disabling the event channel drops whatever is still queued.
Drop ==
    /\ serving = <<>>
    /\ responses = <<>>
    /\ requests' = <<>>
    /\ UNCHANGED <<serving, responses>>

Next == Send \/ Take \/ Answer \/ Forget \/ Accept \/ Drop

Spec == Init /\ [][Next]_vars
===========================================================================
