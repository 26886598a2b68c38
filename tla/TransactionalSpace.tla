------------------------- MODULE TransactionalSpace -------------------------
(***************************************************************************)
(* What a PEPL space promises its host: a call into it either commits a    *)
(* state that satisfies every invariant or leaves the state alone.  Spec   *)
(* is the promise of the doc comments ("commit or rollback");              *)
(* SpecWithFaults also lets a call fail midway and leave any state, which  *)
(* is what the evaluator does when a statement traps.                      *)
(***************************************************************************)
CONSTANTS State,        \* valuations of the state fields
          Input,        \* valuations of what the host injects (credentials)
          Good(_, _)    \* Good(s, i): the invariants hold of s under i

VARIABLES st,       \* the state the host observes between calls
          inp,      \* the injected values
          verdict   \* how the last call ended, "running" while one runs

tvars == <<st, inp, verdict>>

TInit == st \in State /\ inp \in Input /\ verdict = "none"

Begin == /\ verdict # "running"
         /\ verdict' = "running"
         /\ UNCHANGED <<st, inp>>

Refuse == /\ verdict # "running"
          /\ verdict' = "rejected"
          /\ UNCHANGED <<st, inp>>

Commit == /\ verdict = "running"
          /\ \E s \in State : Good(s, inp) /\ st' = s
          /\ verdict' = "committed"
          /\ UNCHANGED inp

Rollback == /\ verdict = "running"
            /\ verdict' \in {"rolledback", "fault", "rendered"}
            /\ UNCHANGED <<st, inp>>

Inject == /\ verdict # "running"
          /\ inp' \in Input
          /\ verdict' = "none"
          /\ UNCHANGED st

Fault == /\ verdict = "running"
         /\ st' \in State
         /\ verdict' = "fault"
         /\ UNCHANGED inp

TNext == Begin \/ Refuse \/ Commit \/ Rollback \/ Inject

Spec == TInit /\ [][TNext]_tvars
SpecWithFaults == TInit /\ [][TNext \/ Fault]_tvars
=============================================================================
