--------------------------- MODULE OneShotAction ---------------------------
(***************************************************************************)
(* What the commit gate promises about each certified action, with no      *)
(* workers, databases or requests in sight: the action takes effect at     *)
(* most once, its one chance is used up by the reservation, and what the   *)
(* gate reports about it is never wrong.                                   *)
(***************************************************************************)
CONSTANT Actions

VARIABLES
    phase,   \* where the action's one chance to take effect is
    report   \* what the gate has recorded about it

shotVars == <<phase, report>>

Phases  == {"open", "reserved", "applied", "spent", "closed"}
Reports == {"none", "UNCERTAIN", "VERIFIED", "FAILED"}

ShotInit ==
    /\ phase = [a \in Actions |-> "open"]
    /\ report = [a \in Actions |-> "none"]

\* The chance moves only forward: it is taken up once, and then used or lost.
Moves == {<<"open", "reserved">>, <<"open", "closed">>,
          <<"reserved", "applied">>, <<"reserved", "spent">>}

Advance(a, to) ==
    /\ <<phase[a], to>> \in Moves
    /\ phase' = [phase EXCEPT ![a] = to]
    /\ UNCHANGED report

\* Success is reported only of an action that took effect, failure only of
\* one that no longer can; doubt may be reported from the reservation on.
Truthful(a, r) ==
    \/ r = "UNCERTAIN" /\ phase[a] \in {"reserved", "applied", "spent"}
    \/ r = "VERIFIED" /\ phase[a] = "applied"
    \/ r = "FAILED" /\ phase[a] = "spent"

Tell(a, r) ==
    /\ Truthful(a, r)
    /\ report' = [report EXCEPT ![a] = r]
    /\ UNCHANGED phase

ShotNext ==
    \E a \in Actions :
       \/ \E to \in Phases : Advance(a, to)
       \/ \E r \in Reports : Tell(a, r)

ShotSpec == ShotInit /\ [][ShotNext]_shotVars
=============================================================================
