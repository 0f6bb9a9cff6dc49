------------------------------ MODULE CoreLease ------------------------------
(***************************************************************************)
(* What the LocalSystem service promises about its core, with everything   *)
(* left out that a client cannot see: one core at a time, a claim on disk  *)
(* that says whose it is and is never given up while that core lives, and  *)
(* an answer "stopped" that is true for as long as it stands.  How the     *)
(* service gets there - which calls it makes, what it remembers, how it    *)
(* dies and comes back - is ServiceManager, which implements this module;  *)
(* PrivilegedKernel is a client of it.                                     *)
(***************************************************************************)
CONSTANTS
    Sessions,   \* session ids a client can ask for
    Pids,       \* process ids of the host
    None        \* no claim

VARIABLES
    cores,      \* the live cores the service answers for
    claim,      \* the session and PID recorded on disk
    stopped     \* the last answer was "stopped" and no operation has begun since

vars == <<cores, claim, stopped>>

Owner == [sid : Sessions, pid : Pids]

TypeOK ==
    /\ cores \in SUBSET Pids
    /\ claim \in Owner \cup {None}
    /\ stopped \in BOOLEAN

Init ==
    /\ cores = {}
    /\ claim = None
    /\ stopped = FALSE

\* A core starts only where none runs, and not behind an answer "stopped".
Launch(p) ==
    /\ ~stopped /\ cores = {}
    /\ cores' = {p}
    /\ UNCHANGED claim

\* A service that lost track of its core finds it again by the claim.
Adopt ==
    /\ ~stopped /\ cores = {} /\ claim # None
    /\ cores' = {claim.pid}
    /\ UNCHANGED claim

\* The core, which may be dead by then, is recorded as the session's.
Grant(s, p) ==
    /\ cores \subseteq {p}
    /\ claim' = [sid |-> s, pid |-> p]
    /\ UNCHANGED cores

\* Only the claim on a dead core is given up.
Revoke ==
    /\ claim # None /\ claim.pid \notin cores
    /\ claim' = None
    /\ UNCHANGED cores

\* The core exits, is stopped, or escapes the service.
Ended ==
    /\ cores # {} /\ cores' = {}
    /\ UNCHANGED claim

Answers == UNCHANGED <<cores, claim>>

Truthful == stopped' => cores' = {}

Next ==
    /\ Truthful
    /\ \/ \E p \in Pids : Launch(p)
       \/ \E s \in Sessions, p \in Pids : Grant(s, p)
       \/ Adopt \/ Revoke \/ Ended \/ Answers

Spec == Init /\ [][Next]_vars
=============================================================================
