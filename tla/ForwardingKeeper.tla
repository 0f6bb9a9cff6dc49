-------------------------- MODULE ForwardingKeeper --------------------------
(***************************************************************************)
(* The forwarding keeper of the LocalSystem service (forwarding.go) and    *)
(* the adapter and firewall settings of the host it drives                 *)
(* (forwarding_windows.go).                                                *)
(*                                                                         *)
(* While the GUI wants gateway mode, the keeper holds IPv4 forwarding on   *)
(* for the TUN adapter of the running core and for the LAN adapters, and   *)
(* one inbound firewall rule open for the core's executable.  Every        *)
(* operation holds the keeper's own mutex and re-applies the whole desired *)
(* state; the host changes underneath it between two operations.  What     *)
(* status reports (targets, lastErr) is recomputed by every call and is    *)
(* left out.                                                               *)
(***************************************************************************)
EXTENDS Naturals, FiniteSets

CONSTANTS
    Lans,       \* physical adapters of the host
    Tun,        \* the TUN adapter the core creates
    Programs,   \* executables a core may run from, one per version
    NoProgram,  \* the empty string of program and firewall
    MaxSlips    \* bound on the host calls that fail in one behaviour

VARIABLES
    desired,    \* keeper.desired: gateway mode is wanted
    lanProxy,   \* keeper.lanProxy: allow-lan is on
    program,    \* keeper.program, and keeper.device: set and cleared together,
                \* since a profile without a valid TUN device is never started
    managed,    \* keeper.managed: adapters the keeper switched on
    firewall,   \* keeper.firewall: the program it believes the rule allows
    usable,     \* LAN adapters up with a gateway, and the TUN adapter if it exists
    fwd,        \* adapters of the host that forward
    owed,       \* history: those this run of the service has switched on, not off
    rules,      \* programs the inbound rule of the service really allows
    slips       \* host calls that failed so far, at most MaxSlips

keeper == <<desired, lanProxy, program, managed, firewall>>
adapters == <<usable, fwd, owed>>
keeperVars == <<keeper, adapters, rules, slips>>

Adapters == Lans \cup {Tun}

KeeperTypeOK ==
    /\ desired \in BOOLEAN
    /\ lanProxy \in BOOLEAN
    /\ program \in Programs \cup {NoProgram}
    /\ managed \subseteq Adapters
    /\ firewall \in Programs \cup {NoProgram}
    /\ usable \subseteq Adapters
    /\ fwd \subseteq Lans \cup usable
    /\ owed \subseteq fwd
    /\ rules \subseteq Programs
    /\ slips \in 0 .. MaxSlips

KeeperInit ==
    /\ desired = FALSE
    /\ lanProxy = FALSE
    /\ program = NoProgram
    /\ managed = {}
    /\ firewall = NoProgram
    /\ usable = Lans
    /\ fwd = {}
    /\ owed = {}
    /\ rules = {}
    /\ slips = 0

-----------------------------------------------------------------------------

\* One operation calls the host several times; `failed` says whether any call
\* of it failed.
Slip(failed) ==
    /\ failed => slips < MaxSlips
    /\ slips' = slips + (IF failed THEN 1 ELSE 0)

\* Replacing the rule deletes the old one first.  A deletion that fails is
\* never noticed: netsh fails as well when there is nothing to delete.
SyncFirewall(want, fails) ==
    /\ firewall' = IF fails /\ want # NoProgram THEN firewall ELSE want
    /\ rules' = IF want = firewall THEN rules
                ELSE IF want # NoProgram THEN IF fails THEN {} ELSE {want}
                ELSE IF fails THEN rules ELSE {}

\* restoreLocked: what the keeper switched on and no longer wants goes off,
\* and is forgotten even when the call failed or the adapter is gone.
Restore(keep, bad) == fwd \ ((managed \ keep) \ bad)

\* What an operation of the keeper switches on it owes, until it is off again.
Owes == owed' = (owed \cap fwd') \cup (fwd' \ fwd)

Wanted == IF desired' /\ program' # NoProgram /\ Tun \in usable THEN usable ELSE {}

WantedProgram == IF desired' \/ lanProxy' THEN program' ELSE NoProgram

\* Mutant: what was switched on before is not kept.
SwitchedOnAnew(bad) == (Wanted \ fwd) \ bad

SwitchedOn(bad) == (managed \cap Wanted) \cup ((Wanted \ fwd) \ bad)

\* ensureLocked: called by every operation but ClearDevice, after it set the
\* fields it is about.
Ensure ==
    \E ruleFails, listFails \in BOOLEAN, bad \in SUBSET (managed \cup Wanted) :
        /\ ruleFails => WantedProgram # firewall
        /\ listFails => desired' /\ program' # NoProgram /\ bad = {}
        /\ Slip(ruleFails \/ listFails \/ bad # {})
        /\ SyncFirewall(WantedProgram, ruleFails)
        /\ IF listFails
           THEN UNCHANGED <<managed, fwd>>
           ELSE /\ fwd' = Restore(Wanted, bad) \cup (Wanted \ bad)
                /\ managed' = SwitchedOn(bad)
        /\ Owes
        /\ UNCHANGED usable

SetDevice(prog) ==
    /\ program' = prog
    /\ UNCHANGED <<desired, lanProxy>>
    /\ Ensure

SetDesired(on) ==
    /\ desired' = on
    /\ UNCHANGED <<lanProxy, program>>
    /\ Ensure

SetLANProxy(on) ==
    /\ lanProxy' = on
    /\ UNCHANGED <<desired, program>>
    /\ Ensure

\* Status re-applies the desired state as well.
KeeperStatus ==
    /\ UNCHANGED <<desired, lanProxy, program>>
    /\ Ensure

\* Mutant: the tick looks at the TUN adapter instead of what is managed.
TickWithTunOnly ==
    /\ Tun \in usable
    /\ UNCHANGED <<desired, lanProxy, program>>
    /\ Ensure

\* Mutant: the tick applies the desired state once only.
TickOnce ==
    /\ desired /\ managed = {}
    /\ UNCHANGED <<desired, lanProxy, program>>
    /\ Ensure

Tick ==
    /\ desired \/ managed # {}
    /\ UNCHANGED <<desired, lanProxy, program>>
    /\ Ensure

ClearDevice ==
    /\ program' = NoProgram
    /\ UNCHANGED <<desired, lanProxy, usable>>
    /\ \E ruleFails \in BOOLEAN, bad \in SUBSET managed :
          /\ ruleFails => firewall # NoProgram
          /\ Slip(ruleFails \/ bad # {})
          /\ fwd' = Restore({}, bad) /\ Owes
          /\ managed' = {}
          /\ SyncFirewall(NoProgram, ruleFails)

\* Mutant: the rule of an earlier run stays.
KeeperBootsKeepsRule ==
    UNCHANGED keeperVars

\* initialize: the rule of an earlier run is deleted, the keeper starts empty.
KeeperBoots ==
    /\ \E fails \in BOOLEAN : Slip(fails) /\ rules' = IF fails THEN rules ELSE {}
    /\ UNCHANGED <<keeper, adapters>>

\* The process ends: the host keeps its settings, the keeper is forgotten.
KeeperEnds ==
    /\ desired' = FALSE
    /\ lanProxy' = FALSE
    /\ program' = NoProgram
    /\ managed' = {}
    /\ firewall' = NoProgram
    /\ owed' = {}
    /\ UNCHANGED <<usable, fwd, rules, slips>>

-----------------------------------------------------------------------------
(* The host: a TUN adapter that appears does not forward; a LAN adapter      *)
(* keeps its flag while its cable is out; the user may switch it by hand.    *)

AdapterUp(a) ==
    /\ a \notin usable
    /\ usable' = usable \cup {a}
    /\ UNCHANGED <<keeper, fwd, owed, rules, slips>>

AdapterDown(a) ==
    /\ a \in usable
    /\ usable' = usable \ {a}
    /\ fwd' = IF a = Tun THEN fwd \ {Tun} ELSE fwd
    /\ owed' = owed \cap fwd'
    /\ UNCHANGED <<keeper, rules, slips>>

UserSwitches(a) ==
    /\ a \in Lans \cup usable
    /\ fwd' = IF a \in fwd THEN fwd \ {a} ELSE fwd \cup {a}
    /\ owed' = owed \ {a}
    /\ UNCHANGED <<keeper, usable, rules, slips>>

=============================================================================
