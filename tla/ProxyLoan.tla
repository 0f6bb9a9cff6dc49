------------------------------- MODULE ProxyLoan -------------------------------
(***************************************************************************)
(* What the system proxy service promises about the user's proxy settings, *)
(* with everything left out that only the service sees: they are lent to   *)
(* Murge against a note that holds the user's own, the note is taken       *)
(* before the first value changes and torn up only when the user's values  *)
(* are back, and an answer "nothing points at the core" is true for as     *)
(* long as it stands.  A failed call or the death of the process is no     *)
(* step of the loan.  Which writes the service makes, in which order, and  *)
(* which bundle on disk still counts as a note, is SystemProxy, which      *)
(* implements this module.                                                 *)
(***************************************************************************)
CONSTANTS
    Values,     \* what the settings can hold
    Ours,       \* the values that point at Murge
    None        \* no note

VARIABLES
    value,      \* what they hold
    mine,       \* what the user would have them hold
    note,       \* what they are to be given back as
    told,       \* the last answer was that nothing points at the core
    trust       \* what is still promised: "exact", the values; "server", that
                \* Murge's server stands against a note; "none"

vars == <<value, mine, note, told, trust>>

Foreign(v) == v \notin Ours

Init ==
    /\ value \in Values /\ Foreign(value)
    /\ mine = value
    /\ note = None
    /\ told = FALSE
    /\ trust = "exact"

\* The note is taken while the settings are still the user's.
Borrow ==
    /\ note = None /\ value = mine
    /\ note' = mine
    /\ UNCHANGED <<value, mine>>

\* Only against a note do the settings become something else.
Use ==
    /\ note # None
    /\ value' \in Values
    /\ UNCHANGED <<mine, note>>

\* The note is torn up when the user's values are back.
Return ==
    /\ note # None /\ value = mine
    /\ note' = None
    /\ UNCHANGED <<value, mine>>

\* The user or another tool sets values of its own: the loan is over, or the
\* old note happens to hold these values.
Takeover ==
    \E v \in Values :
        /\ Foreign(v)
        /\ value' = v /\ mine' = v
        /\ note' \in {None, v}

Rests == UNCHANGED <<value, mine, note>>

Exactly == Borrow \/ Use \/ Return \/ Takeover \/ Rests

\* All that is promised once values of the user are lost: Murge's server comes
\* in only against a note, stays only while there is one, and no note names it.
Guarded ==
    /\ Foreign(value) /\ ~Foreign(value') => note # None
    /\ note' = None => Foreign(value')
    /\ note' # None => Foreign(note')

Truthful == told' => Foreign(value')

Next ==
    \/ trust = "exact" /\ trust' = "exact" /\ Exactly /\ Truthful
    \/ trust # "none" /\ trust' = "server" /\ Guarded /\ Truthful
    \/ trust' = "none"

Spec == Init /\ [][Next]_vars

\* What a reader of the settings may rely on: without a note they are the
\* user's, and a note holds nothing else.
Solvent ==
    /\ trust = "exact" => /\ Foreign(mine)
                          /\ note = None => value = mine
                          /\ note # None => note = mine
    /\ trust # "none" => /\ note = None => Foreign(value)
                         /\ told => Foreign(value)
=============================================================================
