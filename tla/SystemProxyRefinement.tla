-------------------------- MODULE SystemProxyRefinement --------------------------
(* The system proxy service implements ProxyLoan, for any listeners, servers, *)
(* failed calls, deaths and writes of other programs: its first state is a    *)
(* first state of the loan, and each of its steps is a step of the loan or    *)
(* leaves alone what the loan is about.                                       *)
EXTENDS SystemProxyProofs

Trust == IF excuses = {} THEN "exact" ELSE IF "raced" \notin excuses THEN "server" ELSE "none"
Told  == answer = "safe"

\* The settings as the loan has them: the values of Murge among them.
Murges == {r \in Registry : Server(r) \in Targets}

-----------------------------------------------------------------------------
(* What a bundle that counts as a note says. *)

LEMMA Foreigners == ASSUME NEW r \in Registry PROVE r \notin Murges <=> Foreign(r)
  BY DEF Murges, Foreign

\* An exact loan: the note holds the user's values, without one they are in force.
ExactNote ==
    /\ Note = None => reg = user
    /\ Note # None => Note = user
    /\ backup # None /\ backup.previous = user /\ reg = user => Note = user

LEMMA Exact == Typed /\ UserFacts => ExactNote
  <1> SUFFICES ASSUME Typed, UserFacts PROVE ExactNote
    OBVIOUS
  <1>1. user # None
    BY NoneAssumption DEF Typed, ProxyTypeOK
  <1>2. backup # None /\ pc \in Keys => backup.previous = user
    BY DEF UserFacts, Works
  <1>3. backup # None /\ direct \in Keys => backup.previous = user
    BY DEF UserFacts, DWorks
  <1>4. backup # None /\ CanRestore(reg, backup) => backup.previous = user
    BY DEF UserFacts
  <1>5. Note # None => Note = user
    BY <1>2, <1>3, <1>4 DEF Note
  <1>6. Note = None => reg = user
    BY <1>1, <1>2, <1>3, <1>4 DEF Note, UserFacts
  <1>7. backup # None /\ backup.previous = user /\ reg = user => Note = user
    BY DEF Note, CanRestore
  <1> QED
    BY <1>5, <1>6, <1>7 DEF ExactNote

LEMMA ExactNext == Typed' /\ UserFacts' => ExactNote'
  BY Exact, PTL

\* A guarded loan: Murge's server stands against a note, and none names it.
GuardedNote ==
    /\ Note = None => Foreign(reg)
    /\ Note # None => Note \in Registry /\ Foreign(Note)
    /\ Told => Foreign(reg)

LEMMA Guards == Typed /\ ServerFacts => GuardedNote
  <1> SUFFICES ASSUME Typed, ServerFacts PROVE GuardedNote
    OBVIOUS
  <1>1. backup # None => backup.previous \in Registry /\ Foreign(backup.previous)
    BY BundleParts DEF Typed, ProxyTypeOK, ServerFacts
  <1>2. backup # None => backup.previous # None
    BY <1>1, NoneAssumption
  <1>3. ~Foreign(reg) => Note # None
    BY <1>2 DEF ServerFacts, CanRestore, Note
  <1>4. Note # None => Note \in Registry /\ Foreign(Note)
    BY <1>1 DEF Note
  <1>5. Told => Foreign(reg)
    BY DEF Told, ServerFacts
  <1> QED
    BY <1>3, <1>4, <1>5 DEF GuardedNote

LEMMA GuardsNext == Typed' /\ ServerFacts' => GuardedNote'
  BY Guards, PTL

\* While somebody writes, a bundle on disk is a note.
LEMMA WritersNote ==
    ASSUME Typed, backup # None, pc \in Keys \/ direct \in Keys
    PROVE  Note # None /\ Note = backup.previous
  BY BundleParts, NoneAssumption DEF Typed, ProxyTypeOK, Note

-----------------------------------------------------------------------------
(* What each kind of write does to the loan. *)

LEMMA RestsStep ==
    ASSUME ExactNote, ExactNote', UNCHANGED registry
    PROVE  Loan!Exactly
  <1>1. reg' = reg /\ user' = user
    BY DEF registry
  <1>2. (Note = None /\ reg = user) \/ (Note # None /\ Note = user)
    BY DEF ExactNote
  <1>3. (Note' = None /\ reg = user) \/ (Note' # None /\ Note' = user)
    BY <1>1 DEF ExactNote
  <1> QED
    BY <1>1, <1>2, <1>3 DEF Loan!Exactly, Loan!Borrow, Loan!Return, Loan!Rests

\* A value is written, by the operation in the queue or the session-end thread.
LEMMA WriteStep ==
    ASSUME Typed, UserFacts, Typed', UserFacts', ExactNote, ExactNote',
           backup' = backup, user' = user, pc \in Keys \/ direct \in Keys
    PROVE  Loan!Exactly
  <1>1. CASE backup = None
    <2>1. reg = user /\ reg' = user'
      BY <1>1 DEF UserFacts
    <2>2. Note = None /\ Note' = None
      BY <1>1 DEF Note
    <2> QED
      BY <2>1, <2>2 DEF Loan!Exactly, Loan!Rests
  <1>2. CASE backup # None
    <2>1. Note # None /\ Note = user /\ backup.previous = user
      BY <1>2, WritersNote DEF ExactNote
    <2>2. Note' = user
      BY <1>2, <2>1 DEF ExactNote
    <2>3. reg' \in Registry
      BY DEF Typed, ProxyTypeOK
    <2> QED
      BY <2>1, <2>2, <2>3 DEF Loan!Exactly, Loan!Use
  <1> QED
    BY <1>1, <1>2

LEMMA TakeoverStep ==
    ASSUME ExactNote', NEW r \in Registry, Takeover(r)
    PROVE  Loan!Exactly
  <1>1. reg' = r /\ user' = r /\ r \notin Murges
    BY Foreigners, Servers DEF Takeover, Foreign
  <1>2. Note' \in {None, r}
    BY <1>1 DEF ExactNote
  <1> QED
    BY <1>1, <1>2 DEF Loan!Exactly, Loan!Takeover, Loan!Foreign, Murges

LEMMA SweepStep ==
    ASSUME Typed, ServerFacts, NEW r \in Registry, Sweep(r)
    PROVE  Loan!Exactly
  <1>1. reg' = r /\ user' = user /\ backup' = backup /\ Server(reg) = Server(r) /\ ~Foreign(reg)
    BY DEF Sweep, disk, Foreign
  <1>2. backup # None /\ backup.target = Server(reg)
    BY <1>1 DEF ServerFacts
  <1>3. Note = backup.previous /\ Note' = backup.previous
    BY <1>1, <1>2 DEF Note, CanRestore
  <1>4. Note # None
    BY <1>2, <1>3, BundleParts, NoneAssumption DEF Typed, ProxyTypeOK
  <1> QED
    BY <1>1, <1>3, <1>4 DEF Loan!Exactly, Loan!Use

LEMMA ExactStep ==
    ASSUME Typed, ServerFacts, UserFacts, Typed', UserFacts', [Next]_vars
    PROVE  Loan!Exactly
  <1>0. ExactNote /\ ExactNote'
    BY Exact, ExactNext
  <1>1. CASE UNCHANGED registry
    BY <1>0, <1>1, RestsStep
  <1>2. CASE WriteValue
    BY <1>0, <1>2, WriteStep DEF WriteValue, disk
  <1>3. CASE DirectWrites
    BY <1>0, <1>3, WriteStep DEF DirectWrites, disk
  <1>4. ASSUME NEW r \in Registry, Takeover(r) \/ Sweep(r) PROVE Loan!Exactly
    BY <1>0, <1>4, TakeoverStep, SweepStep
  <1> QED
    BY <1>1, <1>2, <1>3, <1>4, RegistryMoves

\* Murge's server is written only by an operation whose bundle is on disk.
LEMMA GuardedStep ==
    ASSUME Typed, ServerFacts, Typed', ServerFacts', [Next]_vars
    PROVE  Loan!Guarded /\ Loan!Truthful
  <1>1. reg \in Registry /\ reg' \in Registry /\ GuardedNote'
    BY GuardsNext DEF Typed, ProxyTypeOK
  <1>2. ASSUME Foreign(reg), ~Foreign(reg') PROVE Note # None
    <2>1. CASE UNCHANGED registry
      BY <1>2, <2>1 DEF registry
    <2>2. CASE WriteValue \/ DirectWrites
      <3>1. backup' = backup /\ (pc \in Keys \/ direct \in Keys)
        BY <2>2 DEF WriteValue, DirectWrites, disk
      <3>2. backup # None
        BY <1>2, <3>1 DEF ServerFacts, Foreign
      <3> QED
        BY <3>1, <3>2, WritersNote
    <2>3. ASSUME NEW r \in Registry, Takeover(r) \/ Sweep(r) PROVE FALSE
      BY <1>2, <2>3, Servers DEF Takeover, Sweep, Foreign
    <2> QED
      BY <2>1, <2>2, <2>3, RegistryMoves
  <1>3. /\ Note' = None => Foreign(reg')
        /\ Note' # None => Note' \in Registry /\ Foreign(Note')
        /\ Told' => Foreign(reg')
    BY <1>1 DEF GuardedNote, Foreign, Server
  <1>4. Loan!Guarded
    BY <1>1, <1>2, <1>3, Foreigners DEF Loan!Guarded, Loan!Foreign, Murges
  <1>5. Loan!Truthful
    BY <1>1, <1>3, Foreigners DEF Loan!Truthful, Loan!Foreign, Murges, Told
  <1> QED
    BY <1>4, <1>5

-----------------------------------------------------------------------------
(* The refinement. *)

LEMMA LoanInit == Init => Loan!Init
  <1> SUFFICES ASSUME Init PROVE Loan!Init
    OBVIOUS
  <1>1. reg \in Registry /\ user = reg /\ Foreign(reg) /\ Note = None
    BY Servers DEF Init, Note, Foreign
  <1> QED
    BY <1>1 DEF Init, Loan!Init, Loan!Foreign, Foreign

LEMMA LoanStep == Inv /\ Inv' /\ [Next]_vars => [Loan!Next]_(Loan!vars)
  <1> SUFFICES ASSUME Inv, Inv', [Next]_vars
               PROVE  Loan!Next
    OBVIOUS
  <1>1. Typed /\ Typed' /\ excuses \subseteq excuses'
    BY ExcusesGrow DEF Inv
  <1>2. ASSUME "raced" \notin excuses' PROVE ServerFacts /\ Loan!Guarded /\ Loan!Truthful
    <2>1. ServerFacts /\ ServerFacts'
      BY <1>1, <1>2 DEF Inv
    <2> QED
      BY <1>1, <2>1, GuardedStep
  <1>3. CASE Trust' = "exact"
    <2>1. excuses' = {} /\ excuses = {}
      BY <1>1, <1>3 DEF Trust
    <2>2. Loan!Exactly
      BY <1>1, <1>2, <2>1, ExactStep DEF Inv
    <2> QED
      BY <1>2, <2>1, <2>2 DEF Loan!Next
  <1>4. CASE Trust' = "server"
    <2>1. excuses' # {} /\ "raced" \notin excuses' /\ "raced" \notin excuses
      BY <1>1, <1>4 DEF Trust
    <2> QED
      BY <1>2, <2>1 DEF Loan!Next
  <1>5. CASE Trust' = "none"
    BY <1>5 DEF Loan!Next, Trust
  <1> QED
    BY <1>3, <1>4, <1>5 DEF Trust

\* Whatever fails, dies or is written by others, the service keeps the loan.
THEOREM LoanIsKept == Spec => ImplementsLoan
  BY Invariance, LoanInit, LoanStep, PTL DEF Spec, ImplementsLoan, Loan!Spec

-----------------------------------------------------------------------------
(* What the loan is good for. *)

\* Loan!Solvent, with the values of the loan under their names.
Settled ==
    /\ Trust = "exact" => /\ Loan!Foreign(user)
                          /\ Note = None => reg = user
                          /\ Note # None => Note = user
    /\ Trust # "none" => (Note = None => Loan!Foreign(reg)) /\ (Told => Loan!Foreign(reg))

LEMMA SolventIsSettled == Loan!Solvent <=> Settled
  BY DEF Loan!Solvent, Settled, Trust, Told

LEMMA SettledStep == Settled /\ [Loan!Next]_(Loan!vars) => Settled'
  <1> SUFFICES ASSUME Settled, [Loan!Next]_(Loan!vars) PROVE Settled'
    OBVIOUS
  <1>1. CASE UNCHANGED Loan!vars
    <2>1. reg' = reg /\ user' = user /\ Note' = Note /\ Trust' = Trust
      BY <1>1 DEF Loan!vars, Trust
    <2>2. Told' => Told
      BY <1>1 DEF Loan!vars, Told
    <2> QED
      BY <2>1, <2>2 DEF Settled, Loan!Foreign
  <1>2. ASSUME Loan!Truthful PROVE Told' => Loan!Foreign(reg')
    BY <1>2 DEF Loan!Truthful, Told
  <1>3. CASE Trust = "exact" /\ Loan!Exactly /\ Loan!Truthful
    <2>1. /\ Loan!Foreign(user')
          /\ Note' = None => reg' = user'
          /\ Note' # None => Note' = user'
      BY <1>3 DEF Settled, Loan!Exactly, Loan!Borrow, Loan!Use, Loan!Return, Loan!Takeover, Loan!Rests
    <2> QED
      BY <1>2, <1>3, <2>1 DEF Settled, Loan!Foreign
  <1>4. CASE Trust' = "server" /\ Loan!Guarded /\ Loan!Truthful
    BY <1>2, <1>4 DEF Settled, Loan!Guarded, Loan!Foreign
  <1>5. CASE Trust' = "none"
    BY <1>5 DEF Settled
  <1>6. Loan!Next => \/ Trust = "exact" /\ Loan!Exactly /\ Loan!Truthful
                     \/ Trust' = "server" /\ Loan!Guarded /\ Loan!Truthful
                     \/ Trust' = "none"
    BY DEF Loan!Next, Trust
  <1> QED
    BY <1>1, <1>3, <1>4, <1>5, <1>6

\* Every behaviour of the loan: without a note the settings are the user's, a note
\* holds nothing else, and Murge's server never stands without one.
THEOREM LoanIsSolvent == Loan!Spec => []Loan!Solvent
  <1>1. Loan!Init => Settled
    BY DEF Loan!Init, Settled, Trust, Told
  <1> QED
    BY <1>1, SettledStep, SolventIsSettled, PTL DEF Loan!Spec
=============================================================================
