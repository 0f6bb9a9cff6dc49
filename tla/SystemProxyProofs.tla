-------------------------- MODULE SystemProxyProofs --------------------------
(* The borrowed system proxy, for any listeners, servers, failed calls,      *)
(* deaths and writes of other programs: its types, that it is given back     *)
(* exactly, and that no core is stopped behind it.                           *)
EXTENDS SystemProxy, TLAPS

-----------------------------------------------------------------------------
(* The strengthening. *)

\* The operation in the queue writes or reads back; it also saves or deletes.
Works  == pc \in Keys \cup {"check"}
Holds  == Works \/ pc \in {"persist", "delete"}
\* The session-end thread writes or reads back; it also deletes.
DWorks == direct \in Keys \cup {"check"}
DHolds == DWorks \/ direct = "delete"
\* The operation writes Murge's own values, or is about to.
Applies == task = "apply" /\ (Works \/ pc = "persist")

Matches(b) == Server(b.written) = b.target

\* What goes with the place an operation is at.
Shaped ==
    /\ pc \in {"probe", "snapshot"} => op \in Enabling
    /\ pc = "snapshot" \/ (Holds /\ task = "stale") => target \in Targets
    /\ pc = "persist" => op \in Enabling \cup {"bypass"} /\ task = "apply"
    /\ Holds =>
         /\ bundle \in Bundles /\ Matches(bundle)
         /\ \/ task = "apply" /\ op \in Enabling \cup {"verify", "bypass"} /\ pc # "delete"
            \/ task \in {"stale", "rollback"} /\ op \in Enabling
            \/ task = "restore" /\ op \in {"init", "kernel", "disable", "netdown"}
    /\ backup # None => Matches(backup)
    /\ DHolds => dbundle \in Bundles
    /\ direct # "off" => "session" \in fence
    /\ answer = "safe" => pc = "idle"
    /\ Server(user) \in Others

Typed == ProxyTypeOK /\ Shaped

\* The server is Murge's only while a bundle of that listener is on disk, and
\* no bundle gives it back to Murge.
Foreign(r) == Server(r) \notin Targets

ServerFacts ==
    /\ Foreign(reg) \/ (backup # None /\ backup.target = Server(reg))
    /\ backup # None => Foreign(backup.previous)
    /\ Holds => Foreign(bundle.previous)
    /\ DHolds => Foreign(dbundle.previous)
    /\ Applies => ~DirectActive
    /\ Works /\ task = "apply" => backup = bundle
    /\ pc = "persist" /\ op = "bypass" => backup # None /\ bundle.target = backup.target
    /\ pc = "persist" /\ op \in Enabling => Foreign(reg)
    /\ pc \in {"snapshot", "delete"} \/ direct = "delete" \/ answer = "safe" => Foreign(reg)

\* The values of r before place p of a sequence of writes are those of g.
Wrote(r, p, g) ==
    /\ p \in {"ProxyServer", "ProxyOverride", "check"} => r.ProxyEnable = g.ProxyEnable
    /\ p \in {"ProxyOverride", "check"} => r.ProxyServer = g.ProxyServer
    /\ p = "check" => r.ProxyOverride = g.ProxyOverride

\* A bundle that will be restored holds the user's values, and where none will
\* be the registry does.
UserFacts ==
    /\ backup = None => reg = user
    /\ backup # None /\ CanRestore(reg, backup) => backup.previous = user
    /\ backup # None /\ ~CanRestore(reg, backup) =>
           reg = user \/ pc \in Keys \/ direct \in Keys
    /\ Works \/ pc = "persist" => bundle.previous = user
    /\ Works => Wrote(reg, pc, Goal) /\ (backup = None \/ backup = bundle)
    /\ DWorks => /\ dbundle.previous = user
                 /\ Wrote(reg, direct, user)
                 /\ backup = None \/ backup = dbundle
    /\ pc \in {"snapshot", "delete"} \/ direct = "delete" => reg = user
    /\ pc = "persist" /\ op \in Enabling => reg = user
    /\ pc = "persist" /\ op = "bypass" => reg = backup.written
    /\ Works /\ op \in {"verify", "bypass"} => Server(reg) = bundle.target
    /\ direct = "done" /\ faults = 0 => Foreign(reg) /\ ~Applies

Inv ==
    /\ Typed
    /\ "raced" \notin excuses => ServerFacts
    /\ excuses = {} => UserFacts

-----------------------------------------------------------------------------
(* Registries and bundles. *)

LEMMA Values ==
    ASSUME NEW r \in Registry, NEW g \in Registry, NEW k \in Keys
    PROVE  /\ [r EXCEPT ![k] = g[k]] \in Registry
           /\ [r EXCEPT ![k] = g[k]].ProxyEnable =
                 IF k = "ProxyEnable" THEN g.ProxyEnable ELSE r.ProxyEnable
           /\ [r EXCEPT ![k] = g[k]].ProxyServer =
                 IF k = "ProxyServer" THEN g.ProxyServer ELSE r.ProxyServer
           /\ [r EXCEPT ![k] = g[k]].ProxyOverride =
                 IF k = "ProxyOverride" THEN g.ProxyOverride ELSE r.ProxyOverride
  <1>1. CASE k = "ProxyEnable"
    BY <1>1 DEF Registry
  <1>2. CASE k = "ProxyServer"
    BY <1>2 DEF Registry
  <1>3. CASE k = "ProxyOverride"
    BY <1>3 DEF Registry
  <1> QED
    BY <1>1, <1>2, <1>3 DEF Keys

LEMMA SameValues ==
    ASSUME NEW r \in Registry, NEW g \in Registry,
           r.ProxyEnable = g.ProxyEnable, r.ProxyServer = g.ProxyServer,
           r.ProxyOverride = g.ProxyOverride
    PROVE  r = g
  BY DEF Registry

LEMMA Servers ==
    ASSUME NEW r \in Registry
    PROVE  /\ Server(r) = r.ProxyServer
           /\ Server(r) \in Others <=> Server(r) \notin Targets
  BY ServersAssumption DEF Registry, Server

LEMMA BundleParts ==
    ASSUME NEW b \in Bundles
    PROVE  b # None /\ b.target \in Targets /\ b.previous \in Registry /\ b.written \in Registry
  BY NoneAssumption DEF Bundles

LEMMA WrittenIs ==
    ASSUME NEW t \in Targets, NEW r \in Registry, NEW e \in BOOLEAN
    PROVE  Written(t, r, e) \in Registry /\ Server(Written(t, r, e)) = t
  BY DEF Written, Resolve, Registry, Server

LEMMA NewBundle ==
    ASSUME NEW t \in Targets, NEW r \in Registry, NEW q \in Registry, NEW e \in BOOLEAN
    PROVE  LET b == [target |-> t, previous |-> q, written |-> Written(t, r, e)]
           IN  /\ b \in Bundles /\ Matches(b)
               /\ b.target = t /\ b.previous = q /\ b.written = Written(t, r, e)
  BY WrittenIs DEF Bundles, Matches

LEMMA EditedBundle ==
    ASSUME NEW b \in Bundles, NEW e \in BOOLEAN
    PROVE  LET w == Written(b.target, b.previous, e)
               c == [b EXCEPT !.written = w]
           IN  c \in Bundles /\ Matches(c) /\ c.target = b.target /\ c.previous = b.previous
  <1>1. Written(b.target, b.previous, e) \in Registry /\ Server(Written(b.target, b.previous, e)) = b.target
    BY BundleParts, WrittenIs
  <1> QED
    BY <1>1 DEF Bundles, Matches

-----------------------------------------------------------------------------
(* Types. *)

LEMMA InitTyped == Init => Typed
  <1> SUFFICES ASSUME Init PROVE Typed
    OBVIOUS
  <1>a. reg \in Registry /\ user \in Registry /\ Server(user) \in Others
    BY DEF Init
  <1>b. faults \in 0..MaxFaults /\ edits \in 0..MaxEdits
    BY BoundsAssumption DEF Init
  <1>1. ProxyTypeOK
    BY <1>a, <1>b DEF Init, ProxyTypeOK
  <1>2. Shaped
    BY <1>a DEF Init, Shaped, Holds, Works, DHolds, DWorks, Keys
  <1> QED
    BY <1>1, <1>2 DEF Typed

LEMMA FaultTyped ==
    ASSUME Typed, Fault \/ UNCHANGED bounds \/ Edit
    PROVE  faults' \in 0..MaxFaults /\ edits' \in 0..MaxEdits
  BY BoundsAssumption DEF Typed, ProxyTypeOK, Fault, Edit, bounds

\* The place an operation reaches decides what there is to know.
LEMMA EndTyped ==
    ASSUME Typed, NEW p, NEW told, Done(p, told),
           p \in {"disabled", "enabling", "enabled", "restoring", "restore-failed", "conflict"},
           told \in {"none", "safe", "unsafe"},
           UNCHANGED registry, UNCHANGED thread, UNCHANGED fence,
           backup' \in {backup, None}, policy' \in BOOLEAN, alive' \in BOOLEAN,
           recovering' \in BOOLEAN, resume' \in BOOLEAN, admitted' \in BOOLEAN,
           faults' \in 0..MaxFaults, edits' \in 0..MaxEdits,
           excuses' \subseteq {"torn", "contended", "clobbered", "raced"}
    PROVE  Typed'
  BY DEF Typed, ProxyTypeOK, Shaped, Done, registry, thread, Holds, Works, DHolds, DWorks, Keys, Matches

LEMMA WritesTyped ==
    ASSUME Typed, NEW o, NEW t, NEW p, Writes(o, t, backup, p), backup # None,
           \/ t = "apply" /\ o \in Enabling \cup {"verify", "bypass"}
           \/ t = "stale" /\ o \in Enabling /\ target' \in Targets
           \/ t = "restore" /\ o \in {"init", "kernel", "disable", "netdown"},
           p \in {"disabled", "enabling", "enabled", "restoring", "restore-failed", "conflict"},
           target' \in Targets \cup {None},
           UNCHANGED <<registry, disk, process, thread, fence, bounds>>,
           resume' \in BOOLEAN, admitted' \in BOOLEAN,
           excuses' \subseteq {"torn", "contended", "clobbered", "raced"}
    PROVE  Typed'
  BY DEF Typed, ProxyTypeOK, Shaped, Writes, registry, disk, process, thread, bounds,
         Holds, Works, DHolds, DWorks, Keys, Matches, Ops, Enabling

LEMMA RecoveryTyped ==
    ASSUME Typed, InitNothing \/ InitRestores \/ InitDrops \/ InitConflict
    PROVE  Typed'
  <1> USE FaultTyped DEF process, fences
  <1>0. ProxyTypeOK
    BY DEF Typed
  <1>1. CASE InitNothing
    BY <1>0, <1>1, EndTyped DEF InitNothing, disk, ProxyTypeOK
  <1>2. CASE InitRestores
    BY <1>0, <1>2, WritesTyped DEF InitRestores, ProxyTypeOK, bounds
  <1>3. CASE InitDrops
    BY <1>0, <1>3, EndTyped DEF InitDrops, Excuse, ProxyTypeOK, bounds
  <1>4. CASE InitConflict
    BY <1>0, <1>4, EndTyped DEF InitConflict, disk, ProxyTypeOK
  <1> QED
    BY <1>1, <1>2, <1>3, <1>4

LEMMA RequestsTyped ==
    ASSUME Typed, Requests \/ Verify
    PROVE  Typed'
  <1> USE FaultTyped DEF process, fences
  <1>0. ProxyTypeOK
    BY DEF Typed
  <1>1. CASE KernelReadFails
    BY <1>0, <1>1, EndTyped DEF KernelReadFails, disk, ProxyTypeOK
  <1>2. CASE KernelNothing
    BY <1>0, <1>2, EndTyped DEF KernelNothing, disk, ProxyTypeOK
  <1>3. CASE KernelConflict
    BY <1>0, <1>3, EndTyped DEF KernelConflict, disk, ProxyTypeOK
  <1>4. CASE KernelRestores
    BY <1>0, <1>4, WritesTyped DEF KernelRestores, ProxyTypeOK
  <1>5. CASE DisableNothing
    BY <1>0, <1>5, EndTyped DEF DisableNothing, Takes, disk, ProxyTypeOK
  <1>6. CASE DisableRestores
    BY <1>0, <1>6, WritesTyped DEF DisableRestores, Takes, Excuse, ProxyTypeOK
  <1>7. CASE NetDownRestores
    BY <1>0, <1>7, WritesTyped DEF NetDownRestores, Takes, Excuse, ProxyTypeOK
  <1>8. CASE ReadFails
    BY <1>0, <1>8, EndTyped DEF ReadFails, Takes, disk, ProxyTypeOK
  <1>9. ASSUME NEW e \in BOOLEAN, BypassSaves(e) PROVE Typed'
    BY <1>0, <1>9, EndTyped DEF BypassSaves, Takes, ProxyTypeOK
  <1>10. ASSUME NEW e \in BOOLEAN, BypassConflict(e) PROVE Typed'
    BY <1>0, <1>10, EndTyped DEF BypassConflict, Takes, ProxyTypeOK
  <1>11. ASSUME NEW e \in BOOLEAN, BypassApplies(e) PROVE Typed'
    <2>1. backup \in Bundles
      BY <1>0, <1>11 DEF BypassApplies, ProxyTypeOK
    <2>2. bundle' \in Bundles /\ Matches(bundle')
      BY <1>11, <2>1, EditedBundle DEF BypassApplies
    <2>3. ProxyTypeOK'
      BY <1>0, <1>11, <2>2
         DEF BypassApplies, Takes, Excuse, ProxyTypeOK, registry, thread, bounds, Ops
    <2>4. Shaped'
      BY <1>11, <2>2
         DEF BypassApplies, Takes, Typed, Shaped, Holds, Works, DHolds, DWorks, Keys,
             registry, thread, Matches
    <2> QED
      BY <2>3, <2>4 DEF Typed
  <1>12. ASSUME NEW o \in Enabling, EnableBegins(o) PROVE Typed'
    <2>0. resume' \in BOOLEAN /\ op' \in Ops
      BY <1>12 DEF EnableBegins, Ops
    <2>1. /\ pc' = "probe" /\ answer' = "none" /\ admitted' = FALSE
          /\ UNCHANGED <<registry, disk, process, phase, task, bundle, target, thread,
                         fence, bounds, excuses>>
      BY <1>12 DEF EnableBegins, Takes
    <2>2. ProxyTypeOK'
      <3>1. alive' \in BOOLEAN /\ recovering' \in BOOLEAN /\ policy' \in BOOLEAN /\ admitted' \in BOOLEAN
        BY <1>0, <2>1 DEF ProxyTypeOK, disk
      <3> QED
        BY <1>0, <2>0, <2>1, <3>1 DEF ProxyTypeOK, registry, disk, thread, bounds
    <2>3. Shaped'
      BY <1>12
         DEF EnableBegins, Takes, Typed, Shaped, Holds, Works, DHolds, DWorks, Keys,
             registry, disk, thread, Matches
    <2> QED
      BY <2>2, <2>3 DEF Typed
  <1>13. CASE VerifyConflict
    BY <1>0, <1>13, EndTyped DEF VerifyConflict, Takes, disk, ProxyTypeOK
  <1>14. CASE VerifyRepairs
    BY <1>0, <1>14, WritesTyped DEF VerifyRepairs, Takes, ProxyTypeOK
  <1> QED
    BY <1>1, <1>2, <1>3, <1>4, <1>5, <1>6, <1>7, <1>8, <1>9, <1>10, <1>11, <1>12, <1>13, <1>14
       DEF Requests, Verify

LEMMA EnableTyped ==
    ASSUME Typed,
           \/ EnableProbeFails \/ EnableFenced \/ EnableReadFails
           \/ \E t \in Targets : EnableAlready(t) \/ EnableRestoresStale(t) \/ EnableGoesOn(t)
           \/ EnableSnapshot \/ Persist \/ PersistFails
    PROVE  Typed'
  <1> USE FaultTyped DEF process, fences
  <1>0. ProxyTypeOK
    BY DEF Typed
  <1>1. CASE EnableProbeFails
    BY <1>0, <1>1, EndTyped DEF EnableProbeFails, KeepResume, disk, ProxyTypeOK
  <1>2. CASE EnableFenced
    BY <1>0, <1>2, EndTyped DEF EnableFenced, KeepResume, disk, ProxyTypeOK
  <1>3. CASE EnableReadFails
    BY <1>0, <1>3, EndTyped DEF EnableReadFails, KeepResume, disk, ProxyTypeOK
  <1>4. ASSUME NEW t \in Targets, EnableAlready(t) PROVE Typed'
    BY <1>0, <1>4, EndTyped DEF EnableAlready, Probed, disk, ProxyTypeOK
  <1>5. ASSUME NEW t \in Targets, EnableRestoresStale(t) PROVE Typed'
    BY <1>0, <1>5, WritesTyped DEF EnableRestoresStale, Probed, ProxyTypeOK, Typed, Shaped
  <1>6. ASSUME NEW t \in Targets, EnableGoesOn(t) PROVE Typed'
    BY <1>0, <1>6
       DEF EnableGoesOn, Probed, Typed, ProxyTypeOK, Shaped, Holds, Works, DHolds, DWorks, Keys,
           registry, disk, status, thread, bounds, Matches
  <1>7. CASE EnableSnapshot
    <2>1. target \in Targets /\ reg \in Registry /\ policy \in BOOLEAN /\ op \in Enabling
      BY <1>0, <1>7 DEF EnableSnapshot, Typed, Shaped, ProxyTypeOK
    <2>2. bundle' \in Bundles /\ Matches(bundle')
      BY <1>7, <2>1, NewBundle DEF EnableSnapshot
    <2> QED
      BY <1>0, <1>7, <2>1, <2>2
         DEF EnableSnapshot, Typed, ProxyTypeOK, Shaped, Holds, Works, DHolds, DWorks, Keys,
             registry, disk, status, thread, bounds, Matches
  <1>8. CASE Persist
    BY <1>0, <1>8
       DEF Persist, Typed, ProxyTypeOK, Shaped, Holds, Works, DHolds, DWorks, Keys,
           registry, status, thread, bounds, Matches
  <1>9. CASE PersistFails
    BY <1>0, <1>9, EndTyped DEF PersistFails, KeepResume, disk, ProxyTypeOK
  <1> QED
    BY <1>1, <1>2, <1>3, <1>4, <1>5, <1>6, <1>7, <1>8, <1>9

\* An operation that goes from one place to the next.
Onward ==
    /\ UNCHANGED <<user, policy, alive, resume, fences, thread>>
    /\ reg' \in Registry
    /\ UNCHANGED <<op, bundle, target>>
    /\ answer' = answer
    /\ phase' = phase

LEMMA OnwardTyped ==
    ASSUME Typed, Onward, pc # "idle",
           faults' \in 0..MaxFaults, edits' \in 0..MaxEdits, excuses' = excuses,
           recovering' = recovering, backup' = backup,
           pc' \in Keys \cup {"check", "delete"}, Holds,
           task' = task \/ (task = "apply" /\ op \in Enabling /\ task' = "rollback"),
           pc' = "delete" => task' # "apply"
    PROVE  Typed'
  BY DEF Onward, Typed, ProxyTypeOK, Shaped, Holds, Works, DHolds, DWorks, Keys, Matches,
         fences, thread

LEMMA Steps == \A k \in Keys : k # "idle" /\ After[k] \in Keys \cup {"check"}
  BY DEF Keys, After

LEMMA FailsTyped ==
    ASSUME Typed, Works, Fails, Fault \/ UNCHANGED bounds,
           UNCHANGED <<registry, disk, alive, fences, thread>>
    PROVE  Typed'
  <1>0. ProxyTypeOK /\ faults' \in 0..MaxFaults /\ edits' \in 0..MaxEdits
    BY FaultTyped DEF Typed
  <1>1. CASE task = "apply" /\ op \in Enabling
    BY <1>0, <1>1, OnwardTyped
       DEF Fails, Onward, status, fences, ProxyTypeOK, Holds, Works, Keys, registry, disk
  <1>2. CASE ~(task = "apply" /\ op \in Enabling)
    <2>1. resume' \in BOOLEAN /\ recovering' \in BOOLEAN
      BY <1>0, <1>2 DEF Fails, KeepResume, ProxyTypeOK
    <2> QED
      BY <1>0, <1>2, <2>1, EndTyped DEF Fails, Excuse, ProxyTypeOK, disk, fences
  <1> QED
    BY <1>1, <1>2

LEMMA WorkTyped ==
    ASSUME Typed, WriteValue \/ WriteFails \/ CheckFails \/ ApplyDone \/ RestoreChecked \/ RestoreDone
    PROVE  Typed'
  <1> USE FaultTyped DEF process, fences
  <1>0. ProxyTypeOK
    BY DEF Typed
  <1>1. CASE WriteValue
    <2>1. Goal \in Registry
      BY <1>1, BundleParts DEF WriteValue, Goal, Typed, Shaped, Holds, Works
    <2>2. reg' \in Registry
      BY <1>0, <1>1, <2>1, Values DEF WriteValue, ProxyTypeOK
    <2>3. pc' \in Keys \cup {"check"} /\ Works /\ pc # "idle" /\ pc' # "delete"
      BY <1>1, Steps DEF WriteValue, Works, Keys
    <2> QED
      BY <1>0, <1>1, <2>2, <2>3, OnwardTyped
         DEF WriteValue, Onward, status, disk, bounds, Holds, ProxyTypeOK
  <1>2. CASE WriteFails
    BY <1>2, FailsTyped DEF WriteFails, Works
  <1>3. CASE CheckFails
    BY <1>3, FailsTyped DEF CheckFails, Works
  <1>4. CASE ApplyDone
    BY <1>0, <1>4, EndTyped DEF ApplyDone, disk, ProxyTypeOK
  <1>5. CASE RestoreChecked
    BY <1>0, <1>5, OnwardTyped
       DEF RestoreChecked, Onward, status, disk, bounds, registry, Holds, Works, ProxyTypeOK
  <1>6. CASE RestoreDone
    <2>1. recovering' \in BOOLEAN
      BY <1>6 DEF RestoreDone
    <2>2. CASE task = "stale"
      BY <1>0, <1>6, <2>1, <2>2
         DEF RestoreDone, status, Typed, ProxyTypeOK, Shaped, Holds, Works, DHolds, DWorks, Keys,
             registry, thread, bounds, Matches
    <2>3. CASE task # "stale"
      <3>1. resume' \in BOOLEAN
        BY <1>6, <2>3 DEF RestoreDone, KeepResume
      <3> QED
        BY <1>0, <1>6, <2>1, <2>3, <3>1, EndTyped DEF RestoreDone, ProxyTypeOK, bounds
    <2> QED
      BY <2>2, <2>3
  <1> QED
    BY <1>1, <1>2, <1>3, <1>4, <1>5, <1>6

\* The session-end thread takes a step.
LEMMA DirectTyped ==
    ASSUME Typed, SessionThread
    PROVE  Typed'
  <1> DEFINE Quiet == UNCHANGED <<user, policy, process, status, fences, queue>>
             Bounded == faults' \in 0..MaxFaults /\ edits' \in 0..MaxEdits
                        /\ excuses' \subseteq {"torn", "contended", "clobbered", "raced"}
  <1>0. ProxyTypeOK
    BY DEF Typed
  <1>1. ASSUME Quiet, Bounded, reg' \in Registry, backup' \in {backup, None},
               direct' \in Keys \cup {"check", "delete", "done"},
               dbundle' \in Bundles \/ (dbundle' \in Bundles \cup {None} /\ direct' = "done"),
               "session" \in fence
        PROVE  Typed'
    BY <1>1
       DEF Typed, ProxyTypeOK, Shaped, Holds, Works, DHolds, DWorks, Keys, Matches,
           process, status, fences, queue
  <1>2. DHolds => dbundle \in Bundles /\ "session" \in fence
    BY DEF Typed, Shaped, DHolds, DWorks, Keys
  <1> HIDE DEF Quiet
  <1>3. CASE DirectNothing
    BY <1>0, <1>1, <1>3, FaultTyped DEF DirectNothing, Quiet, Excuse, registry, disk, ProxyTypeOK, bounds
  <1>4. CASE DirectRestores
    BY <1>0, <1>1, <1>4, FaultTyped DEF DirectRestores, Quiet, Excuse, registry, disk, ProxyTypeOK, Keys
  <1>5. CASE DirectWrites
    <2>1. dbundle \in Bundles /\ dbundle.previous \in Registry /\ "session" \in fence
      BY <1>2, <1>5, BundleParts DEF DirectWrites, DHolds, DWorks
    <2>2. reg' \in Registry
      BY <1>0, <1>5, <2>1, Values DEF DirectWrites, ProxyTypeOK
    <2> QED
      BY <1>0, <1>1, <1>5, <2>1, <2>2, Steps, FaultTyped DEF DirectWrites, Quiet, disk, ProxyTypeOK
  <1>6. CASE DirectFails
    BY <1>0, <1>1, <1>2, <1>6, FaultTyped
       DEF DirectFails, Quiet, Excuse, registry, disk, ProxyTypeOK, DHolds, DWorks
  <1>7. CASE DirectChecked
    BY <1>0, <1>1, <1>2, <1>7, FaultTyped
       DEF DirectChecked, Quiet, registry, disk, ProxyTypeOK, DHolds, DWorks
  <1>8. CASE DirectDone
    BY <1>0, <1>1, <1>2, <1>8, FaultTyped
       DEF DirectDone, Quiet, registry, ProxyTypeOK, DHolds, bounds
  <1> QED
    BY <1>3, <1>4, <1>5, <1>6, <1>7, <1>8 DEF SessionThread

LEMMA LifeTyped ==
    ASSUME Typed, Life \/ OtherPrograms
    PROVE  Typed'
  <1>0. ProxyTypeOK
    BY DEF Typed
  <1>1. CASE Launch
    BY <1>0, <1>1
       DEF Launch, Typed, ProxyTypeOK, Shaped, Holds, Works, DHolds, DWorks, Keys, Matches,
           registry, disk, status, fences, queue, thread, bounds
  <1>2. ASSUME NEW cause, Fences(cause) PROVE Typed'
    <2>1. admitted' \in BOOLEAN
      BY <1>0, <1>2 DEF Fences, ProxyTypeOK
    <2> QED
      BY <1>0, <1>2, <2>1
         DEF Fences, Typed, ProxyTypeOK, Shaped, Holds, Works, DHolds, DWorks, Keys, Matches,
             registry, disk, process, status, queue, thread, bounds
  <1>3. CASE QuitCancelled
    <2>1. admitted' \in BOOLEAN
      BY <1>3 DEF QuitCancelled
    <2> QED
      BY <1>0, <1>3, <2>1
         DEF QuitCancelled, Typed, ProxyTypeOK, Shaped, Holds, Works, DHolds, DWorks, Keys, Matches,
             registry, disk, process, status, queue, thread, bounds
  <1>4. ASSUME Dies, Fault \/ UNCHANGED bounds PROVE Typed'
    <2>1. faults' \in 0..MaxFaults /\ edits' \in 0..MaxEdits
      BY <1>4, FaultTyped
    <2> QED
      BY <1>0, <1>4, <2>1
         DEF Dies, Excuse, Typed, ProxyTypeOK, Shaped, Holds, Works, DHolds, DWorks, Keys, Matches,
             registry, disk
  <1>5. ASSUME NEW r \in Registry, Takeover(r) PROVE Typed'
    <2>1. faults' \in 0..MaxFaults /\ edits' \in 0..MaxEdits
      BY <1>5, FaultTyped DEF Takeover
    <2> QED
      BY <1>0, <1>5, <2>1
         DEF Takeover, Excuse, Typed, ProxyTypeOK, Shaped, Holds, Works, DHolds, DWorks, Keys, Matches,
             disk, process, status, fences, queue, thread
  <1>6. ASSUME NEW r \in Registry, Sweep(r) PROVE Typed'
    <2>1. faults' \in 0..MaxFaults /\ edits' \in 0..MaxEdits
      BY <1>6, FaultTyped DEF Sweep
    <2> QED
      BY <1>0, <1>6, <2>1
         DEF Sweep, Excuse, Typed, ProxyTypeOK, Shaped, Holds, Works, DHolds, DWorks, Keys, Matches,
             disk, process, status, fences, queue, thread
  <1> QED
    BY <1>1, <1>2, <1>3, <1>4, <1>5, <1>6
       DEF Life, OtherPrograms, Quit, SessionEnds, QuitDone, SessionOver, Crash

LEMMA StepsTyped == Typed /\ [Next]_vars => Typed'
  <1> SUFFICES ASSUME Typed, [Next]_vars PROVE Typed'
    OBVIOUS
  <1>1. CASE UNCHANGED vars
    BY <1>1
       DEF vars, Typed, ProxyTypeOK, Shaped, Holds, Works, DHolds, DWorks, Matches,
           registry, disk, process, status, fences, queue, thread, bounds
  <1> QED
    BY <1>1, RecoveryTyped, RequestsTyped, EnableTyped, WorkTyped, DirectTyped, LifeTyped
       DEF Next, Progress

\* Every variable of the service stays in its type: among others an operation at
\* work always has the bundle it works with.
THEOREM ProxyTypeCorrect == Spec => []ProxyTypeOK
  BY InitTyped, StepsTyped, PTL DEF Spec, Typed

-----------------------------------------------------------------------------
(* The server: Murge's only while a bundle gives it back. *)

LEMMA Obsolete ==
    ASSUME ServerFacts, backup = None \/ ~CanRestore(reg, backup)
    PROVE  Foreign(reg)
  BY DEF ServerFacts, CanRestore

LEMMA EndServers ==
    ASSUME ServerFacts, UNCHANGED registry, UNCHANGED thread, pc' = "idle",
           backup' = backup \/ (backup' = None /\ Foreign(reg)),
           answer' = "safe" => Foreign(reg)
    PROVE  ServerFacts'
  BY DEF ServerFacts, registry, thread, Holds, Works, DHolds, DWorks, Applies, DirectActive, Foreign, Server, Keys

LEMMA WritesServers ==
    ASSUME ServerFacts, NEW o, NEW t, NEW p, Writes(o, t, backup, p), backup # None,
           UNCHANGED <<registry, disk, thread>>, t = "apply" => ~DirectActive
    PROVE  ServerFacts'
  BY DEF ServerFacts, Writes, registry, disk, thread, Holds, Works, DHolds, DWorks, Applies,
         DirectActive, Foreign, Server, Keys

\* Without a fence the session-end thread has not begun.
LEMMA NoThread == ASSUME Typed, fence = {} PROVE direct = "off" /\ ~DirectActive /\ ~DHolds
  BY DEF Typed, Shaped, DirectActive, DHolds, DWorks, Keys

LEMMA RecoveryServers ==
    ASSUME Typed, ServerFacts, InitNothing \/ InitRestores \/ InitDrops \/ InitConflict
    PROVE  ServerFacts'
  <1>1. CASE InitNothing
    BY <1>1, EndServers DEF InitNothing, Done, disk
  <1>2. CASE InitRestores
    BY <1>2, WritesServers DEF InitRestores
  <1>3. CASE InitDrops
    BY <1>3, EndServers, Obsolete DEF InitDrops, Done
  <1>4. CASE InitConflict
    BY <1>4, EndServers DEF InitConflict, Done, disk
  <1> QED
    BY <1>1, <1>2, <1>3, <1>4

LEMMA RequestsServers ==
    ASSUME Typed, ServerFacts, Requests \/ Verify, "raced" \notin excuses'
    PROVE  ServerFacts'
  <1>1. CASE KernelReadFails
    BY <1>1, EndServers DEF KernelReadFails, Done, disk
  <1>2. CASE KernelNothing
    BY <1>2, EndServers, Obsolete DEF KernelNothing, Done, disk
  <1>3. CASE KernelConflict
    BY <1>3, EndServers, Obsolete DEF KernelConflict, Done, disk
  <1>4. CASE KernelRestores
    BY <1>4, WritesServers DEF KernelRestores
  <1>5. CASE DisableNothing
    BY <1>5, EndServers DEF DisableNothing, Done, disk
  <1>6. CASE DisableRestores
    BY <1>6, WritesServers DEF DisableRestores
  <1>7. CASE NetDownRestores
    BY <1>7, WritesServers DEF NetDownRestores
  <1>8. CASE ReadFails
    BY <1>8, EndServers DEF ReadFails, Done, disk
  <1>9. ASSUME NEW e \in BOOLEAN, BypassSaves(e) PROVE ServerFacts'
    BY <1>9, EndServers DEF BypassSaves, Done
  <1>10. ASSUME NEW e \in BOOLEAN, BypassConflict(e) PROVE ServerFacts'
    BY <1>10, EndServers DEF BypassConflict, Done
  <1>11. ASSUME NEW e \in BOOLEAN, BypassApplies(e) PROVE ServerFacts'
    <2>1. backup \in Bundles /\ backup # None
      BY <1>11 DEF BypassApplies, Typed, ProxyTypeOK
    <2>2. bundle'.target = backup.target /\ bundle'.previous = backup.previous
      BY <1>11, <2>1, EditedBundle DEF BypassApplies
    <2>3. ~DirectActive
      BY <1>11 DEF BypassApplies, Excuse
    <2> QED
      BY <1>11, <2>1, <2>2, <2>3
         DEF BypassApplies, ServerFacts, registry, thread, Holds, Works, DHolds, DWorks, Applies,
             DirectActive, Foreign, Server, Keys, Enabling
  <1>12. ASSUME NEW o \in Enabling, EnableBegins(o) PROVE ServerFacts'
    BY <1>12
       DEF EnableBegins, ServerFacts, registry, disk, thread, Holds, Works, DHolds, DWorks, Applies,
           DirectActive, Foreign, Server, Keys
  <1>13. CASE VerifyConflict
    BY <1>13, EndServers DEF VerifyConflict, Done, disk
  <1>14. CASE VerifyRepairs
    BY <1>14, WritesServers, NoThread DEF VerifyRepairs
  <1> QED
    BY <1>1, <1>2, <1>3, <1>4, <1>5, <1>6, <1>7, <1>8, <1>9, <1>10, <1>11, <1>12, <1>13, <1>14
       DEF Requests, Verify

LEMMA EnableServers ==
    ASSUME Typed, ServerFacts,
           \/ EnableProbeFails \/ EnableFenced \/ EnableReadFails
           \/ \E t \in Targets : EnableAlready(t) \/ EnableRestoresStale(t) \/ EnableGoesOn(t)
           \/ EnableSnapshot \/ Persist \/ PersistFails
    PROVE  ServerFacts'
  <1>1. CASE EnableProbeFails
    BY <1>1, EndServers DEF EnableProbeFails, Done, disk
  <1>2. CASE EnableFenced
    BY <1>2, EndServers DEF EnableFenced, Done, disk
  <1>3. CASE EnableReadFails
    BY <1>3, EndServers DEF EnableReadFails, Done, disk
  <1>4. ASSUME NEW t \in Targets, EnableAlready(t) PROVE ServerFacts'
    BY <1>4, EndServers DEF EnableAlready, Done, disk
  <1>5. ASSUME NEW t \in Targets, EnableRestoresStale(t) PROVE ServerFacts'
    BY <1>5, WritesServers DEF EnableRestoresStale
  <1>6. ASSUME NEW t \in Targets, EnableGoesOn(t) PROVE ServerFacts'
    <2>1. Foreign(reg)
      BY <1>6, Obsolete DEF EnableGoesOn
    <2> QED
      BY <1>6, <2>1
         DEF EnableGoesOn, Probed, ServerFacts, registry, disk, status, thread, Holds, Works, DHolds, DWorks,
             Applies, DirectActive, Foreign, Server, Keys
  <1>7. CASE EnableSnapshot
    <2>1. target \in Targets /\ reg \in Registry /\ policy \in BOOLEAN /\ op \in Enabling
      BY <1>7 DEF EnableSnapshot, Typed, Shaped, ProxyTypeOK
    <2>2. bundle'.previous = reg
      BY <1>7, <2>1, NewBundle DEF EnableSnapshot
    <2>3. Foreign(reg) /\ ~DirectActive
      BY <1>7, NoThread DEF EnableSnapshot, ServerFacts
    <2> QED
      BY <1>7, <2>1, <2>2, <2>3
         DEF EnableSnapshot, ServerFacts, registry, disk, status, thread, Holds, Works, DHolds, DWorks, Applies,
             DirectActive, Foreign, Server, Keys, Enabling
  <1>8. CASE Persist
    <2>1. bundle # None /\ op \in Enabling \cup {"bypass"} /\ task = "apply"
      BY <1>8, BundleParts DEF Persist, Typed, Shaped, Holds
    <2>2. answer # "safe"
      BY <1>8 DEF Persist, Typed, Shaped
    <2> QED
      BY <1>8, <2>1, <2>2
         DEF Persist, ServerFacts, registry, thread, Holds, Works, DHolds, DWorks, Applies, DirectActive,
             Foreign, Server, Keys
  <1>9. CASE PersistFails
    BY <1>9, EndServers DEF PersistFails, Done, disk
  <1> QED
    BY <1>1, <1>2, <1>3, <1>4, <1>5, <1>6, <1>7, <1>8, <1>9

LEMMA FailsServers ==
    ASSUME Typed, ServerFacts, Works, Fails,
           UNCHANGED <<registry, disk, alive, fences, thread>>
    PROVE  ServerFacts'
  <1>1. CASE task = "apply" /\ op \in Enabling
    BY <1>1
       DEF Fails, status, registry, disk, thread, ServerFacts, Holds, Works, DHolds, DWorks, Applies,
           DirectActive, Foreign, Server, Keys
  <1>2. CASE ~(task = "apply" /\ op \in Enabling)
    BY <1>2, EndServers DEF Fails, Done, disk
  <1> QED
    BY <1>1, <1>2

LEMMA WorkServers ==
    ASSUME Typed, ServerFacts,
           WriteValue \/ WriteFails \/ CheckFails \/ ApplyDone \/ RestoreChecked \/ RestoreDone
    PROVE  ServerFacts'
  <1>1. CASE WriteValue
    <2>1. Works /\ pc # "idle" /\ pc # "delete" /\ pc \in Keys /\ pc' \in Keys \cup {"check"}
      BY <1>1, Steps DEF WriteValue, Works, Keys
    <2>2. bundle \in Bundles /\ reg \in Registry /\ answer # "safe"
          /\ Server(bundle.written) = bundle.target
      BY <2>1 DEF Typed, ProxyTypeOK, Shaped, Holds, Matches
    <2>3. Goal \in Registry /\ Server(Goal) = (IF task = "apply" THEN bundle.target ELSE Server(bundle.previous))
      BY <2>2, BundleParts DEF Goal
    <2>4. Server(reg') = IF pc = "ProxyServer" THEN Server(Goal) ELSE Server(reg)
      BY <1>1, <2>1, <2>2, <2>3, Values DEF WriteValue, Server
    <2>5. CASE task = "apply"
      <3>1. backup = bundle /\ backup # None /\ ~DirectActive
        BY <2>1, <2>2, <2>5, BundleParts DEF ServerFacts, Applies
      <3> QED
        BY <1>1, <2>1, <2>2, <2>3, <2>4, <2>5, <3>1
           DEF WriteValue, status, disk, thread, ServerFacts, Holds, Works, DHolds, DWorks, Applies,
               DirectActive, Foreign, Keys
    <2>6. CASE task # "apply"
      <3>1. Foreign(bundle.previous)
        BY <2>1 DEF ServerFacts, Holds
      <3> QED
        BY <1>1, <2>1, <2>2, <2>3, <2>4, <2>6, <3>1
           DEF WriteValue, status, disk, thread, ServerFacts, Holds, Works, DHolds, DWorks, Applies,
               Foreign, Keys
    <2> QED
      BY <2>5, <2>6
  <1>2. CASE WriteFails
    BY <1>2, FailsServers DEF WriteFails, Works
  <1>3. CASE CheckFails
    BY <1>3, FailsServers DEF CheckFails, Works
  <1>4. CASE ApplyDone
    BY <1>4, EndServers DEF ApplyDone, Done, disk
  <1>5. CASE RestoreChecked
    <2>1. Foreign(reg)
      BY <1>5 DEF RestoreChecked, Goal, ServerFacts, Holds, Works
    <2> QED
      BY <1>5, <2>1
         DEF RestoreChecked, registry, status, disk, thread, ServerFacts, Holds, Works, DHolds, DWorks, Applies,
             Foreign, Server, Keys
  <1>6. CASE RestoreDone
    <2>1. Foreign(reg)
      BY <1>6 DEF RestoreDone, ServerFacts
    <2>2. CASE task = "stale"
      BY <1>6, <2>1, <2>2
         DEF RestoreDone, registry, status, thread, ServerFacts, Holds, Works, DHolds, DWorks, Applies,
             Foreign, Server, Keys
    <2>3. CASE task # "stale"
      BY <1>6, <2>1, <2>3, EndServers DEF RestoreDone, Done
    <2> QED
      BY <2>2, <2>3
  <1> QED
    BY <1>1, <1>2, <1>3, <1>4, <1>5, <1>6

LEMMA DirectServers ==
    ASSUME Typed, ServerFacts, SessionThread, "raced" \notin excuses'
    PROVE  ServerFacts'
  <1> USE DEF queue, status, disk, registry, Holds, Works, DHolds, DWorks, Applies, DirectActive, Foreign
  <1>1. CASE DirectNothing
    BY <1>1 DEF DirectNothing, ServerFacts, Server, Keys
  <1>2. CASE DirectRestores
    <2>1. task # "apply"
      BY <1>2 DEF DirectRestores, Excuse
    <2> QED
      BY <1>2, <2>1 DEF DirectRestores, ServerFacts, Server, Keys
  <1>3. CASE DirectWrites
    <2>1. dbundle \in Bundles /\ dbundle.previous \in Registry /\ reg \in Registry
      BY <1>3, BundleParts DEF DirectWrites, Typed, Shaped, ProxyTypeOK
    <2>2. Server(reg') = IF direct = "ProxyServer" THEN Server(dbundle.previous) ELSE Server(reg)
      BY <1>3, <2>1, Values DEF DirectWrites, Server
    <2>3. Foreign(dbundle.previous)
      BY <1>3 DEF DirectWrites, ServerFacts
    <2>4. direct' \in Keys \cup {"check"} /\ direct \notin {"off", "done"}
      BY <1>3, Steps DEF DirectWrites, Keys
    <2> QED
      BY <1>3, <2>2, <2>3, <2>4 DEF DirectWrites, ServerFacts, Keys
  <1>4. CASE DirectFails
    BY <1>4 DEF DirectFails, ServerFacts, Server, Keys
  <1>5. CASE DirectChecked
    BY <1>5 DEF DirectChecked, ServerFacts, Server, Keys
  <1>6. CASE DirectDone
    <2>1. Foreign(reg) /\ ~Applies
      BY <1>6 DEF DirectDone, ServerFacts
    <2>2. backup' = backup \/ backup' = None
      BY <1>6 DEF DirectDone
    <2>3. direct' = "done" /\ UNCHANGED <<registry, queue, status>>
      BY <1>6 DEF DirectDone
    <2>4. pc # "persist"
      BY <2>1 DEF Typed, Shaped
    <2> QED
      BY <2>1, <2>2, <2>3, <2>4 DEF ServerFacts, Server, Keys
  <1> QED
    BY <1>1, <1>2, <1>3, <1>4, <1>5, <1>6 DEF SessionThread

LEMMA LifeServers ==
    ASSUME Typed, ServerFacts, Life \/ OtherPrograms
    PROVE  ServerFacts'
  <1> USE DEF queue, status, disk, registry, thread, Holds, Works, DHolds, DWorks, Applies, DirectActive, Foreign
  <1>1. CASE Launch
    BY <1>1 DEF Launch, ServerFacts, Server, Keys
  <1>2. ASSUME NEW cause, Fences(cause) PROVE ServerFacts'
    BY <1>2 DEF Fences, ServerFacts, Server, Keys
  <1>3. CASE QuitCancelled
    BY <1>3 DEF QuitCancelled, ServerFacts, Server, Keys
  <1>4. ASSUME Dies PROVE ServerFacts'
    BY <1>4 DEF Dies, ServerFacts, Server, Keys
  <1>5. ASSUME NEW r \in Registry, Takeover(r) PROVE ServerFacts'
    <2>1. Server(r) \notin Targets
      BY <1>5, Servers DEF Takeover
    <2> QED
      BY <1>5, <2>1 DEF Takeover, ServerFacts, Keys
  <1>6. ASSUME NEW r \in Registry, Sweep(r) PROVE ServerFacts'
    BY <1>6 DEF Sweep, ServerFacts, Keys
  <1> QED
    BY <1>1, <1>2, <1>3, <1>4, <1>5, <1>6
       DEF Life, OtherPrograms, Quit, SessionEnds, QuitDone, SessionOver, Crash

-----------------------------------------------------------------------------
(* The values: the user's, or in a bundle that will be restored. *)

LEMMA OneWrite ==
    ASSUME NEW r \in Registry, NEW g \in Registry, NEW k \in Keys
    PROVE  /\ Wrote(r, k, g) => Wrote([r EXCEPT ![k] = g[k]], After[k], g)
           /\ \A p : Wrote(r, p, g) => Wrote([r EXCEPT ![k] = g[k]], p, g)
           /\ r = g => [r EXCEPT ![k] = g[k]] = g
  <1> DEFINE w == [r EXCEPT ![k] = g[k]]
  <1>1. /\ w \in Registry
        /\ w.ProxyEnable = IF k = "ProxyEnable" THEN g.ProxyEnable ELSE r.ProxyEnable
        /\ w.ProxyServer = IF k = "ProxyServer" THEN g.ProxyServer ELSE r.ProxyServer
        /\ w.ProxyOverride = IF k = "ProxyOverride" THEN g.ProxyOverride ELSE r.ProxyOverride
    BY Values
  <1> HIDE DEF w
  <1>2. Wrote(r, k, g) => Wrote(w, After[k], g)
    BY <1>1 DEF Wrote, After, Keys
  <1>3. \A p : Wrote(r, p, g) => Wrote(w, p, g)
    BY <1>1 DEF Wrote
  <1>4. r = g => w = g
    BY <1>1, SameValues
  <1> QED
    BY <1>2, <1>3, <1>4 DEF w

LEMMA AllWritten ==
    ASSUME NEW r \in Registry, NEW g \in Registry, Wrote(r, "check", g)
    PROVE  r = g
  BY SameValues DEF Wrote

LEMMA EndUsers ==
    ASSUME UserFacts, UNCHANGED registry, UNCHANGED thread, pc' = "idle",
           backup' = backup \/ (backup' = None /\ reg = user),
           faults' = 0 => faults = 0,
           pc \notin Keys \/ ~Torn
    PROVE  UserFacts'
  BY DEF UserFacts, registry, thread, Holds, Works, DHolds, DWorks, Applies, Torn, CanRestore, Server,
         Foreign, Keys, Wrote

LEMMA WritesUsers ==
    ASSUME UserFacts, NEW o, NEW t, NEW p, Writes(o, t, backup, p), backup # None,
           UNCHANGED <<registry, disk, thread, bounds>>, CanRestore(reg, backup),
           t = "apply" => direct = "off",
           o \in {"verify", "bypass"} => Server(reg) = backup.target
    PROVE  UserFacts'
  <1>1. backup.previous = user
    BY DEF UserFacts
  <1>2. /\ bundle' = backup /\ pc' = "ProxyEnable" /\ op' = o /\ task' = t
        /\ reg' = reg /\ user' = user /\ backup' = backup /\ direct' = direct /\ dbundle' = dbundle
        /\ faults' = faults
    BY DEF Writes, registry, disk, thread, bounds
  <1>3. Wrote(reg', pc', Goal')
    BY <1>2 DEF Wrote
  <1> QED
    BY <1>1, <1>2, <1>3
       DEF UserFacts, Holds, Works, DHolds, DWorks, Applies, CanRestore, Server, Foreign, Keys

\* A call fails at most once more.
LEMMA FaultCounts ==
    ASSUME Typed, Fault \/ UNCHANGED bounds
    PROVE  faults' = 0 => faults = 0 /\ UNCHANGED bounds
  BY BoundsAssumption DEF Fault, bounds, Typed, ProxyTypeOK

LEMMA FaultShows == ASSUME Typed, Fault PROVE faults' # 0
  BY BoundsAssumption DEF Fault, Typed, ProxyTypeOK

LEMMA RecoveryUsers ==
    ASSUME Typed, ServerFacts, UserFacts, excuses' = {},
           InitNothing \/ InitRestores \/ InitDrops \/ InitConflict
    PROVE  UserFacts'
  <1>0. Idle => pc = "idle" /\ pc \notin Keys
    BY DEF Idle, Keys
  <1>1. CASE InitNothing
    BY <1>0, <1>1, EndUsers, FaultCounts DEF InitNothing, Recovers, Done, disk
  <1>2. CASE InitRestores
    BY <1>2, WritesUsers DEF InitRestores
  <1>3. CASE InitDrops
    <2>1. direct \notin Keys
      BY <1>3 DEF InitDrops, Excuse, DirectActive, Keys
    <2>2. reg = user
      BY <1>0, <1>3, <2>1 DEF InitDrops, Recovers, UserFacts
    <2>3. faults' = 0 => faults = 0
      BY <1>3, FaultCounts DEF InitDrops
    <2> QED
      BY <1>0, <1>3, <2>2, <2>3, EndUsers DEF InitDrops, Recovers, Done
  <1>4. CASE InitConflict
    BY <1>0, <1>4, EndUsers, FaultCounts DEF InitConflict, Recovers, Done, disk
  <1> QED
    BY <1>1, <1>2, <1>3, <1>4

LEMMA RequestsUsers ==
    ASSUME Typed, ServerFacts, UserFacts, excuses' = {}, Requests \/ Verify
    PROVE  UserFacts'
  <1>0. Idle => pc = "idle" /\ pc \notin Keys
    BY DEF Idle, Keys
  <1>a. backup # None => backup \in Bundles /\ backup.target \in Targets /\ Server(backup.written) = backup.target
    BY BundleParts DEF Typed, ProxyTypeOK, Shaped, Matches
  <1>1. CASE KernelReadFails
    BY <1>0, <1>1, EndUsers, FaultCounts DEF KernelReadFails, Done, disk
  <1>2. CASE KernelNothing
    BY <1>0, <1>2, EndUsers, FaultCounts DEF KernelNothing, Done, disk
  <1>3. CASE KernelConflict
    BY <1>0, <1>3, EndUsers, FaultCounts DEF KernelConflict, Done, disk
  <1>4. CASE KernelRestores
    BY <1>4, WritesUsers DEF KernelRestores
  <1>5. CASE DisableNothing
    BY <1>0, <1>5, EndUsers, FaultCounts DEF DisableNothing, Takes, Done, disk
  <1>6. CASE DisableRestores
    BY <1>6, WritesUsers DEF DisableRestores, Excuse
  <1>7. CASE NetDownRestores
    BY <1>7, WritesUsers DEF NetDownRestores, Excuse
  <1>8. CASE ReadFails
    BY <1>0, <1>8, EndUsers, FaultCounts DEF ReadFails, Takes, Done, disk
  <1>9. ASSUME NEW e \in BOOLEAN, BypassSaves(e) PROVE UserFacts'
    BY <1>0, <1>9, EndUsers, FaultCounts DEF BypassSaves, Takes, Done
  <1>10. ASSUME NEW e \in BOOLEAN, BypassConflict(e) PROVE UserFacts'
    BY <1>0, <1>10, EndUsers, FaultCounts DEF BypassConflict, Takes, Done
  <1>11. ASSUME NEW e \in BOOLEAN, BypassApplies(e) PROVE UserFacts'
    <2>1. backup \in Bundles /\ backup # None /\ reg = backup.written
      BY <1>11 DEF BypassApplies, Typed, ProxyTypeOK
    <2>2. bundle'.target = backup.target /\ bundle'.previous = backup.previous
      BY <1>11, <2>1, EditedBundle DEF BypassApplies
    <2>3. ~DirectActive
      BY <1>11 DEF BypassApplies, Excuse
    <2>4. backup.previous = user /\ ~Foreign(reg)
      BY <1>a, <2>1 DEF UserFacts, CanRestore, Foreign
    <2> QED
      BY <1>11, <2>1, <2>2, <2>3, <2>4
         DEF BypassApplies, UserFacts, registry, thread, bounds, Holds, Works, DHolds, DWorks, Applies,
             DirectActive, CanRestore, Server, Foreign, Keys, Enabling
  <1>12. ASSUME NEW o \in Enabling, EnableBegins(o) PROVE UserFacts'
    <2>1. Idle /\ pc' = "probe" /\ UNCHANGED <<registry, disk, thread, bounds>>
      BY <1>12 DEF EnableBegins, Takes
    <2> QED
      BY <1>0, <2>1
         DEF UserFacts, registry, disk, thread, bounds, Holds, Works, DHolds, DWorks, Applies,
             CanRestore, Server, Foreign, Keys, Wrote
  <1>13. CASE VerifyConflict
    BY <1>0, <1>13, EndUsers, FaultCounts DEF VerifyConflict, Takes, Done, disk
  <1>14. CASE VerifyRepairs
    <2>1. backup # None /\ Server(reg) = backup.target /\ direct = "off"
      BY <1>a, <1>14, NoThread DEF VerifyRepairs
    <2> QED
      BY <1>14, <2>1, WritesUsers DEF VerifyRepairs, CanRestore
  <1> QED
    BY <1>1, <1>2, <1>3, <1>4, <1>5, <1>6, <1>7, <1>8, <1>9, <1>10, <1>11, <1>12, <1>13, <1>14
       DEF Requests, Verify

LEMMA EnableUsers ==
    ASSUME Typed, ServerFacts, UserFacts,
           \/ EnableProbeFails \/ EnableFenced \/ EnableReadFails
           \/ \E t \in Targets : EnableAlready(t) \/ EnableRestoresStale(t) \/ EnableGoesOn(t)
           \/ EnableSnapshot \/ Persist \/ PersistFails
    PROVE  UserFacts'
  <1>0. pc \in {"probe", "snapshot", "persist"} => pc \notin Keys
    BY DEF Keys
  <1>1. CASE EnableProbeFails
    BY <1>0, <1>1, EndUsers, FaultCounts DEF EnableProbeFails, Done, disk
  <1>2. CASE EnableFenced
    BY <1>0, <1>2, EndUsers, FaultCounts DEF EnableFenced, Done, disk
  <1>3. CASE EnableReadFails
    BY <1>0, <1>3, EndUsers, FaultCounts DEF EnableReadFails, Done, disk
  <1>4. ASSUME NEW t \in Targets, EnableAlready(t) PROVE UserFacts'
    BY <1>0, <1>4, EndUsers, FaultCounts DEF EnableAlready, Probed, Done, disk
  <1>5. ASSUME NEW t \in Targets, EnableRestoresStale(t) PROVE UserFacts'
    <2>1. op \notin {"verify", "bypass"}
      BY <1>5 DEF EnableRestoresStale, Probed, Typed, Shaped, Enabling
    <2> QED
      BY <1>5, <2>1, WritesUsers DEF EnableRestoresStale
  <1>6. ASSUME NEW t \in Targets, EnableGoesOn(t) PROVE UserFacts'
    <2>1. direct = "off" /\ pc = "probe"
      BY <1>6, NoThread DEF EnableGoesOn, Probed
    <2>2. reg = user
      BY <1>6, <2>1 DEF EnableGoesOn, UserFacts, Keys
    <2> QED
      BY <1>6, <2>1, <2>2
         DEF EnableGoesOn, UserFacts, registry, disk, status, thread, bounds, Holds, Works, DHolds, DWorks,
             Applies, CanRestore, Server, Foreign, Keys
  <1>7. CASE EnableSnapshot
    <2>1. target \in Targets /\ reg \in Registry /\ policy \in BOOLEAN /\ op \in Enabling
      BY <1>7 DEF EnableSnapshot, Typed, Shaped, ProxyTypeOK
    <2>2. bundle'.previous = reg
      BY <1>7, <2>1, NewBundle DEF EnableSnapshot
    <2>3. reg = user /\ direct = "off"
      BY <1>7, NoThread DEF EnableSnapshot, UserFacts
    <2> QED
      BY <1>7, <2>1, <2>2, <2>3
         DEF EnableSnapshot, UserFacts, registry, disk, status, thread, bounds, Holds, Works, DHolds, DWorks,
             Applies, CanRestore, Server, Foreign, Keys, Enabling
  <1>8. CASE Persist
    <2>1. bundle # None /\ op \in Enabling \cup {"bypass"} /\ task = "apply" /\ Applies
      BY <1>8, BundleParts DEF Persist, Typed, Shaped, Holds, Applies
    <2>2. ~DirectActive /\ bundle.previous = user
      BY <1>8, <2>1 DEF Persist, ServerFacts, UserFacts
    <2>3. op = "bypass" => Server(reg) = bundle.target
      BY <1>8 DEF Persist, UserFacts, ServerFacts, Typed, Shaped, Matches
    <2>4. Wrote(reg', pc', Goal')
      BY <1>8 DEF Persist, Wrote
    <2> QED
      BY <1>8, <2>1, <2>2, <2>3, <2>4
         DEF Persist, UserFacts, registry, thread, bounds, Holds, Works, DHolds, DWorks,
             Applies, DirectActive, CanRestore, Server, Foreign, Keys, Enabling
  <1>9. CASE PersistFails
    BY <1>0, <1>9, EndUsers, FaultCounts DEF PersistFails, Done, disk
  <1> QED
    BY <1>1, <1>2, <1>3, <1>4, <1>5, <1>6, <1>7, <1>8, <1>9

LEMMA FailsUsers ==
    ASSUME Typed, ServerFacts, UserFacts, excuses' = {}, Works, Fails, Fault \/ UNCHANGED bounds,
           UNCHANGED <<registry, disk, alive, fences, thread>>
    PROVE  UserFacts'
  <1>0. faults' = 0 => faults = 0
    BY FaultCounts
  <1>1. CASE task = "apply" /\ op \in Enabling
    <2>1. /\ task' = "rollback" /\ pc' = "ProxyEnable" /\ op' = op /\ bundle' = bundle
          /\ reg' = reg /\ user' = user /\ backup' = backup /\ direct' = direct /\ dbundle' = dbundle
      BY <1>1 DEF Fails, registry, disk, thread
    <2>2. Wrote(reg', pc', Goal')
      BY <2>1 DEF Wrote
    <2>3. faults' = 0 => direct # "done"
      BY <1>0, <1>1 DEF UserFacts, Applies
    <2> QED
      BY <1>1, <2>1, <2>2, <2>3
         DEF UserFacts, Holds, Works, DHolds, DWorks, CanRestore, Server, Foreign, Keys, Enabling
  <1>2. CASE ~(task = "apply" /\ op \in Enabling)
    BY <1>0, <1>2, EndUsers DEF Fails, Excuse, Done, disk
  <1> QED
    BY <1>1, <1>2

LEMMA WriteUsers ==
    ASSUME Typed, ServerFacts, UserFacts, WriteValue
    PROVE  UserFacts'
  <1>1. Works /\ pc \in Keys /\ pc' = After[pc] /\ pc' \in Keys \cup {"check"}
    BY Steps DEF WriteValue, Works
  <1>2. /\ bundle \in Bundles /\ reg \in Registry /\ user \in Registry
        /\ Server(bundle.written) = bundle.target /\ Goal \in Registry
    BY <1>1, BundleParts DEF Typed, ProxyTypeOK, Shaped, Holds, Matches, Goal
  <1>3. /\ reg' = [reg EXCEPT ![pc] = Goal[pc]] /\ reg' \in Registry
        /\ UNCHANGED <<user, backup, op, task, bundle, direct, dbundle, faults>> /\ Goal' = Goal
    BY <1>1, <1>2, Values DEF WriteValue, disk, thread, bounds, Goal
  <1>4. Wrote(reg', pc', Goal) /\ (pc' = "check" => reg' = Goal)
    <2>1. Wrote(reg', pc', Goal)
      BY <1>1, <1>2, <1>3, OneWrite DEF UserFacts
    <2> QED
      BY <1>2, <1>3, <2>1, AllWritten
  <1>5. bundle.previous = user /\ (backup = None \/ backup = bundle) /\ bundle # None
    BY <1>1, <1>2, BundleParts DEF UserFacts
  <1>6. Server(reg') = IF pc = "ProxyServer" THEN Server(Goal) ELSE Server(reg)
    BY <1>1, <1>2, <1>3, Values DEF Server
  <1>7. CASE task = "apply"
    <2>1. backup = bundle /\ ~DirectActive /\ Applies
      BY <1>1, <1>7 DEF ServerFacts, Applies
    <2>2. Goal = bundle.written
      BY <1>7 DEF Goal
    <2>3. pc' = "check" => CanRestore(reg', backup)
      BY <1>4, <2>1, <2>2 DEF CanRestore
    <2>4. op \in {"verify", "bypass"} => Server(reg') = bundle.target
      BY <1>1, <1>2, <1>6, <2>2 DEF UserFacts
    <2> QED
      BY <1>1, <1>3, <1>4, <1>5, <1>7, <2>1, <2>3, <2>4
         DEF UserFacts, Works, DHolds, DWorks, Applies, DirectActive, CanRestore, Foreign, Keys
  <1>8. CASE task # "apply"
    <2>1. Goal = user /\ op \notin {"verify", "bypass"}
      BY <1>1, <1>5, <1>8 DEF Goal, Typed, Shaped, Holds, Works, Enabling, Keys
    <2>2. reg = user => reg' = user
      BY <1>1, <1>2, <1>3, <2>1, OneWrite
    <2>3. DWorks => Wrote(reg', direct, user)
      BY <1>1, <1>2, <1>3, <2>1, OneWrite DEF UserFacts
    <2>4. Foreign(reg) => Foreign(reg')
      BY <1>6, <2>1, Servers, <1>2 DEF Foreign, Typed, Shaped
    <2>5. pc' \notin Keys => reg' = user
      BY <1>1, <1>4, <2>1
    <2> QED
      BY <1>1, <1>3, <1>4, <1>5, <1>8, <2>1, <2>2, <2>3, <2>4, <2>5
         DEF UserFacts, Works, DHolds, DWorks, Applies, Keys
  <1> QED
    BY <1>7, <1>8

LEMMA WorkUsers ==
    ASSUME Typed, ServerFacts, UserFacts, excuses' = {},
           WriteValue \/ WriteFails \/ CheckFails \/ ApplyDone \/ RestoreChecked \/ RestoreDone
    PROVE  UserFacts'
  <1>0. pc \in {"check", "delete"} => pc \notin Keys
    BY DEF Keys
  <1>1. CASE WriteValue
    BY <1>1, WriteUsers
  <1>2. CASE WriteFails
    BY <1>2, FailsUsers DEF WriteFails, Works
  <1>3. CASE CheckFails
    BY <1>3, FailsUsers DEF CheckFails, Works
  <1>4. CASE ApplyDone
    BY <1>0, <1>4, EndUsers, FaultCounts DEF ApplyDone, Done, disk
  <1>5. CASE RestoreChecked
    <2>1. reg = user
      BY <1>5 DEF RestoreChecked, Goal, UserFacts, Works
    <2> QED
      BY <1>5, <2>1
         DEF RestoreChecked, registry, status, disk, thread, bounds, UserFacts, Holds, Works, DHolds, DWorks,
             Applies, CanRestore, Foreign, Server, Keys
  <1>6. CASE RestoreDone
    <2>1. reg = user /\ (backup' = backup \/ backup' = None)
      BY <1>6 DEF RestoreDone, UserFacts
    <2>2. faults' = 0 => faults = 0
      BY <1>6, FaultCounts DEF RestoreDone
    <2>3. CASE task = "stale"
      <3>1. pc' = "snapshot" /\ UNCHANGED <<registry, thread>>
        BY <1>6, <2>3 DEF RestoreDone
      <3> QED
        BY <2>1, <2>2, <3>1
           DEF registry, thread, UserFacts, Holds, Works, DHolds, DWorks,
               Applies, CanRestore, Foreign, Server, Keys, Wrote
    <2>4. CASE task # "stale"
      BY <1>0, <1>6, <2>1, <2>2, <2>4, EndUsers DEF RestoreDone, Done
    <2> QED
      BY <2>3, <2>4
  <1> QED
    BY <1>1, <1>2, <1>3, <1>4, <1>5, <1>6

LEMMA DirectUsers ==
    ASSUME Typed, ServerFacts, UserFacts, SessionThread, excuses' = {}
    PROVE  UserFacts'
  <1>0. user \in Registry /\ reg \in Registry
    BY DEF Typed, ProxyTypeOK
  <1>1. CASE DirectNothing
    <2>1. task # "apply" /\ pc' = pc /\ direct = "off" /\ direct' = "done"
          /\ UNCHANGED <<reg, user, backup, op, task, bundle, dbundle>>
      BY <1>1 DEF DirectNothing, Excuse, registry, disk, queue
    <2>2. faults' = 0 => Foreign(reg)
      BY <1>1, Obsolete, FaultShows DEF DirectNothing
    <2> QED
      BY <2>1, <2>2
         DEF UserFacts, Works, DHolds, DWorks, Applies, CanRestore, Foreign, Server, Keys, Goal, Wrote
  <1>2. CASE DirectRestores
    <2>1. /\ direct' = "ProxyEnable" /\ dbundle' = backup /\ direct = "off"
          /\ UNCHANGED <<reg, user, backup, pc, op, task, bundle, faults>>
      BY <1>2 DEF DirectRestores, registry, disk, queue, bounds
    <2>2. backup.previous = user
      BY <1>2 DEF DirectRestores, UserFacts
    <2>3. Wrote(reg', direct', user')
      BY <2>1 DEF Wrote
    <2>4. Goal' = Goal
      BY <2>1 DEF Goal
    <2> QED
      BY <2>1, <2>2, <2>3, <2>4
         DEF UserFacts, Works, DWorks, Applies, CanRestore, Foreign, Server, Keys
  <1>3. CASE DirectWrites
    <2>1. /\ direct \in Keys /\ DWorks /\ dbundle.previous = user /\ ~Applies
      BY <1>3 DEF DirectWrites, DWorks, UserFacts, ServerFacts, DirectActive, Keys
    <2>2. /\ reg' = [reg EXCEPT ![direct] = user[direct]] /\ direct' = After[direct]
          /\ direct' \in Keys \cup {"check"}
          /\ UNCHANGED <<user, backup, pc, op, task, bundle, dbundle, faults>> /\ Goal' = Goal
      BY <1>3, <2>1, Steps DEF DirectWrites, disk, queue, bounds, Goal
    <2>3. Wrote(reg', direct', user) /\ (reg = user => reg' = user)
      BY <1>0, <2>1, <2>2, OneWrite DEF UserFacts
    <2>4. direct' = "check" => reg' = user
      <3>1. reg' \in Registry
        BY <1>0, <2>1, <2>2, Values
      <3> QED
        BY <1>0, <2>3, <3>1, AllWritten
    <2>5. Works => task # "apply" /\ op \notin {"verify", "bypass"} /\ Goal = user
      BY <2>1 DEF Applies, Typed, Shaped, Holds, Enabling, Goal, UserFacts, Works, Keys
    <2>6. Works => Wrote(reg', pc, Goal)
      <3>1. Works => Wrote(reg, pc, user)
        BY <2>5 DEF UserFacts
      <3>2. Wrote(reg, pc, user) => Wrote(reg', pc, user)
        BY <1>0, <2>1, <2>2, OneWrite
      <3> QED
        BY <2>5, <3>1, <3>2
    <2>7. pc # "persist"
      BY <2>1 DEF Applies, Typed, Shaped
    <2> QED
      BY <2>1, <2>2, <2>3, <2>4, <2>5, <2>6, <2>7 DEF UserFacts, Works, DWorks, Keys
  <1>4. CASE DirectFails
    <2>1. /\ direct' = "done" /\ ~Torn
          /\ UNCHANGED <<reg, user, backup, pc, op, task, bundle>>
      BY <1>4 DEF DirectFails, Excuse, registry, disk, queue
    <2>2. faults' # 0
      <3>1. CASE direct = "check" /\ reg # dbundle.previous
        <4>1. Wrote(reg, "check", user) /\ dbundle.previous = user
          BY <3>1 DEF UserFacts, DWorks
        <4> QED
          BY <1>0, <3>1, <4>1, AllWritten
      <3>2. CASE Fault
        BY <3>2, FaultShows
      <3> QED
        BY <1>4, <3>1, <3>2 DEF DirectFails
    <2>3. Goal' = Goal
      BY <2>1 DEF Goal
    <2> QED
      BY <2>1, <2>2, <2>3
         DEF UserFacts, Works, DWorks, Torn, CanRestore, Server, Keys
  <1>5. CASE DirectChecked
    <2>1. reg = user
      BY <1>5 DEF DirectChecked, UserFacts, DWorks
    <2>2. /\ direct' = "delete" /\ UNCHANGED <<reg, user, backup, pc, op, task, bundle, faults>> /\ Goal' = Goal
      BY <1>5 DEF DirectChecked, registry, disk, queue, bounds, Goal
    <2> QED
      BY <2>1, <2>2 DEF UserFacts, Works, DWorks, Applies, CanRestore, Foreign, Server, Keys
  <1>6. CASE DirectDone
    <2>1. reg = user /\ Foreign(reg) /\ ~Applies
      BY <1>6 DEF DirectDone, UserFacts, ServerFacts, DirectActive
    <2>2. direct' = "done" /\ UNCHANGED <<reg, user, pc, op, task, bundle>> /\ Goal' = Goal
      BY <1>6 DEF DirectDone, registry, queue, Goal
    <2>3. backup' = backup \/ backup' = None
      BY <1>6 DEF DirectDone
    <2>4. pc # "persist"
      BY <2>1 DEF Applies, Typed, Shaped
    <2> QED
      BY <2>1, <2>2, <2>3, <2>4
         DEF UserFacts, Works, DWorks, Applies, CanRestore, Foreign, Server, Keys
  <1> QED
    BY <1>1, <1>2, <1>3, <1>4, <1>5, <1>6 DEF SessionThread

LEMMA LifeUsers ==
    ASSUME Typed, ServerFacts, UserFacts, Life \/ OtherPrograms, excuses' = {}
    PROVE  UserFacts'
  <1>a. backup # None => /\ backup.target \in Targets /\ Server(backup.written) = backup.target
    BY BundleParts DEF Typed, ProxyTypeOK, Shaped, Matches
  <1>1. ASSUME UNCHANGED <<registry, disk, queue, thread, bounds>> PROVE UserFacts'
    BY <1>1
       DEF registry, disk, queue, thread, bounds, UserFacts, Works, DWorks, Applies, CanRestore, Foreign,
           Server, Goal, Wrote
  <1>2. CASE Launch
    BY <1>1, <1>2 DEF Launch
  <1>3. ASSUME NEW cause, Fences(cause) PROVE UserFacts'
    BY <1>1, <1>3 DEF Fences
  <1>4. CASE QuitCancelled
    BY <1>1, <1>4 DEF QuitCancelled
  <1>5. ASSUME Dies PROVE UserFacts'
    <2>1. pc' = "idle" /\ direct' = "off" /\ ~Torn /\ UNCHANGED <<reg, user, backup>>
      BY <1>5 DEF Dies, Excuse, registry, disk
    <2> QED
      BY <2>1 DEF UserFacts, Works, DWorks, Applies, Torn, CanRestore, Server, Keys
  <1>6. ASSUME NEW r \in Registry, Takeover(r) PROVE UserFacts'
    <2>1. /\ ~Writing /\ reg' = r /\ user' = r /\ Server(r) \notin Targets
          /\ UNCHANGED <<backup, pc, op, task, bundle, direct, dbundle, faults>>
      BY <1>6, Servers DEF Takeover, Excuse, disk, queue, thread, Edit
    <2>2. backup # None /\ CanRestore(r, backup) => backup.previous = r
      BY <1>a, <2>1 DEF CanRestore
    <2> QED
      BY <2>1, <2>2 DEF UserFacts, Works, DWorks, Applies, Writing, Foreign, Keys
  <1>7. ASSUME NEW r \in Registry, Sweep(r) PROVE UserFacts'
    <2>1. /\ ~Writing /\ reg' = r /\ Server(r) = Server(reg) /\ ~Foreign(reg)
          /\ UNCHANGED <<user, backup, pc, op, task, bundle, direct, dbundle, faults>>
      BY <1>7 DEF Sweep, Excuse, disk, queue, thread, Edit, Foreign
    <2>2. backup # None /\ CanRestore(reg, backup) /\ CanRestore(r, backup)
      BY <2>1 DEF ServerFacts, CanRestore
    <2>3. pc \notin {"snapshot", "delete"} /\ direct # "delete"
      BY <2>1 DEF ServerFacts
    <2> QED
      BY <2>1, <2>2, <2>3 DEF UserFacts, Works, DWorks, Applies, Writing, Foreign, Keys
  <1> QED
    BY <1>2, <1>3, <1>4, <1>5, <1>6, <1>7
       DEF Life, OtherPrograms, Quit, SessionEnds, QuitDone, SessionOver, Crash

-----------------------------------------------------------------------------
(* The theorems. *)

\* An excuse is never withdrawn.
LEMMA ExcusesGrow == Typed /\ [Next]_vars => excuses \subseteq excuses'
  <1> SUFFICES ASSUME Typed, [Next]_vars PROVE excuses \subseteq excuses'
    OBVIOUS
  <1>1. CASE UNCHANGED vars
    BY <1>1 DEF vars
  <1>2. CASE Progress
    BY <1>2
       DEF Progress, InitNothing, InitRestores, InitDrops, InitConflict, EnableProbeFails, EnableFenced,
           EnableReadFails, EnableAlready, EnableRestoresStale, EnableGoesOn, EnableSnapshot, Persist,
           PersistFails, WriteValue, WriteFails, CheckFails, Fails, ApplyDone, RestoreChecked, RestoreDone,
           Excuse
  <1>3. CASE Verify \/ Requests
    BY <1>3
       DEF Verify, VerifyConflict, VerifyRepairs, Requests, KernelReadFails, KernelNothing, KernelConflict,
           KernelRestores, DisableNothing, DisableRestores, NetDownRestores, ReadFails, BypassSaves,
           BypassConflict, BypassApplies, EnableBegins, Excuse
  <1>4. CASE SessionThread
    BY <1>4
       DEF SessionThread, DirectNothing, DirectRestores, DirectWrites, DirectFails, DirectChecked,
           DirectDone, Excuse
  <1>5. CASE Life \/ OtherPrograms
    BY <1>5
       DEF Life, Launch, Quit, SessionEnds, Fences, QuitCancelled, QuitDone, SessionOver, Crash, Dies,
           OtherPrograms, Takeover, Sweep, Excuse
  <1> QED
    BY <1>1, <1>2, <1>3, <1>4, <1>5 DEF Next

LEMMA InitInv == Init => Inv
  <1> SUFFICES ASSUME Init PROVE Inv
    OBVIOUS
  <1>1. Foreign(reg)
    BY Servers DEF Init, Foreign
  <1>2. ServerFacts
    BY <1>1 DEF Init, ServerFacts, Holds, Works, DHolds, DWorks, Applies, DirectActive, Keys
  <1>3. UserFacts
    BY DEF Init, UserFacts, Works, DWorks, Applies, Keys
  <1> QED
    BY <1>2, <1>3, InitTyped DEF Inv

LEMMA InvKept == Inv /\ [Next]_vars => Inv'
  <1> SUFFICES ASSUME Inv, [Next]_vars PROVE Inv'
    OBVIOUS
  <1>1. Typed /\ Typed' /\ excuses \subseteq excuses'
    BY StepsTyped, ExcusesGrow DEF Inv
  <1>2. ASSUME "raced" \notin excuses' PROVE ServerFacts'
    <2>1. ServerFacts
      BY <1>1, <1>2 DEF Inv
    <2>2. CASE UNCHANGED vars
      BY <2>1, <2>2
         DEF vars, registry, disk, status, queue, thread, ServerFacts, Holds, Works, DHolds, DWorks, Applies,
             DirectActive, Foreign, Server
    <2> QED
      BY <1>1, <1>2, <2>1, <2>2, RecoveryServers, RequestsServers, EnableServers, WorkServers, DirectServers,
         LifeServers DEF Next, Progress
  <1>3. ASSUME excuses' = {} PROVE UserFacts'
    <2>1. ServerFacts /\ UserFacts
      BY <1>1, <1>3 DEF Inv
    <2>2. CASE UNCHANGED vars
      BY <2>1, <2>2
         DEF vars, registry, disk, queue, thread, bounds, UserFacts, Works, DWorks, Applies, CanRestore,
             Foreign, Server, Goal, Wrote
    <2> QED
      BY <1>1, <1>3, <2>1, <2>2, RecoveryUsers, RequestsUsers, EnableUsers, WorkUsers, DirectUsers,
         LifeUsers DEF Next, Progress
  <1> QED
    BY <1>1, <1>2, <1>3 DEF Inv

\* Who writes the three values: the operation in the queue, the session-end
\* thread, and other programs.
LEMMA RegistryMoves ==
    ASSUME [Next]_vars
    PROVE  \/ UNCHANGED registry
           \/ WriteValue
           \/ DirectWrites
           \/ \E r \in Registry : Takeover(r) \/ Sweep(r)
  <1>1. CASE Progress
    BY <1>1
       DEF Progress, InitNothing, InitRestores, InitDrops, InitConflict, EnableProbeFails, EnableFenced,
           EnableReadFails, EnableAlready, EnableRestoresStale, EnableGoesOn, EnableSnapshot, Persist,
           PersistFails, WriteFails, CheckFails, ApplyDone, RestoreChecked, RestoreDone
  <1>2. CASE Verify \/ Requests
    BY <1>2
       DEF Verify, VerifyConflict, VerifyRepairs, Requests, KernelReadFails, KernelNothing, KernelConflict,
           KernelRestores, DisableNothing, DisableRestores, NetDownRestores, ReadFails, BypassSaves,
           BypassConflict, BypassApplies, EnableBegins
  <1>3. CASE SessionThread
    BY <1>3 DEF SessionThread, DirectNothing, DirectRestores, DirectFails, DirectChecked, DirectDone
  <1>4. CASE Life
    BY <1>4 DEF Life, Launch, Quit, SessionEnds, Fences, QuitCancelled, QuitDone, SessionOver, Crash, Dies
  <1>5. CASE OtherPrograms
    BY <1>5 DEF OtherPrograms
  <1>6. CASE UNCHANGED vars
    BY <1>6 DEF vars
  <1> QED
    BY <1>1, <1>2, <1>3, <1>4, <1>5, <1>6 DEF Next

\* The conjunction holds of every state of the service, the session-end thread
\* and the registry.
THEOREM Invariance == Spec => []Inv
  BY InitInv, InvKept, PTL DEF Spec

\* "The exact-restore guarantee": without a bundle on disk the three values are
\* the user's.
THEOREM RestoredExactly == Spec => []ExactRestore
  <1>1. Inv => ExactRestore
    BY DEF Inv, UserFacts, ExactRestore
  <1> QED
    BY <1>1, Invariance, PTL

\* The recovery rule never trusts a stale bundle.
THEOREM RecoveryRestoresUsers == Spec => []RestoresUsers
  <1>1. Inv => RestoresUsers
    BY DEF Inv, UserFacts, RestoresUsers
  <1> QED
    BY <1>1, Invariance, PTL

\* A core is stopped only when the proxy no longer points at it.
THEOREM StopIsSafe == Spec => []KernelStopSafe
  <1>1. Inv => KernelStopSafe
    BY DEF Inv, ServerFacts, KernelStopSafe, Foreign
  <1> QED
    BY <1>1, Invariance, PTL

\* When the session-end handler has returned and no call failed, the proxy is
\* not Murge's.
THEOREM SessionEndIsSafe == Spec => []SessionEndSafe
  <1>1. Inv => SessionEndSafe
    BY DEF Inv, UserFacts, SessionEndSafe, Foreign
  <1> QED
    BY <1>1, Invariance, PTL

\* The three operations that ask whether the values are still Murge's, the recovery
\* of a launch, the restore before a core stops and the guard, leave the user's
\* values alone.
THEOREM TakeoverIsLeft == Spec => PassiveLeavesUser
  <1> DEFINE Leaves == reg = user /\ excuses' = {} /\ op \in {"init", "kernel", "verify"} => reg' = user'
  <1>1. ASSUME Inv, [Next]_vars, reg = user, excuses' = {}, op \in {"init", "kernel", "verify"}
        PROVE  reg' = user'
    <2>1. Typed /\ ServerFacts /\ UserFacts /\ Foreign(reg)
      <3>1. Typed /\ excuses = {}
        BY <1>1, ExcusesGrow DEF Inv
      <3> QED
        BY <1>1, <3>1, Servers DEF Inv, Typed, ProxyTypeOK, Shaped, Foreign
    <2>2. CASE UNCHANGED registry
      BY <1>1, <2>2 DEF registry
    <2>3. CASE WriteValue
      <3>1. Works /\ pc \in Keys /\ user \in Registry
        BY <2>1, <2>3 DEF WriteValue, Works, Typed, ProxyTypeOK
      <3>2. op # "verify"
        BY <2>1, <3>1, BundleParts DEF UserFacts, Foreign, Typed, Shaped, Holds
      <3>3. Goal = user
        BY <1>1, <2>1, <3>1, <3>2 DEF Goal, UserFacts, Typed, Shaped, Holds, Works, Enabling, Keys
      <3> QED
        BY <1>1, <2>3, <3>1, <3>3, OneWrite DEF WriteValue
    <2>4. CASE DirectWrites
      <3>1. direct \in Keys /\ user \in Registry /\ dbundle.previous = user
        BY <2>1, <2>4 DEF DirectWrites, DWorks, UserFacts, Typed, ProxyTypeOK
      <3> QED
        BY <1>1, <2>4, <3>1, OneWrite DEF DirectWrites
    <2>5. ASSUME NEW r \in Registry, Takeover(r) PROVE reg' = user'
      BY <2>5 DEF Takeover
    <2>6. ASSUME NEW r \in Registry, Sweep(r) PROVE FALSE
      BY <2>1, <2>6 DEF Sweep, Foreign
    <2> QED
      BY <1>1, <2>2, <2>3, <2>4, <2>5, <2>6, RegistryMoves
  <1>2. Inv /\ [Next]_vars => [Leaves]_vars
    BY <1>1
  <1> QED
    BY <1>2, Invariance, PTL DEF Spec, PassiveLeavesUser
=============================================================================
