---------------------------- MODULE FilesChannel ----------------------------
(***************************************************************************)
(* The files channel of core/core_sync.py (publish_files, receive_files,   *)
(* acknowledge_files and their ACKs) with its client run_once of           *)
(* core/environment_sync.py: one node publishes whole revisions of         *)
(* selected artifacts, its peer applies the newest one to the local target *)
(* bound to the artifact and acknowledges it.  Both nodes do both; the two *)
(* directions share no state, so one is enough.  On each node everything   *)
(* runs inside one tick (live.py), one step after the other.               *)
(***************************************************************************)
EXTENDS Naturals, FiniteSets

CONSTANTS
    Artifacts,      (* selected artifacts                                  *)
    Contents,       (* contents of an artifact, named by their digest      *)
    Reverts,        (* whether a source may return to a published content  *)
    MaxChanges,     (* bound on changes of the sources                     *)
    MaxLocalEdits,  (* bound on edits of the targets by the peer's user    *)
    MaxCrashes      (* bound on crashes                                    *)

ASSUME RevertsAssumption == Reverts \in BOOLEAN

VARIABLES
    source,         (* the publisher's files                               *)
    versions,       (* file_versions and pending_files of the publisher    *)
    outS, outR,     (* packages, as the publisher and the peer see them    *)
    ackR, ackS,     (* ACKs, as the peer and the publisher see them        *)
    ackGone,        (* ACKs whose removal has not reached the peer         *)
    high,           (* applied_file_sequences: {} or {the last package}    *)
    target,         (* the peer's files                                    *)
    baseline,       (* the binding: {} or {the content it expects}         *)
    todo,           (* packages received and not yet handled               *)
    pc, at,         (* per node: where it is, and {} or {what it handles}  *)
    applied,        (* history: packages that were applied, in order       *)
    changes, localEdits, crashes

files == <<source, target, baseline>>
folder == <<outS, outR, ackR, ackS, ackGone>>
bounds == <<changes, localEdits, crashes>>
vars == <<files, versions, folder, high, todo, pc, at, applied, bounds>>

Nodes == {"publisher", "peer"}

(* What the user of a node puts into a target by hand. *)
Initially == "initially"

Init ==
    /\ source \in [Artifacts -> Contents]
    /\ versions = {}
    /\ outS = {} /\ outR = {} /\ ackR = {} /\ ackS = {} /\ ackGone = {}
    /\ high = [a \in Artifacts |-> {}]
    /\ target = [a \in Artifacts |-> Initially]
    /\ baseline = [a \in Artifacts |-> {}]
    /\ todo = {}
    /\ pc = [n \in Nodes |-> "idle"] /\ at = [n \in Nodes |-> {}]
    /\ applied = [a \in Artifacts |-> 0]
    /\ changes = 0 /\ localEdits = 0 /\ crashes = 0

-----------------------------------------------------------------------------
(* The users: the publisher's changes the selected files, the peer's binds *)
(* an artifact to a target (again after an edit), and edits the target.    *)

Change(a, c) ==
    /\ changes < MaxChanges
    /\ c # source[a]
    /\ ~Reverts => \A v \in versions : <<v.artifact, v.content>> # <<a, c>>
    /\ source' = [source EXCEPT ![a] = c]
    /\ changes' = changes + 1
    /\ UNCHANGED <<versions, folder, high, target, baseline, todo, pc, at, applied,
                   localEdits, crashes>>

Bind(a) ==
    /\ baseline[a] # {target[a]}
    /\ baseline' = [baseline EXCEPT ![a] = {target[a]}]
    /\ UNCHANGED <<source, target, versions, folder, high, todo, pc, at, applied, bounds>>

EditTarget(a, c) ==
    /\ localEdits < MaxLocalEdits
    /\ c # target[a]
    /\ target' = [target EXCEPT ![a] = c]
    /\ localEdits' = localEdits + 1
    /\ UNCHANGED <<source, baseline, versions, folder, high, todo, pc, at, applied,
                   changes, crashes>>

-----------------------------------------------------------------------------
(* publish_files.  A revision is named by its content, and a package by    *)
(* its revision and publication number.                                    *)

Package(v) == [artifact |-> v.artifact, content |-> v.content, sequence |-> v.sequence]
Version(p, s) == [artifact |-> p.artifact, content |-> p.content, sequence |-> p.sequence,
                  status |-> s]
Published(a) == {v \in versions : v.artifact = a /\ v.content = source[a]}

(* Variants, each named for the mistake it makes, stand before the         *)
(* definition they replace when the properties are tried against them.     *)

PublishNewNumberedByAcks(a) ==
    /\ pc["publisher"] = "idle"
    /\ Published(a) = {}
    /\ LET answered == {v \in versions : v.status # "pending"}
           p == [artifact |-> a, content |-> source[a], sequence |-> Cardinality(answered) + 1]
       IN  /\ versions' = versions \cup {Version(p, "pending")}
           /\ at' = [at EXCEPT !["publisher"] = {p}]
    /\ pc' = [pc EXCEPT !["publisher"] = "write package"]
    /\ UNCHANGED <<files, folder, high, todo, applied, bounds>>

(* A new revision: its number is the count of the publications so far, and *)
(* the state is saved before the package is written.                       *)
PublishNew(a) ==
    /\ pc["publisher"] = "idle"
    /\ Published(a) = {}
    /\ LET p == [artifact |-> a, content |-> source[a], sequence |-> Cardinality(versions) + 1]
       IN  /\ versions' = versions \cup {Version(p, "pending")}
           /\ at' = [at EXCEPT !["publisher"] = {p}]
    /\ pc' = [pc EXCEPT !["publisher"] = "write package"]
    /\ UNCHANGED <<files, folder, high, todo, applied, bounds>>

PublishAgainAnswered(a) ==
    /\ pc["publisher"] = "idle"
    /\ \E v \in Published(a) :
        /\ v.status # "pending"
        /\ Package(v) \notin outS
        /\ at' = [at EXCEPT !["publisher"] = {Package(v)}]
    /\ pc' = [pc EXCEPT !["publisher"] = "write package"]
    /\ UNCHANGED <<files, versions, folder, high, todo, applied, bounds>>

(* A revision that was published before: only when it is still pending and *)
(* its package was never written.  In all other cases nothing changes.     *)
PublishAgain(a) ==
    /\ pc["publisher"] = "idle"
    /\ \E v \in Published(a) :
        /\ v.status = "pending"
        /\ Package(v) \notin outS
        /\ at' = [at EXCEPT !["publisher"] = {Package(v)}]
    /\ pc' = [pc EXCEPT !["publisher"] = "write package"]
    /\ UNCHANGED <<files, versions, folder, high, todo, applied, bounds>>

WritePackage ==
    /\ pc["publisher"] = "write package"
    /\ outS' = outS \cup at["publisher"]
    /\ pc' = [pc EXCEPT !["publisher"] = "idle"]
    /\ at' = [at EXCEPT !["publisher"] = {}]
    /\ UNCHANGED <<files, versions, outR, ackR, ackS, ackGone, high, todo, applied, bounds>>

-----------------------------------------------------------------------------
(* _process_file_acks.  An ACK of a package that is not pending is passed  *)
(* over and stays in the folder.                                           *)

AckSaveByArtifact ==
    /\ pc["publisher"] = "idle"
    /\ \E k \in ackS : \E v \in versions :
        /\ v.status = "pending" /\ v.artifact = k.of.artifact
        /\ versions' = (versions \ {v}) \cup {Version(Package(v), k.status)}
        /\ at' = [at EXCEPT !["publisher"] = {k}]
    /\ pc' = [pc EXCEPT !["publisher"] = "unlink package"]
    /\ UNCHANGED <<files, folder, high, todo, applied, bounds>>

AckSave ==
    /\ pc["publisher"] = "idle"
    /\ \E k \in ackS : \E v \in versions :
        /\ v.status = "pending" /\ Package(v) = k.of
        /\ versions' = (versions \ {v}) \cup {Version(k.of, k.status)}
        /\ at' = [at EXCEPT !["publisher"] = {k}]
    /\ pc' = [pc EXCEPT !["publisher"] = "unlink package"]
    /\ UNCHANGED <<files, folder, high, todo, applied, bounds>>

UnlinkPackage ==
    /\ pc["publisher"] = "unlink package"
    /\ outS' = outS \ {k.of : k \in at["publisher"]}
    /\ pc' = [pc EXCEPT !["publisher"] = "unlink ack"]
    /\ UNCHANGED <<files, versions, outR, ackR, ackS, ackGone, high, todo, at, applied, bounds>>

UnlinkAck ==
    /\ pc["publisher"] = "unlink ack"
    /\ ackS' = ackS \ at["publisher"]
    /\ ackGone' = ackGone \cup at["publisher"]
    /\ pc' = [pc EXCEPT !["publisher"] = "idle"]
    /\ at' = [at EXCEPT !["publisher"] = {}]
    /\ UNCHANGED <<files, versions, outS, outR, ackR, high, todo, applied, bounds>>

-----------------------------------------------------------------------------
(* receive_files: the packages without an ACK.  The ones that the applied  *)
(* number of their artifact has reached are acknowledged; of the others    *)
(* the newest of each artifact is handed to run_once.                      *)

Candidates == {p \in outR : \A k \in ackR : k.of # p}

(* The packages are looked at in the order of their numbers, and a number  *)
(* that is bound to another package raises.                                *)
Agrees(p) == \A h \in high[p.artifact] : p.sequence = h.sequence => p = h
Reached(p) == \A q \in Candidates : q.sequence <= p.sequence => Agrees(q)

Stale(p) == \E h \in high[p.artifact] : p.sequence <= h.sequence

Newest(p) ==
    \A q \in Candidates : q.artifact = p.artifact => q.sequence <= p.sequence

AckAgainOnlySuperseded ==
    /\ pc["peer"] = "idle"
    /\ \E p \in Candidates :
        /\ Reached(p)
        /\ Stale(p) /\ {p} # high[p.artifact]
        /\ ackR' = ackR \cup {[of |-> p, status |-> "superseded"]}
    /\ UNCHANGED <<files, versions, outS, outR, ackS, ackGone, high, todo, pc, at, applied, bounds>>

(* The ACK of an applied package is written again after a crash.           *)
AckAgain ==
    /\ pc["peer"] = "idle"
    /\ \E p \in Candidates :
        /\ Reached(p)
        /\ Stale(p)
        /\ ackR' = ackR \cup {[of |-> p, status |-> IF {p} = high[p.artifact] THEN "applied"
                                                    ELSE "superseded"]}
    /\ UNCHANGED <<files, versions, outS, outR, ackS, ackGone, high, todo, pc, at, applied, bounds>>

ReceiveAll ==
    /\ pc["peer"] = "idle"
    /\ Candidates # {}
    /\ \A p \in Candidates : Agrees(p)
    /\ todo' = {p \in Candidates : ~Stale(p)}
    /\ pc' = [pc EXCEPT !["peer"] = "apply"]
    /\ UNCHANGED <<files, versions, folder, high, at, applied, bounds>>

Receive ==
    /\ pc["peer"] = "idle"
    /\ Candidates # {}
    /\ \A p \in Candidates : Agrees(p)
    /\ \A p \in Candidates : ~Stale(p)
    /\ todo' = {p \in Candidates : Newest(p)}
    /\ pc' = [pc EXCEPT !["peer"] = "apply"]
    /\ UNCHANGED <<files, versions, folder, high, at, applied, bounds>>

-----------------------------------------------------------------------------
(* run_once on what was received.  The target is replaced together with    *)
(* the baseline of its binding (module ChangedFiles), and only if it is as *)
(* the binding expects or already the new content.                         *)

Permitted(p) ==
    /\ baseline[p.artifact] # {}
    /\ target[p.artifact] \in baseline[p.artifact] \cup {p.content}

Apply ==
    /\ pc["peer"] = "apply"
    /\ \E p \in todo :
        /\ Permitted(p)
        /\ target' = [target EXCEPT ![p.artifact] = p.content]
        /\ baseline' = [baseline EXCEPT ![p.artifact] = {p.content}]
        /\ applied' = [applied EXCEPT ![p.artifact] = p.sequence]
        /\ todo' = todo \ {p}
        /\ at' = [at EXCEPT !["peer"] = {p}]
    /\ pc' = [pc EXCEPT !["peer"] = "save applied"]
    /\ UNCHANGED <<source, versions, folder, high, bounds>>

(* pending-binding, or a conflict with a local edit: no ACK.               *)
LeaveOut ==
    /\ pc["peer"] = "apply"
    /\ \E p \in todo : ~Permitted(p) /\ todo' = todo \ {p}
    /\ UNCHANGED <<files, versions, folder, high, pc, at, applied, bounds>>

EndRun ==
    /\ pc["peer"] = "apply"
    /\ todo = {}
    /\ pc' = [pc EXCEPT !["peer"] = "idle"]
    /\ UNCHANGED <<files, versions, folder, high, todo, at, applied, bounds>>

(* acknowledge_files: the applied number is saved before the ACK.          *)
SaveApplied ==
    /\ pc["peer"] = "save applied"
    /\ \E p \in at["peer"] :
        IF Stale(p) /\ high[p.artifact] # {p}
        THEN /\ pc' = [pc EXCEPT !["peer"] = "apply"]
             /\ at' = [at EXCEPT !["peer"] = {}]
             /\ UNCHANGED high
        ELSE /\ high' = [high EXCEPT ![p.artifact] = {p}]
             /\ pc' = [pc EXCEPT !["peer"] = "write ack"]
             /\ UNCHANGED at
    /\ UNCHANGED <<files, versions, folder, todo, applied, bounds>>

WriteAck ==
    /\ pc["peer"] = "write ack"
    /\ ackR' = ackR \cup {[of |-> p, status |-> "applied"] : p \in at["peer"]}
    /\ pc' = [pc EXCEPT !["peer"] = "apply"]
    /\ at' = [at EXCEPT !["peer"] = {}]
    /\ UNCHANGED <<files, versions, outS, outR, ackS, ackGone, high, todo, applied, bounds>>

-----------------------------------------------------------------------------
(* The cloud folder, and crashes.                                          *)

CopyPackage ==
    /\ \E p \in outS \ outR : outR' = outR \cup {p}
    /\ UNCHANGED <<files, versions, outS, ackR, ackS, ackGone, high, todo, pc, at, applied, bounds>>

DropPackage ==
    /\ \E p \in outR \ outS : outR' = outR \ {p}
    /\ UNCHANGED <<files, versions, outS, ackR, ackS, ackGone, high, todo, pc, at, applied, bounds>>

CopyAck ==
    /\ \E k \in ackR \ (ackS \cup ackGone) : ackS' = ackS \cup {k}
    /\ UNCHANGED <<files, versions, outS, outR, ackR, ackGone, high, todo, pc, at, applied, bounds>>

DropAck ==
    /\ \E k \in ackGone : ackGone' = ackGone \ {k} /\ ackR' = ackR \ {k}
    /\ UNCHANGED <<files, versions, outS, outR, ackS, high, todo, pc, at, applied, bounds>>

Crash(n) ==
    /\ pc[n] # "idle"
    /\ crashes < MaxCrashes
    /\ crashes' = crashes + 1
    /\ pc' = [pc EXCEPT ![n] = "idle"]
    /\ at' = [at EXCEPT ![n] = {}]
    /\ todo' = IF n = "peer" THEN {} ELSE todo
    /\ UNCHANGED <<files, versions, folder, high, applied, changes, localEdits>>

Users ==
    \E a \in Artifacts :
        \/ \E c \in Contents : Change(a, c) \/ EditTarget(a, c)
        \/ Bind(a)
Publish == \E a \in Artifacts : PublishNew(a) \/ PublishAgain(a)
FinishPublisher == WritePackage \/ UnlinkPackage \/ UnlinkAck
HandleReceived == Apply \/ LeaveOut \/ EndRun \/ SaveApplied \/ WriteAck
Deliver == CopyPackage \/ DropPackage \/ CopyAck \/ DropAck

Next ==
    \/ Users
    \/ Publish \/ AckSave \/ FinishPublisher
    \/ AckAgain \/ Receive \/ HandleReceived
    \/ Deliver
    \/ \E n \in Nodes : Crash(n)

Spec == Init /\ [][Next]_vars

(* Ticks are scheduled for good and the folder delivers; the users and the *)
(* crashes owe nothing.                                                    *)
Fairness ==
    /\ \A a \in Artifacts : SF_vars(PublishNew(a) \/ PublishAgain(a))
    /\ SF_vars(AckSave) /\ WF_vars(FinishPublisher)
    /\ WF_vars(AckAgain) /\ WF_vars(Receive) /\ WF_vars(HandleReceived)
    /\ WF_vars(Deliver)

FairSpec == Spec /\ Fairness

-----------------------------------------------------------------------------
(* A publication number names one package for ever, also when the          *)
(* publisher crashed while publishing: the peer never meets two.           *)
NumberNeverReused ==
    \A p, q \in {Package(v) : v \in versions} : p.sequence = q.sequence => p = q

(* The peer's target only moves on to later publications, whatever order   *)
(* the packages arrive in and wherever a run is cut off.                   *)
TargetNeverGoesBack == [][\A a \in Artifacts : applied'[a] >= applied[a]]_vars

(* "Only receiving-device ACKs establish delivery": a revision that the    *)
(* publisher calls applied was applied, or a later one was; one that it    *)
(* calls superseded was overtaken by a later one that was applied.         *)
StatusIsTrue ==
    \A v \in versions :
        /\ v.status = "applied" => applied[v.artifact] >= v.sequence
        /\ v.status = "superseded" => applied[v.artifact] > v.sequence

(* A target that is bound, and free of local edits.                        *)
InStep(a) == baseline[a] = {target[a]}

(* "Process the newest full selected revision": where nobody edits the     *)
(* target by hand and it stays in step with its binding, it becomes and    *)
(* stays what the publisher selects.                                       *)
NewestDelivered ==
    \A a \in Artifacts :
        [](localEdits = 0) /\ <>[]InStep(a) => <>[](target[a] = source[a])

(* In step, every package gets its answer, applied or superseded, also     *)
(* after a crash between the apply and the ACK.                            *)
EveryPackageAnswered ==
    \A a \in Artifacts : <>[]InStep(a) =>
        \A c \in Contents :
            []((\E p \in outS : p.artifact = a /\ p.content = c) =>
                 <>(\E v \in versions : v.artifact = a /\ v.content = c /\ v.status # "pending"))

=============================================================================
