-------------------------- MODULE FilesChannelProofs --------------------------
(***************************************************************************)
(* Proofs about FilesChannel, for every set of artifacts and contents and  *)
(* any number of changes, edits and crashes.                               *)
(*                                                                         *)
(* The peer forgets what it applied when it crashes before it saves the    *)
(* number.  The inductive invariant says why it never goes back for all    *)
(* that: a package that was applied and not saved cannot leave the folder, *)
(* so the next run meets it and takes it, or a newer one.                  *)
(***************************************************************************)
EXTENDS FilesChannel, FiniteSetTheorems, TLAPS

PackageType == [artifact : Artifacts, content : Contents, sequence : Nat]
AckType == [of : PackageType, status : {"applied", "superseded"}]
VersionType ==
    [artifact : Artifacts, content : Contents, sequence : Nat,
     status : {"pending", "applied", "superseded"}]

Places ==
    {"idle", "write package", "unlink package", "unlink ack",
     "apply", "save applied", "write ack"}

TypeOK ==
    /\ source \in [Artifacts -> Contents]
    /\ versions \subseteq VersionType
    /\ outS \subseteq PackageType /\ outR \subseteq PackageType
    /\ ackR \subseteq AckType /\ ackS \subseteq AckType /\ ackGone \subseteq AckType
    /\ high \in [Artifacts -> SUBSET PackageType]
    /\ applied \in [Artifacts -> Nat]
    /\ todo \subseteq PackageType
    /\ pc \in [Nodes -> Places]
    /\ at \in [Nodes -> SUBSET (PackageType \cup AckType)]

Numbered ==
    /\ IsFiniteSet(versions)
    /\ \A v \in versions : v.sequence \in 1..Cardinality(versions)
    /\ \A v, w \in versions : v.sequence = w.sequence => v = w

Issued == {Package(v) : v \in versions}

OnlyIssued ==
    /\ outS \subseteq Issued /\ outR \subseteq Issued
    /\ pc["publisher"] = "write package" => at["publisher"] \subseteq Issued

(* The saved number is one package of the artifact, and it was applied.    *)
HighApplied ==
    \A a \in Artifacts : \A h \in high[a] :
        h \in Issued /\ h.artifact = a /\ h.sequence <= applied[a] /\ \A g \in high[a] : g = h

(* What an ACK says, the saved number of the artifact says as well.        *)
Answered(k) ==
    \E h \in high[k.of.artifact] :
        k.of.sequence <= h.sequence /\ (k.status = "superseded" => k.of.sequence < h.sequence)

AcksTrue ==
    /\ \A k \in ackR \cup ackS \cup ackGone : Answered(k)
    /\ pc["publisher"] \in {"unlink package", "unlink ack"} =>
           \A k \in at["publisher"] : k \in AckType /\ Answered(k)

(* A package leaves the publisher's folder only after its ACK.             *)
RemovedIsAnswered == \A p \in outR \ outS : Stale(p)

(* What was applied is saved, or its package is still in the folder.       *)
Pending(p) == p \in outS /\ p \in outR
AppliedIsFound ==
    \A a \in Artifacts :
        \/ applied[a] = 0
        \/ \E h \in high[a] : h.sequence = applied[a]
        \/ \E p \in outR : Pending(p) /\ p.artifact = a /\ p.sequence = applied[a]

TodoIsNewer ==
    \A p \in todo :
        /\ Pending(p) /\ ~Stale(p) /\ applied[p.artifact] <= p.sequence
        /\ \A q \in todo : q.artifact = p.artifact => q = p

AtPeer ==
    \A p \in at["peer"] :
        /\ \A q \in at["peer"] : q = p
        /\ pc["peer"] = "save applied" =>
               /\ Pending(p) /\ ~Stale(p) /\ applied[p.artifact] = p.sequence
               /\ \A q \in todo : q.artifact # p.artifact
        /\ pc["peer"] = "write ack" => p \in PackageType /\ high[p.artifact] = {p}

IInv ==
    /\ TypeOK /\ Numbered /\ OnlyIssued /\ HighApplied /\ AcksTrue
    /\ RemovedIsAnswered /\ AppliedIsFound /\ TodoIsNewer /\ AtPeer /\ StatusIsTrue

-----------------------------------------------------------------------------
(* Facts about the operators.                                              *)

LEMMA IssuedType ==
    ASSUME TypeOK
    PROVE  /\ Issued \subseteq PackageType
           /\ \A v \in versions : Package(v) \in Issued /\ Package(v).sequence = v.sequence
                                /\ Package(v).artifact = v.artifact /\ Package(v).content = v.content
BY DEF TypeOK, VersionType, PackageType, Issued, Package

LEMMA IssuedOnce ==
    ASSUME TypeOK, Numbered, NEW p \in Issued, NEW q \in Issued, p.sequence = q.sequence
    PROVE  p = q
<1>1. PICK v \in versions : p = Package(v)
  BY DEF Issued
<1>2. PICK w \in versions : q = Package(w)
  BY DEF Issued
<1> QED BY <1>1, <1>2, IssuedType DEF Numbered

LEMMA IssuedPositive ==
    ASSUME TypeOK, Numbered, NEW p \in Issued
    PROVE  p.sequence \in Nat /\ p.sequence > 0
<1>1. PICK v \in versions : p = Package(v)
  BY DEF Issued
<1>2. Cardinality(versions) \in Nat
  BY FS_CardinalityType DEF Numbered
<1> QED BY <1>1, <1>2, IssuedType DEF Numbered

(* An ACK makes its package stale.                                         *)
LEMMA AnsweredIsStale ==
    ASSUME NEW k, Answered(k)
    PROVE  Stale(k.of)
BY DEF Answered, Stale

-----------------------------------------------------------------------------
(* The users change what the invariant does not speak of.                  *)
LEMMA UsersStep ==
    ASSUME IInv, source' \in [Artifacts -> Contents],
           UNCHANGED <<versions, folder, high, todo, pc, at, applied>>
    PROVE  IInv'
<1> USE DEF IInv, folder
<1>1. TypeOK' /\ Numbered' /\ OnlyIssued'
  BY DEF TypeOK, Numbered, OnlyIssued, Issued, Package
<1>2. HighApplied' /\ AcksTrue' /\ RemovedIsAnswered'
  BY DEF HighApplied, Issued, Package, AcksTrue, Answered, RemovedIsAnswered, Stale
<1>3. AppliedIsFound' /\ TodoIsNewer'
  BY DEF AppliedIsFound, TodoIsNewer, Pending, Stale
<1>4. AtPeer' /\ StatusIsTrue'
  BY DEF AtPeer, Pending, Stale, StatusIsTrue
<1> QED BY <1>1, <1>2, <1>3, <1>4

-----------------------------------------------------------------------------
(* The publisher.                                                          *)

LEMMA PublishNewStep == ASSUME IInv, NEW a \in Artifacts, PublishNew(a) PROVE IInv'
<1> USE DEF IInv
<1> DEFINE n == Cardinality(versions) + 1
           p == [artifact |-> a, content |-> source[a], sequence |-> n]
           v == Version(p, "pending")
<1>1. /\ versions' = versions \cup {v} /\ at' = [at EXCEPT !["publisher"] = {p}]
      /\ pc' = [pc EXCEPT !["publisher"] = "write package"]
      /\ UNCHANGED <<source, outS, outR, ackR, ackS, ackGone, high, todo, applied>>
  BY DEF PublishNew, files, folder
<1>2. n \in Nat /\ n > 0 /\ \A w \in versions : w.sequence \in Nat /\ w.sequence < n
  BY FS_CardinalityType DEF Numbered
<1>3. /\ v \in VersionType /\ v.sequence = n /\ v.status = "pending" /\ v \notin versions
      /\ Package(v) = p /\ p \in PackageType
  BY <1>2 DEF Version, VersionType, Package, PackageType, TypeOK
<1> HIDE DEF n, p, v
<1>4. TypeOK'
  BY <1>1, <1>3 DEF TypeOK, Nodes, Places
<1>5. Numbered'
  <2>1. IsFiniteSet(versions') /\ Cardinality(versions') = n
    BY <1>1, <1>3, FS_AddElement DEF Numbered, n
  <2>2. \A w \in versions' : w.sequence \in 1..n
    <3>1. \A w \in versions : w.sequence \in 1..n
      BY <1>2 DEF Numbered
    <3>2. v.sequence \in 1..n
      BY <1>2, <1>3
    <3> QED BY <1>1, <3>1, <3>2
  <2>3. \A w, u \in versions' : w.sequence = u.sequence => w = u
    <3>1. \A w \in versions : w.sequence # v.sequence
      BY <1>2, <1>3
    <3> QED BY <1>1, <3>1 DEF Numbered
  <2> QED BY <2>1, <2>2, <2>3 DEF Numbered
<1>6. Issued' = Issued \cup {p}
  BY <1>1, <1>3 DEF Issued, Package
<1>7. OnlyIssued' /\ HighApplied'
  BY <1>1, <1>6 DEF OnlyIssued, HighApplied, TypeOK, Nodes
<1>8. AcksTrue' /\ RemovedIsAnswered' /\ AppliedIsFound' /\ TodoIsNewer'
  BY <1>1 DEF AcksTrue, Answered, RemovedIsAnswered, AppliedIsFound, TodoIsNewer, Pending, Stale,
              TypeOK, Nodes
<1>9. AtPeer' /\ StatusIsTrue'
  BY <1>1, <1>3 DEF AtPeer, Pending, Stale, StatusIsTrue, TypeOK, Nodes
<1> QED BY <1>4, <1>5, <1>7, <1>8, <1>9

LEMMA PublishAgainStep == ASSUME IInv, NEW a \in Artifacts, PublishAgain(a) PROVE IInv'
<1> USE DEF IInv
<1>1. PICK v \in versions : at' = [at EXCEPT !["publisher"] = {Package(v)}]
  BY DEF PublishAgain, Published
<1>2. /\ pc' = [pc EXCEPT !["publisher"] = "write package"]
      /\ UNCHANGED <<source, versions, outS, outR, ackR, ackS, ackGone, high, todo, applied>>
  BY DEF PublishAgain, files, folder
<1>3. Package(v) \in Issued /\ Package(v) \in PackageType
  BY <1>1, IssuedType
<1>4. TypeOK' /\ Numbered'
  BY <1>1, <1>2, <1>3 DEF TypeOK, Nodes, Places, Numbered
<1>5. Issued' = Issued
  BY <1>2 DEF Issued, Package
<1>6. OnlyIssued' /\ HighApplied'
  BY <1>1, <1>2, <1>3, <1>5 DEF OnlyIssued, HighApplied, TypeOK, Nodes
<1>7. AcksTrue' /\ RemovedIsAnswered' /\ AppliedIsFound' /\ TodoIsNewer'
  BY <1>1, <1>2 DEF AcksTrue, Answered, RemovedIsAnswered, AppliedIsFound, TodoIsNewer, Pending,
     Stale, TypeOK, Nodes
<1>8. AtPeer' /\ StatusIsTrue'
  BY <1>1, <1>2 DEF AtPeer, Pending, Stale, StatusIsTrue, TypeOK, Nodes
<1> QED BY <1>4, <1>6, <1>7, <1>8

LEMMA WritePackageStep == ASSUME IInv, WritePackage PROVE IInv'
<1> USE DEF IInv
<1>1. /\ pc["publisher"] = "write package" /\ outS' = outS \cup at["publisher"]
      /\ pc' = [pc EXCEPT !["publisher"] = "idle"] /\ at' = [at EXCEPT !["publisher"] = {}]
      /\ UNCHANGED <<source, versions, outR, ackR, ackS, ackGone, high, todo, applied>>
  BY DEF WritePackage, files
<1>2. Issued' = Issued /\ at["publisher"] \subseteq Issued /\ Issued \subseteq PackageType
  BY <1>1, IssuedType DEF Issued, Package, OnlyIssued
<1>3. TypeOK' /\ Numbered' /\ OnlyIssued' /\ HighApplied'
  BY <1>1, <1>2 DEF TypeOK, Nodes, Places, Numbered, OnlyIssued, HighApplied
<1>4. AcksTrue' /\ RemovedIsAnswered' /\ AppliedIsFound' /\ TodoIsNewer'
  BY <1>1 DEF AcksTrue, Answered, RemovedIsAnswered, AppliedIsFound, TodoIsNewer, Pending,
     Stale, TypeOK, Nodes
<1>5. AtPeer' /\ StatusIsTrue'
  BY <1>1 DEF AtPeer, Pending, Stale, StatusIsTrue, TypeOK, Nodes
<1> QED BY <1>3, <1>4, <1>5

(* The publisher believes an ACK that is true.                             *)
LEMMA AckSaveStep == ASSUME IInv, AckSave PROVE IInv'
<1> USE DEF IInv
<1>1. PICK k \in ackS, v \in versions :
         /\ Package(v) = k.of
         /\ versions' = (versions \ {v}) \cup {Version(k.of, k.status)}
         /\ at' = [at EXCEPT !["publisher"] = {k}]
  BY DEF AckSave
<1>2. /\ pc' = [pc EXCEPT !["publisher"] = "unlink package"]
      /\ UNCHANGED <<source, outS, outR, ackR, ackS, ackGone, high, todo, applied>>
  BY DEF AckSave, files, folder
<1> DEFINE u == Version(k.of, k.status)
<1>3. /\ k \in AckType /\ u \in VersionType /\ Answered(k)
      /\ u.sequence = v.sequence /\ u.artifact = v.artifact /\ u.status = k.status
      /\ Package(u) = Package(v)
      /\ u.sequence = k.of.sequence /\ u.artifact = k.of.artifact
  BY <1>1, IssuedType DEF TypeOK, AckType, PackageType, Version, VersionType, Package, AcksTrue
<1> HIDE DEF u
<1>4. versions' = (versions \ {v}) \cup {u}
  BY <1>1 DEF u
<1>5. TypeOK'
  BY <1>1, <1>2, <1>3, <1>4 DEF TypeOK, Nodes, Places
<1>6. Numbered'
  <2>1. u \notin versions \ {v}
    BY <1>3 DEF Numbered
  <2>2. IsFiniteSet(versions \ {v}) /\ Cardinality(versions \ {v}) = Cardinality(versions) - 1
    BY <1>1, FS_RemoveElement DEF Numbered
  <2>3. Cardinality(versions) \in Nat
    BY FS_CardinalityType DEF Numbered
  <2>4. IsFiniteSet(versions') /\ Cardinality(versions') = Cardinality(versions)
    BY <1>4, <2>1, <2>2, <2>3, FS_AddElement
  <2>5. \A w \in versions' : w.sequence \in 1..Cardinality(versions)
    BY <1>1, <1>3, <1>4 DEF Numbered
  <2>6. \A w, x \in versions' : w.sequence = x.sequence => w = x
    BY <1>1, <1>3, <1>4 DEF Numbered
  <2> QED BY <2>4, <2>5, <2>6 DEF Numbered
<1>7. Issued' = Issued
  BY <1>1, <1>3, <1>4 DEF Issued, Package
<1>8. OnlyIssued' /\ HighApplied'
  BY <1>1, <1>2, <1>7 DEF OnlyIssued, HighApplied, TypeOK, Nodes
<1>9. AcksTrue' /\ RemovedIsAnswered' /\ AppliedIsFound' /\ TodoIsNewer'
  BY <1>1, <1>2, <1>3 DEF AcksTrue, Answered, RemovedIsAnswered, AppliedIsFound, TodoIsNewer,
     Pending, Stale, TypeOK, Nodes
<1>10. AtPeer'
  BY <1>1, <1>2 DEF AtPeer, Pending, Stale, TypeOK, Nodes
<1>11. StatusIsTrue'
  <2>1. PICK h \in high[k.of.artifact] :
           k.of.sequence <= h.sequence /\ (k.status = "superseded" => k.of.sequence < h.sequence)
    BY <1>3 DEF Answered
  <2>2. /\ u.artifact \in Artifacts /\ u.sequence \in Nat /\ h.sequence \in Nat
        /\ applied[u.artifact] \in Nat /\ h.sequence <= applied[u.artifact]
    BY <1>3, <2>1 DEF TypeOK, VersionType, PackageType, HighApplied
  <2>3. /\ u.status = "applied" => applied[u.artifact] >= u.sequence
        /\ u.status = "superseded" => applied[u.artifact] > u.sequence
    BY <1>3, <2>1, <2>2
  <2> QED BY <1>2, <1>4, <2>3 DEF StatusIsTrue
<1> QED BY <1>5, <1>6, <1>8, <1>9, <1>10, <1>11

LEMMA UnlinkPackageStep == ASSUME IInv, UnlinkPackage PROVE IInv'
<1> USE DEF IInv
<1>1. /\ pc["publisher"] = "unlink package"
      /\ outS' = outS \ {k.of : k \in at["publisher"]}
      /\ pc' = [pc EXCEPT !["publisher"] = "unlink ack"]
      /\ UNCHANGED <<source, versions, outR, ackR, ackS, ackGone, high, todo, at, applied>>
  BY DEF UnlinkPackage, files
<1>2. Issued' = Issued
  BY <1>1 DEF Issued, Package
<1>3. TypeOK' /\ Numbered' /\ OnlyIssued' /\ HighApplied' /\ AcksTrue'
  BY <1>1, <1>2 DEF TypeOK, Nodes, Places, Numbered, OnlyIssued, HighApplied, AcksTrue, Answered
<1>4. \A p \in outS \ outS' : Stale(p)
  BY <1>1, AnsweredIsStale DEF AcksTrue
<1>5. RemovedIsAnswered'
  BY <1>1, <1>4 DEF RemovedIsAnswered, Stale
(* A package that was applied and is stale now has its number saved.       *)
<1>6. AppliedIsFound'
  <2> SUFFICES ASSUME NEW a \in Artifacts, NEW p \in outR, Pending(p), p \notin outS',
                      p.artifact = a, p.sequence = applied[a]
               PROVE  \E h \in high[a] : h.sequence = applied[a]
    BY <1>1 DEF AppliedIsFound, Pending
  <2>1. PICK h \in high[a] : p.sequence <= h.sequence
    BY <1>4 DEF Pending, Stale
  <2>2. h.sequence <= applied[a] /\ h.sequence \in Nat /\ p.sequence \in Nat
    BY <2>1 DEF HighApplied, TypeOK, PackageType
  <2> QED BY <2>1, <2>2
<1>7. TodoIsNewer'
  BY <1>1, <1>4 DEF TodoIsNewer, Pending, Stale
<1>8. AtPeer' /\ StatusIsTrue'
  BY <1>1, <1>4 DEF AtPeer, Pending, Stale, StatusIsTrue, TypeOK, Nodes
<1> QED BY <1>3, <1>5, <1>6, <1>7, <1>8

LEMMA UnlinkAckStep == ASSUME IInv, UnlinkAck PROVE IInv'
<1> USE DEF IInv
<1>1. /\ pc["publisher"] = "unlink ack"
      /\ ackS' = ackS \ at["publisher"] /\ ackGone' = ackGone \cup at["publisher"]
      /\ pc' = [pc EXCEPT !["publisher"] = "idle"] /\ at' = [at EXCEPT !["publisher"] = {}]
      /\ UNCHANGED <<source, versions, outS, outR, ackR, high, todo, applied>>
  BY DEF UnlinkAck, files
<1>2. Issued' = Issued
  BY <1>1 DEF Issued, Package
<1>3. at["publisher"] \subseteq AckType
  BY <1>1 DEF AcksTrue
<1>4. TypeOK' /\ Numbered' /\ OnlyIssued' /\ HighApplied'
  BY <1>1, <1>2, <1>3 DEF TypeOK, Nodes, Places, Numbered, OnlyIssued, HighApplied
<1>5. AcksTrue'
  BY <1>1 DEF AcksTrue, Answered, TypeOK, Nodes
<1>6. RemovedIsAnswered' /\ AppliedIsFound' /\ TodoIsNewer'
  BY <1>1 DEF RemovedIsAnswered, AppliedIsFound, TodoIsNewer, Pending, Stale
<1>7. AtPeer' /\ StatusIsTrue'
  BY <1>1 DEF AtPeer, Pending, Stale, StatusIsTrue, TypeOK, Nodes
<1> QED BY <1>4, <1>5, <1>6, <1>7

-----------------------------------------------------------------------------
(* The peer.                                                               *)

LEMMA AckAgainStep == ASSUME IInv, AckAgain PROVE IInv'
<1> USE DEF IInv
<1>1. PICK p \in Candidates :
         /\ Reached(p) /\ Stale(p)
         /\ ackR' = ackR \cup {[of |-> p, status |-> IF {p} = high[p.artifact] THEN "applied"
                                                     ELSE "superseded"]}
  BY DEF AckAgain
<1>2. UNCHANGED <<source, versions, outS, outR, ackS, ackGone, high, todo, pc, at, applied>>
  BY DEF AckAgain, files
<1> DEFINE k == [of |-> p, status |-> IF {p} = high[p.artifact] THEN "applied" ELSE "superseded"]
<1>3. p \in PackageType /\ p.artifact \in Artifacts
  BY <1>1 DEF Candidates, TypeOK, PackageType
<1>4. k \in AckType
  BY <1>3 DEF AckType
(* A number that is bound to another package has raised.                   *)
<1>5. Answered(k)
  <2>1. PICK h \in high[p.artifact] : p.sequence <= h.sequence
    BY <1>1 DEF Stale
  <2>2. p.sequence = h.sequence => p = h
    BY <1>1, <1>3, <2>1 DEF Reached, Agrees, PackageType
  <2>3. p = h => high[p.artifact] = {p}
    BY <1>3, <2>1 DEF HighApplied
  <2>4. p.sequence \in Nat /\ h.sequence \in Nat
    BY <1>3, <2>1 DEF TypeOK, PackageType
  <2> QED BY <2>1, <2>2, <2>3, <2>4 DEF Answered
<1> HIDE DEF k
<1>6. Issued' = Issued /\ ackR' = ackR \cup {k}
  BY <1>1, <1>2 DEF Issued, Package, k
<1>7. TypeOK' /\ Numbered' /\ OnlyIssued' /\ HighApplied' /\ AcksTrue'
  BY <1>2, <1>4, <1>5, <1>6 DEF TypeOK, Numbered, OnlyIssued, HighApplied, AcksTrue, Answered
<1>8. RemovedIsAnswered' /\ AppliedIsFound' /\ TodoIsNewer'
  BY <1>2 DEF RemovedIsAnswered, AppliedIsFound, TodoIsNewer, Pending, Stale
<1>9. AtPeer' /\ StatusIsTrue'
  BY <1>2 DEF AtPeer, Pending, Stale, StatusIsTrue
<1> QED BY <1>7, <1>8, <1>9

(* What was applied and not saved is met again: it is a candidate.         *)
LEMMA CandidatesReachApplied ==
    ASSUME IInv, NEW p \in Candidates, ~Stale(p), Newest(p)
    PROVE  applied[p.artifact] <= p.sequence
<1> USE DEF IInv
<1> DEFINE a == p.artifact
<1>1. /\ a \in Artifacts /\ p.sequence \in Nat /\ applied[a] \in Nat /\ p \in outR
      /\ high[a] \subseteq PackageType
  BY DEF Candidates, TypeOK, PackageType
<1>2. CASE applied[a] = 0
  BY <1>1, <1>2
<1>3. ASSUME NEW h \in high[a], h.sequence = applied[a] PROVE applied[a] <= p.sequence
  BY <1>1, <1>3 DEF Stale, PackageType
<1>4. ASSUME NEW q \in outR, q.artifact = a, q.sequence = applied[a],
             ~ \E h \in high[a] : h.sequence = applied[a]
      PROVE  applied[a] <= p.sequence
  <2>1. ASSUME NEW k \in ackR, k.of = q PROVE FALSE
    <3>1. PICK h \in high[a] : q.sequence <= h.sequence
      BY <1>4, <2>1 DEF AcksTrue, Answered
    <3>2. h.sequence <= applied[a] /\ h.sequence \in Nat
      BY <1>1, <3>1 DEF HighApplied, PackageType
    <3> QED BY <1>1, <1>4, <3>1, <3>2
  <2>2. q \in Candidates
    BY <2>1 DEF Candidates
  <2> QED BY <1>4, <2>2 DEF Newest
<1> QED BY <1>1, <1>2, <1>3, <1>4 DEF AppliedIsFound

LEMMA ReceiveStep == ASSUME IInv, Receive PROVE IInv'
<1> USE DEF IInv
<1>1. /\ \A p \in Candidates : ~Stale(p)
      /\ todo' = {p \in Candidates : Newest(p)}
      /\ pc' = [pc EXCEPT !["peer"] = "apply"]
      /\ UNCHANGED <<source, versions, outS, outR, ackR, ackS, ackGone, high, at, applied>>
  BY DEF Receive, files, folder
<1>2. Issued' = Issued
  BY <1>1 DEF Issued, Package
<1>3. TypeOK' /\ Numbered' /\ OnlyIssued' /\ HighApplied' /\ AcksTrue'
  BY <1>1, <1>2 DEF TypeOK, Nodes, Places, Numbered, OnlyIssued, HighApplied, AcksTrue, Answered,
     Candidates
<1>4. RemovedIsAnswered' /\ AppliedIsFound' /\ StatusIsTrue'
  BY <1>1 DEF RemovedIsAnswered, AppliedIsFound, Pending, Stale, StatusIsTrue
<1>5. TodoIsNewer'
  <2>1. ASSUME NEW p \in todo'
        PROVE  Pending(p) /\ ~Stale(p) /\ applied[p.artifact] <= p.sequence
    <3>1. p \in Candidates /\ Newest(p) /\ ~Stale(p)
      BY <1>1, <2>1
    <3> QED BY <3>1, CandidatesReachApplied DEF Candidates, RemovedIsAnswered, Pending
  <2>2. ASSUME NEW p \in todo', NEW q \in todo', q.artifact = p.artifact PROVE q = p
    <3>1. /\ p \in Candidates /\ q \in Candidates /\ p.sequence <= q.sequence
          /\ q.sequence <= p.sequence
      BY <1>1, <2>2 DEF Newest
    <3>2. p \in Issued /\ q \in Issued /\ p.sequence \in Nat /\ q.sequence \in Nat
      BY <3>1 DEF Candidates, OnlyIssued, TypeOK, PackageType
    <3> QED BY <3>1, <3>2, IssuedOnce
  <2> QED BY <1>1, <2>1, <2>2 DEF TodoIsNewer, Pending, Stale
<1>6. AtPeer'
  BY <1>1 DEF AtPeer, TypeOK, Nodes, Places
<1> QED BY <1>3, <1>4, <1>5, <1>6

LEMMA ApplyStep ==
    ASSUME IInv, Apply
    PROVE  IInv' /\ \A a \in Artifacts : applied'[a] >= applied[a]
<1> USE DEF IInv
<1>1. PICK p \in todo :
         /\ applied' = [applied EXCEPT ![p.artifact] = p.sequence]
         /\ todo' = todo \ {p} /\ at' = [at EXCEPT !["peer"] = {p}]
  BY DEF Apply
<1>2. /\ pc' = [pc EXCEPT !["peer"] = "save applied"]
      /\ UNCHANGED <<source, versions, outS, outR, ackR, ackS, ackGone, high>>
  BY DEF Apply, folder
<1>3. /\ p \in PackageType /\ p.artifact \in Artifacts /\ p.sequence \in Nat
      /\ Pending(p) /\ ~Stale(p) /\ applied[p.artifact] <= p.sequence
      /\ \A q \in todo : q.artifact = p.artifact => q = p
  BY <1>1 DEF TypeOK, PackageType, TodoIsNewer
<1>4. /\ applied'[p.artifact] = p.sequence
      /\ \A a \in Artifacts \ {p.artifact} : applied'[a] = applied[a]
      /\ \A a \in Artifacts : applied[a] \in Nat /\ applied'[a] \in Nat /\ applied'[a] >= applied[a]
  BY <1>1, <1>3 DEF TypeOK
<1>5. Issued' = Issued
  BY <1>2 DEF Issued, Package
<1>6. TypeOK' /\ Numbered' /\ OnlyIssued'
  BY <1>1, <1>2, <1>3, <1>5 DEF TypeOK, Nodes, Places, Numbered, OnlyIssued
<1>7. HighApplied'
  <2> SUFFICES ASSUME NEW a \in Artifacts, NEW h \in high[a] PROVE h.sequence <= applied'[a]
    BY <1>2, <1>5 DEF HighApplied
  <2>1. h.sequence \in Nat /\ h.sequence <= applied[a]
    BY DEF TypeOK, PackageType, HighApplied
  <2> QED BY <1>4, <2>1
<1>8. AcksTrue' /\ RemovedIsAnswered'
  BY <1>1, <1>2 DEF AcksTrue, Answered, RemovedIsAnswered, Stale, TypeOK, Nodes, Places
<1>9. AppliedIsFound'
  BY <1>2, <1>3, <1>4 DEF AppliedIsFound, Pending
<1>10. TodoIsNewer'
  <2> SUFFICES ASSUME NEW q \in todo, q # p
               PROVE  applied'[q.artifact] <= q.sequence
    BY <1>1, <1>2 DEF TodoIsNewer, Pending, Stale
  <2>1. q.artifact \in Artifacts \ {p.artifact}
    BY <1>3 DEF TypeOK, PackageType
  <2> QED BY <1>4, <2>1 DEF TodoIsNewer
<1>11. AtPeer'
  BY <1>1, <1>2, <1>3, <1>4 DEF AtPeer, Pending, Stale, TypeOK, Nodes, Places
<1>12. StatusIsTrue'
  <2> SUFFICES ASSUME NEW v \in versions
               PROVE  /\ v.status = "applied" => applied'[v.artifact] >= v.sequence
                      /\ v.status = "superseded" => applied'[v.artifact] > v.sequence
    BY <1>2 DEF StatusIsTrue
  <2>1. v.artifact \in Artifacts /\ v.sequence \in Nat
    BY DEF TypeOK, VersionType
  <2>2. /\ v.status = "applied" => applied[v.artifact] >= v.sequence
        /\ v.status = "superseded" => applied[v.artifact] > v.sequence
    BY DEF StatusIsTrue
  <2> QED BY <1>4, <2>1, <2>2
<1> QED BY <1>4, <1>6, <1>7, <1>8, <1>9, <1>10, <1>11, <1>12

LEMMA LeaveOutStep == ASSUME IInv, LeaveOut \/ EndRun PROVE IInv'
<1> USE DEF IInv
<1>1. /\ todo' \subseteq todo /\ pc' \in {pc, [pc EXCEPT !["peer"] = "idle"]}
      /\ UNCHANGED <<source, versions, outS, outR, ackR, ackS, ackGone, high, at, applied>>
  BY DEF LeaveOut, EndRun, files, folder
<1>2. Issued' = Issued
  BY <1>1 DEF Issued, Package
<1>3. TypeOK' /\ Numbered' /\ OnlyIssued' /\ HighApplied' /\ AcksTrue'
  <2>1. pc'["publisher"] = pc["publisher"] /\ pc' \in [Nodes -> Places]
    BY <1>1 DEF TypeOK, Nodes, Places
  <2>2. TypeOK' /\ Numbered'
    BY <1>1, <2>1 DEF TypeOK, Numbered
  <2>3. OnlyIssued' /\ HighApplied' /\ AcksTrue'
    BY <1>1, <1>2, <2>1 DEF OnlyIssued, HighApplied, AcksTrue, Answered
  <2> QED BY <2>2, <2>3
<1>4. RemovedIsAnswered' /\ AppliedIsFound' /\ TodoIsNewer'
  BY <1>1 DEF RemovedIsAnswered, AppliedIsFound, TodoIsNewer, Pending, Stale
<1>5. AtPeer' /\ StatusIsTrue'
  BY <1>1 DEF AtPeer, Pending, Stale, StatusIsTrue, TypeOK, Nodes, Places
<1> QED BY <1>3, <1>4, <1>5

LEMMA SaveAppliedStep == ASSUME IInv, SaveApplied PROVE IInv'
<1> USE DEF IInv
<1>1. pc["peer"] = "save applied"
  BY DEF SaveApplied
<1>2. PICK p \in at["peer"] :
         IF Stale(p) /\ high[p.artifact] # {p}
         THEN /\ pc' = [pc EXCEPT !["peer"] = "apply"]
              /\ at' = [at EXCEPT !["peer"] = {}]
              /\ UNCHANGED high
         ELSE /\ high' = [high EXCEPT ![p.artifact] = {p}]
              /\ pc' = [pc EXCEPT !["peer"] = "write ack"]
              /\ UNCHANGED at
  BY DEF SaveApplied
<1>3. /\ Pending(p) /\ ~Stale(p) /\ applied[p.artifact] = p.sequence
      /\ \A q \in todo : q.artifact # p.artifact
      /\ \A q \in at["peer"] : q = p
  BY <1>1, <1>2 DEF AtPeer
<1>4. /\ high' = [high EXCEPT ![p.artifact] = {p}]
      /\ pc' = [pc EXCEPT !["peer"] = "write ack"]
      /\ UNCHANGED <<source, versions, outS, outR, ackR, ackS, ackGone, todo, at, applied>>
  BY <1>2, <1>3 DEF SaveApplied, files, folder
<1>5. /\ p \in PackageType /\ p \in Issued /\ p.artifact \in Artifacts /\ p.sequence \in Nat
      /\ high[p.artifact] \subseteq PackageType
  BY <1>3 DEF Pending, OnlyIssued, TypeOK, PackageType
<1>6. /\ high'[p.artifact] = {p}
      /\ \A a \in Artifacts \ {p.artifact} : high'[a] = high[a]
  BY <1>4, <1>5 DEF TypeOK
<1>7. Issued' = Issued
  BY <1>4 DEF Issued, Package
<1>8. TypeOK' /\ Numbered' /\ OnlyIssued'
  BY <1>4, <1>5, <1>7 DEF TypeOK, Nodes, Places, Numbered, OnlyIssued
<1>9. HighApplied'
  <2> SUFFICES ASSUME NEW a \in Artifacts, NEW h \in high'[a]
               PROVE  /\ h \in Issued /\ h.artifact = a /\ h.sequence <= applied[a]
                      /\ \A g \in high'[a] : g = h
    BY <1>4, <1>7 DEF HighApplied
  <2>1. CASE a = p.artifact
    BY <1>3, <1>5, <1>6, <2>1
  <2>2. CASE a # p.artifact
    BY <1>6, <2>2 DEF HighApplied
  <2> QED BY <2>1, <2>2
(* The saved number only grows, so what was answered stays answered.       *)
<1>10. ASSUME NEW a \in Artifacts, NEW h \in high[a]
       PROVE  \E g \in high'[a] : h.sequence <= g.sequence
  <2>1. h.sequence \in Nat
    BY DEF TypeOK, PackageType
  <2>2. CASE a = p.artifact
    BY <1>3, <1>5, <1>6, <2>1, <2>2 DEF Stale, PackageType
  <2>3. CASE a # p.artifact
    BY <1>6, <2>1, <2>3
  <2> QED BY <2>2, <2>3
<1>11. ASSUME NEW k \in AckType, Answered(k) PROVE Answered(k)'
  <2>1. k.of \in PackageType /\ k.of.artifact \in Artifacts /\ k.of.sequence \in Nat
    BY DEF AckType, PackageType
  <2>2. PICK h \in high[k.of.artifact] :
           k.of.sequence <= h.sequence /\ (k.status = "superseded" => k.of.sequence < h.sequence)
    BY <1>11 DEF Answered
  <2>3. PICK g \in high'[k.of.artifact] : h.sequence <= g.sequence
    BY <1>10, <2>1, <2>2
  <2>4. h.sequence \in Nat /\ g.sequence \in Nat
    BY <1>8, <2>1, <2>2, <2>3 DEF TypeOK, PackageType
  <2> QED BY <2>1, <2>2, <2>3, <2>4 DEF Answered
<1>12. AcksTrue'
  BY <1>4, <1>11 DEF AcksTrue, TypeOK, Nodes, Places
<1>13. ASSUME NEW q \in PackageType, Stale(q) PROVE Stale(q)'
  <2>1. q.artifact \in Artifacts /\ q.sequence \in Nat
    BY DEF PackageType
  <2>2. PICK h \in high[q.artifact] : q.sequence <= h.sequence
    BY <1>13 DEF Stale
  <2>3. PICK g \in high'[q.artifact] : h.sequence <= g.sequence
    BY <1>10, <2>1, <2>2
  <2>4. h.sequence \in Nat /\ g.sequence \in Nat
    BY <1>8, <2>1, <2>2, <2>3 DEF TypeOK, PackageType
  <2> QED BY <2>1, <2>2, <2>3, <2>4 DEF Stale
<1>14. RemovedIsAnswered'
  BY <1>4, <1>13 DEF RemovedIsAnswered, TypeOK
<1>15. AppliedIsFound'
  BY <1>3, <1>4, <1>6 DEF AppliedIsFound, Pending
<1>16. TodoIsNewer'
  <2> SUFFICES ASSUME NEW q \in todo PROVE ~Stale(q)'
    BY <1>4 DEF TodoIsNewer, Pending
  <2>1. q.artifact \in Artifacts \ {p.artifact}
    BY <1>3 DEF TypeOK, PackageType
  <2> QED BY <1>6, <2>1 DEF TodoIsNewer, Stale
<1>17. AtPeer' /\ StatusIsTrue'
  BY <1>3, <1>4, <1>5, <1>6 DEF AtPeer, StatusIsTrue, TypeOK, Nodes, Places
<1> QED BY <1>8, <1>9, <1>12, <1>14, <1>15, <1>16, <1>17

LEMMA WriteAckStep == ASSUME IInv, WriteAck PROVE IInv'
<1> USE DEF IInv
<1>1. /\ pc["peer"] = "write ack"
      /\ ackR' = ackR \cup {[of |-> p, status |-> "applied"] : p \in at["peer"]}
      /\ pc' = [pc EXCEPT !["peer"] = "apply"] /\ at' = [at EXCEPT !["peer"] = {}]
      /\ UNCHANGED <<source, versions, outS, outR, ackS, ackGone, high, todo, applied>>
  BY DEF WriteAck, files
<1>2. ASSUME NEW p \in at["peer"]
      PROVE  [of |-> p, status |-> "applied"] \in AckType /\ Answered([of |-> p, status |-> "applied"])
  <2>1. p \in PackageType /\ p \in high[p.artifact] /\ p.sequence \in Nat
    BY <1>1, <1>2 DEF AtPeer, PackageType
  <2> QED BY <2>1 DEF AckType, Answered
<1>3. Issued' = Issued
  BY <1>1 DEF Issued, Package
<1>4. TypeOK' /\ Numbered' /\ OnlyIssued' /\ HighApplied'
  <2>1. ackR' \subseteq AckType
    BY <1>1, <1>2 DEF TypeOK
  <2> QED BY <1>1, <1>3, <2>1 DEF TypeOK, Nodes, Places, Numbered, OnlyIssued, HighApplied
<1>5. AcksTrue'
  <2>1. \A k : Answered(k)' <=> Answered(k)
    BY <1>1 DEF Answered
  <2> QED BY <1>1, <1>2, <2>1 DEF AcksTrue, TypeOK, Nodes, Places
<1>6. RemovedIsAnswered' /\ AppliedIsFound' /\ TodoIsNewer'
  BY <1>1 DEF RemovedIsAnswered, AppliedIsFound, TodoIsNewer, Pending, Stale
<1>7. AtPeer' /\ StatusIsTrue'
  BY <1>1 DEF AtPeer, StatusIsTrue, TypeOK, Nodes, Places
<1> QED BY <1>4, <1>5, <1>6, <1>7

-----------------------------------------------------------------------------
(* The cloud folder, and crashes.                                          *)

(* A package is dropped at the peer only once it is answered.              *)
LEMMA PackagesMoveStep == ASSUME IInv, CopyPackage \/ DropPackage PROVE IInv'
<1> USE DEF IInv
<1>1. UNCHANGED <<source, versions, outS, ackR, ackS, ackGone, high, todo, pc, at, applied>>
  BY DEF CopyPackage, DropPackage, files
<1>2. /\ outR' \subseteq outR \cup outS
      /\ \A p \in outR : p \in outS => p \in outR'
      /\ outR' \ outS \subseteq outR
  BY DEF CopyPackage, DropPackage
<1>3. Issued' = Issued
  BY <1>1 DEF Issued, Package
<1>4. TypeOK' /\ Numbered' /\ OnlyIssued' /\ HighApplied' /\ AcksTrue'
  BY <1>1, <1>2, <1>3 DEF TypeOK, Numbered, OnlyIssued, HighApplied, AcksTrue, Answered
<1>5. RemovedIsAnswered' /\ AppliedIsFound' /\ TodoIsNewer'
  BY <1>1, <1>2 DEF RemovedIsAnswered, AppliedIsFound, TodoIsNewer, Pending, Stale
<1>6. AtPeer' /\ StatusIsTrue'
  BY <1>1, <1>2 DEF AtPeer, Pending, Stale, StatusIsTrue
<1> QED BY <1>4, <1>5, <1>6

LEMMA AcksMoveStep == ASSUME IInv, CopyAck \/ DropAck PROVE IInv'
<1> USE DEF IInv
<1>1. UNCHANGED <<source, versions, outS, outR, high, todo, pc, at, applied>>
  BY DEF CopyAck, DropAck, files
<1>2. ackR' \subseteq ackR /\ ackS' \subseteq ackS \cup ackR /\ ackGone' \subseteq ackGone
  BY DEF CopyAck, DropAck
<1>3. Issued' = Issued
  BY <1>1 DEF Issued, Package
<1>4. TypeOK' /\ Numbered' /\ OnlyIssued' /\ HighApplied' /\ AcksTrue'
  BY <1>1, <1>2, <1>3 DEF TypeOK, Numbered, OnlyIssued, HighApplied, AcksTrue, Answered
<1>5. RemovedIsAnswered' /\ AppliedIsFound' /\ TodoIsNewer'
  BY <1>1 DEF RemovedIsAnswered, AppliedIsFound, TodoIsNewer, Pending, Stale
<1>6. AtPeer' /\ StatusIsTrue'
  BY <1>1 DEF AtPeer, Pending, Stale, StatusIsTrue
<1> QED BY <1>4, <1>5, <1>6

LEMMA CrashStep == ASSUME IInv, NEW n \in Nodes, Crash(n) PROVE IInv'
<1> USE DEF IInv
<1>1. /\ pc' = [pc EXCEPT ![n] = "idle"] /\ at' = [at EXCEPT ![n] = {}]
      /\ todo' \subseteq todo
      /\ UNCHANGED <<source, versions, outS, outR, ackR, ackS, ackGone, high, applied>>
  BY DEF Crash, files, folder
<1>2. Issued' = Issued
  BY <1>1 DEF Issued, Package
<1>3. TypeOK' /\ Numbered' /\ OnlyIssued' /\ HighApplied' /\ AcksTrue'
  BY <1>1, <1>2 DEF TypeOK, Nodes, Places, Numbered, OnlyIssued, HighApplied, AcksTrue, Answered
<1>4. RemovedIsAnswered' /\ AppliedIsFound' /\ TodoIsNewer'
  BY <1>1 DEF RemovedIsAnswered, AppliedIsFound, TodoIsNewer, Pending, Stale
<1>5. AtPeer' /\ StatusIsTrue'
  BY <1>1 DEF AtPeer, Pending, Stale, StatusIsTrue, TypeOK, Nodes, Places
<1> QED BY <1>3, <1>4, <1>5

-----------------------------------------------------------------------------
LEMMA InitIInv == Init => IInv
<1> SUFFICES ASSUME Init PROVE IInv
  OBVIOUS
<1>1. TypeOK /\ OnlyIssued /\ HighApplied /\ AcksTrue
  BY DEF Init, TypeOK, Nodes, Places, OnlyIssued, HighApplied, AcksTrue
<1>2. Numbered
  BY FS_EmptySet DEF Init, Numbered
<1>3. RemovedIsAnswered /\ AppliedIsFound /\ TodoIsNewer /\ AtPeer /\ StatusIsTrue
  BY DEF Init, RemovedIsAnswered, AppliedIsFound, TodoIsNewer, AtPeer, StatusIsTrue, Nodes
<1> QED BY <1>1, <1>2, <1>3 DEF IInv

LEMMA StepIInv == IInv /\ [Next]_vars => IInv'
<1> SUFFICES ASSUME IInv, [Next]_vars PROVE IInv'
  OBVIOUS
<1>1. CASE Users \/ UNCHANGED vars
  <2>1. /\ UNCHANGED <<versions, folder, high, todo, pc, at, applied>>
        /\ source' \in [Artifacts -> Contents]
    BY <1>1 DEF Users, Change, EditTarget, Bind, vars, files, folder, IInv, TypeOK
  <2> QED BY <2>1, UsersStep
<1>2. CASE Publish \/ AckSave \/ FinishPublisher
  BY <1>2, PublishNewStep, PublishAgainStep, AckSaveStep, WritePackageStep, UnlinkPackageStep,
     UnlinkAckStep DEF Publish, FinishPublisher
<1>3. CASE AckAgain \/ Receive \/ HandleReceived
  BY <1>3, AckAgainStep, ReceiveStep, ApplyStep, LeaveOutStep, SaveAppliedStep, WriteAckStep
     DEF HandleReceived
<1>4. CASE Deliver \/ \E n \in Nodes : Crash(n)
  BY <1>4, PackagesMoveStep, AcksMoveStep, CrashStep DEF Deliver
<1> QED BY <1>1, <1>2, <1>3, <1>4 DEF Next

(* The inductive invariant holds of every reachable state.                 *)
THEOREM Inductive == Spec => []IInv
BY InitIInv, StepIInv, PTL DEF Spec

(* A publication number names one package for ever (publish_files counts   *)
(* the publications, whatever was acknowledged or interrupted).            *)
THEOREM NumberNeverReusedHolds == Spec => []NumberNeverReused
<1>1. IInv => NumberNeverReused
  BY IssuedOnce DEF IInv, NumberNeverReused, Issued
<1> QED BY <1>1, Inductive, PTL

(* What the publisher calls applied was applied, or a later revision was;  *)
(* what it calls superseded was overtaken (_process_file_acks).            *)
THEOREM StatusIsTrueHolds == Spec => []StatusIsTrue
<1>1. IInv => StatusIsTrue
  BY DEF IInv
<1> QED BY <1>1, Inductive, PTL

(* The peer's target only moves on to later publications, also when a run  *)
(* was cut off between the apply and the save (receive_files, run_once).   *)
THEOREM TargetNeverGoesBackHolds == Spec => TargetNeverGoesBack
<1>1. IInv /\ [Next]_vars => [\A a \in Artifacts : applied'[a] >= applied[a]]_vars
  <2> SUFFICES ASSUME IInv, Next PROVE \A a \in Artifacts : applied'[a] >= applied[a]
    OBVIOUS
  <2>1. CASE Apply
    BY <2>1, ApplyStep
  <2>2. CASE applied' = applied
    BY <2>2 DEF IInv, TypeOK
  <2>3. applied' = applied \/ Apply
    BY DEF Next, Users, Change, EditTarget, Bind, Publish, PublishNew, PublishAgain, AckSave,
       FinishPublisher, WritePackage, UnlinkPackage, UnlinkAck, AckAgain, Receive, HandleReceived,
       LeaveOut, EndRun, SaveApplied, WriteAck, Deliver, CopyPackage, DropPackage, CopyAck, DropAck,
       Crash
  <2> QED BY <2>1, <2>2, <2>3
<1> QED BY <1>1, Inductive, PTL DEF Spec, TargetNeverGoesBack
=============================================================================
