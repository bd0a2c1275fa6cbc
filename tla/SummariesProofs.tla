-------------------------- MODULE SummariesProofs ---------------------------
(***************************************************************************)
(* Proofs about the archive as an append-only log and about the summary    *)
(* phase that reads it, for every set of conversations and messages, every *)
(* order of arrival and every size of prompts and parents, with the model  *)
(* failing and processes killed at any point: the rounds of the log, that  *)
(* to the archive the summary phase is one of its behaviours, and of the   *)
(* phase's own properties those that no fairness is needed for.            *)
(*                                                                         *)
(* That an input is used once is not inductive.  It rests on what a        *)
(* process holds while it generates, between two prompts:                  *)
(*   FilesGood       what a file takes was there, one level down           *)
(*   GenerationsGood what is being generated takes such inputs only        *)
(*   SourcesLocked   no two processes ask for one source at a time         *)
(*   CallIsFirst     who asks the model is the first to ask, orphans apart *)
(*   RowsFollow      a file without its row is an orphan or about to get it*)
(*   TickIndexed     the tick has a row for all that it ever wrote, but    *)
(*                   for the file it writes now                            *)
(*   TickApart       what the tick holds shares no input with its earlier  *)
(*                   files of the level, its groups are disjoint, and none *)
(*                   of it was there before this generation began, or is   *)
(*                   rested on by a summary that was                       *)
(***************************************************************************)
EXTENDS Summaries, FiniteSetTheorems, TLAPS

-----------------------------------------------------------------------------
(* The archive, as the summaries see it: any set of conversations and      *)
(* messages.  The round properties are not inductive by themselves: they   *)
(* rest on CountersCoverLog, which relates the counters to the log.        *)

(* A pending round is the one opened last.                                 *)
Consistent(c) == c.pending # NoRound => c.pending + 1 = c.next

(* What a message does to the counters of its conversation.                *)
LEMMA CountersStep ==
    ASSUME NEW kind \in Kinds, NEW c \in Counters, Consistent(c)
    PROVE  /\ CountersAfter(kind, c) \in Counters
           /\ Consistent(CountersAfter(kind, c))
           /\ RoundOf(kind, c) \in Nat
           /\ RoundOf(kind, c) < CountersAfter(kind, c).next
           /\ c.next <= CountersAfter(kind, c).next
           /\ RoundOf(kind, c) \in {NoRound, c.next, c.pending}
           /\ RoundOf(kind, c) = c.next => kind = "user"
           /\ Completes(kind, c) \in BOOLEAN
           /\ Completes(kind, c) => /\ RoundOf(kind, c) # NoRound
                                    /\ CountersAfter(kind, c).pending = NoRound
           /\ CountersAfter(kind, c).pending \in {NoRound, c.next, c.pending}
           /\ CountersAfter(kind, c).pending = c.next =>
                  kind = "user" /\ RoundOf(kind, c) = c.next
BY DEF Kinds, Counters, Consistent, CountersAfter, RoundOf, Completes, OpenRound, Opens, NoRound

(* The counters keep their type whatever their values are.                 *)
LEMMA CountersType ==
    ASSUME NEW kind \in Kinds, NEW c \in Counters
    PROVE  /\ CountersAfter(kind, c) \in Counters
           /\ RoundOf(kind, c) \in Nat
           /\ Completes(kind, c) \in BOOLEAN
BY DEF Kinds, Counters, CountersAfter, RoundOf, Completes, OpenRound, Opens, NoRound

(* Record types of a committed entry.                                      *)
LEMMA EntryType ==
    ASSUME NEW m \in Messages, NEW n \in Nat \ {0}, NEW c \in Counters
    PROVE  Entry(m, n, c) \in Entries
BY CountersType, MessagesAssumption DEF Entry, Entries

CountersCoverLog ==
    /\ \A c \in Convs : Consistent(rounds[c])
    /\ \A i \in DOMAIN log :
        /\ log[i].round < rounds[log[i].msg.conv].next
        /\ log[i].completes => /\ log[i].round # NoRound
                               /\ log[i].round # rounds[log[i].msg.conv].pending

(* The round that is open was opened by a user message of the log.         *)
PendingHasUser ==
    \A c \in Convs :
        rounds[c].pending # NoRound =>
            \E i \in DOMAIN log :
                /\ log[i].msg.conv = c /\ log[i].msg.kind = "user"
                /\ log[i].round = rounds[c].pending

IInv ==
    /\ TypeOK /\ CountersCoverLog /\ PendingHasUser
    /\ RoundsClosed /\ RoundsMonotone /\ RoundsOpenWithUser

LEMMA InitIInv == Init => IInv
BY DEF Init, IInv, TypeOK, CountersCoverLog, PendingHasUser, RoundsClosed, RoundsMonotone,
       RoundsOpenWithUser, Consistent, Counters, FreshCounters, NoRound

LEMMA StepIInv == IInv /\ [Next]_vars => IInv'
<1>1. ASSUME IInv, NEW m \in Messages, AppendMessage(m) PROVE IInv'
  <2> DEFINE old == rounds[m.conv]
             new == CountersAfter(m.kind, old)
             entry == Entry(m, Len(log) + 1, old)
  <2>1. m.conv \in Convs /\ m.kind \in Kinds
    BY MessagesAssumption
  <2>2. old \in Counters /\ Consistent(old)
    BY <1>1, <2>1 DEF IInv, TypeOK, CountersCoverLog
  <2>3. /\ log' = Append(log, entry)
        /\ rounds' = [rounds EXCEPT ![m.conv] = new]
        /\ log \in Seq(Entries) /\ rounds \in [Convs -> Counters]
    BY <1>1 DEF AppendMessage, IInv, TypeOK
  <2>4. entry \in Entries
    BY <2>2, <2>3, EntryType
  <2>5. /\ entry.msg = m
        /\ entry.round = RoundOf(m.kind, old)
        /\ entry.completes = Completes(m.kind, old)
    BY DEF Entry
  <2>6. /\ Len(log') = Len(log) + 1
        /\ DOMAIN log = 1..Len(log) /\ DOMAIN log' = 1..(Len(log) + 1)
        /\ \A i \in DOMAIN log : log'[i] = log[i]
        /\ log'[Len(log) + 1] = entry
        /\ Len(log) \in Nat
    BY <2>3, <2>4
  <2>7. \A i \in DOMAIN log :
            /\ log[i] \in Entries /\ log[i].msg \in Messages
            /\ log[i].msg.conv \in Convs /\ log[i].round \in Nat
    <3>1. \A i \in DOMAIN log : log[i] \in Entries
      BY <2>3
    <3> QED BY <3>1, MessagesAssumption DEF Entries
  <2>8. /\ rounds'[m.conv] = new
        /\ \A c \in Convs : c # m.conv => rounds'[c] = rounds[c]
    BY <2>1, <2>3
  <2> HIDE DEF old, new, entry
  <2> USE <2>1, <2>6, <2>7, <2>8
  <2>9. /\ new \in Counters /\ Consistent(new)
        /\ entry.round \in Nat /\ entry.round < new.next /\ old.next <= new.next
        /\ entry.round \in {NoRound, old.next, old.pending}
        /\ entry.round = old.next => m.kind = "user"
        /\ entry.completes => entry.round # NoRound /\ new.pending = NoRound
        /\ new.pending \in {NoRound, old.next, old.pending}
        /\ new.pending = old.next => m.kind = "user" /\ entry.round = old.next
    BY <2>2, <2>5, CountersStep DEF new
  <2>10. \A i \in DOMAIN log : log[i].msg.conv = m.conv =>
            /\ log[i].round < old.next
            /\ log[i].completes => log[i].round # NoRound /\ log[i].round # old.pending
    BY <1>1 DEF IInv, CountersCoverLog, old
  <2>11. TypeOK'
    BY <2>3, <2>4, <2>9 DEF TypeOK
  <2>12. CountersCoverLog'
    <3>1. \A c \in Convs : Consistent(rounds'[c])
      BY <1>1, <2>9 DEF IInv, CountersCoverLog
    <3>2. ASSUME NEW i \in DOMAIN log'
          PROVE  /\ log'[i].round < rounds'[log'[i].msg.conv].next
                 /\ log'[i].completes => /\ log'[i].round # NoRound
                                         /\ log'[i].round # rounds'[log'[i].msg.conv].pending
      <4>1. CASE i = Len(log) + 1
        BY <4>1, <2>5, <2>9 DEF Counters, NoRound
      <4>2. CASE i \in DOMAIN log /\ log[i].msg.conv = m.conv
        BY <4>2, <2>2, <2>9, <2>10 DEF Counters, NoRound
      <4>3. CASE i \in DOMAIN log /\ log[i].msg.conv # m.conv
        BY <4>3, <1>1 DEF IInv, CountersCoverLog
      <4> QED BY <4>1, <4>2, <4>3
    <3> QED BY <3>1, <3>2 DEF CountersCoverLog
  <2>13. PendingHasUser'
    <3> SUFFICES ASSUME NEW c \in Convs, rounds'[c].pending # NoRound
                 PROVE  \E i \in DOMAIN log' :
                            /\ log'[i].msg.conv = c /\ log'[i].msg.kind = "user"
                            /\ log'[i].round = rounds'[c].pending
      BY DEF PendingHasUser
    <3>1. CASE c = m.conv /\ new.pending = old.next
      <4>1. Len(log) + 1 \in DOMAIN log' /\ log'[Len(log) + 1] = entry
        OBVIOUS
      <4>2. entry.msg.conv = c /\ entry.msg.kind = "user" /\ entry.round = rounds'[c].pending
        BY <3>1, <2>5, <2>9
      <4> QED BY <4>1, <4>2
    <3>2. CASE c # m.conv \/ new.pending # old.next
      <4>1. rounds'[c].pending = rounds[c].pending
        BY <3>2, <2>9 DEF old
      <4>2. PICK i \in DOMAIN log : /\ log[i].msg.conv = c /\ log[i].msg.kind = "user"
                                    /\ log[i].round = rounds[c].pending
        BY <4>1, <1>1 DEF IInv, PendingHasUser
      <4> QED BY <4>1, <4>2
    <3> QED BY <3>1, <3>2
  <2>14. RoundsClosed'
    <3> SUFFICES ASSUME NEW i \in DOMAIN log', NEW j \in DOMAIN log', i < j,
                        log'[i].msg.conv = log'[j].msg.conv, log'[i].completes
                 PROVE  log'[j].round # log'[i].round
      BY DEF RoundsClosed, SameConversation
    <3>1. CASE j \in DOMAIN log
      <4>1. i \in DOMAIN log
        BY <3>1
      <4> QED BY <4>1, <3>1, <1>1 DEF IInv, RoundsClosed, SameConversation
    <3>2. CASE j = Len(log) + 1
      BY <3>2, <2>2, <2>5, <2>9, <2>10 DEF Counters
    <3> QED BY <3>1, <3>2
  <2>15. RoundsMonotone'
    <3> SUFFICES ASSUME NEW i \in DOMAIN log', NEW j \in DOMAIN log', i < j,
                        log'[i].msg.conv = log'[j].msg.conv,
                        log'[i].round # NoRound, log'[j].round # NoRound
                 PROVE  log'[i].round <= log'[j].round
      BY DEF RoundsMonotone, SameConversation
    <3>1. CASE j \in DOMAIN log
      <4>1. i \in DOMAIN log
        BY <3>1
      <4> QED BY <4>1, <3>1, <1>1 DEF IInv, RoundsMonotone, SameConversation
    <3>2. CASE j = Len(log) + 1
      BY <3>2, <2>2, <2>5, <2>9, <2>10 DEF Counters, Consistent, NoRound
    <3> QED BY <3>1, <3>2
  <2>16. RoundsOpenWithUser'
    <3> SUFFICES ASSUME NEW j \in DOMAIN log', log'[j].round # NoRound
                 PROVE  \E i \in DOMAIN log' :
                            /\ i <= j /\ log'[i].msg.conv = log'[j].msg.conv
                            /\ log'[i].round = log'[j].round /\ log'[i].msg.kind = "user"
      BY DEF RoundsOpenWithUser, SameConversation
    <3>1. CASE j \in DOMAIN log
      <4>1. PICK i \in DOMAIN log : /\ i <= j /\ log[i].msg.conv = log[j].msg.conv
                                    /\ log[i].round = log[j].round
                                    /\ log[i].msg.kind = "user"
        BY <3>1, <1>1 DEF IInv, RoundsOpenWithUser, SameConversation
      <4> QED BY <4>1, <3>1
    <3>2. CASE j = Len(log) + 1 /\ entry.round = old.next
      BY <3>2, <2>5, <2>9
    <3>3. CASE j = Len(log) + 1 /\ entry.round # old.next
      <4>1. entry.round = old.pending /\ old.pending # NoRound
        BY <3>3, <2>9
      <4>2. PICK i \in DOMAIN log : /\ log[i].msg.conv = m.conv /\ log[i].msg.kind = "user"
                                    /\ log[i].round = old.pending
        BY <4>1, <1>1 DEF IInv, PendingHasUser, old
      <4> QED BY <4>1, <4>2, <3>3, <2>5
    <3> QED BY <3>1, <3>2, <3>3
  <2> QED BY <2>11, <2>12, <2>13, <2>14, <2>15, <2>16 DEF IInv
<1>2. ASSUME IInv, UNCHANGED vars PROVE IInv'
  BY <1>2 DEF IInv, vars, TypeOK, CountersCoverLog, PendingHasUser, RoundsClosed, RoundsMonotone,
              RoundsOpenWithUser, SameConversation
<1> QED BY <1>1, <1>2 DEF Next

LEMMA Invariance == Spec => []IInv
BY InitIInv, StepIInv, PTL DEF Spec

(* Every committed record is well-typed, in any archive.                   *)
THEOREM TypeCorrect == Spec => []TypeOK
BY Invariance, PTL DEF IInv

(* No record joins a round after the answer that completed it.             *)
THEOREM RoundsStayClosed == Spec => []RoundsClosed
BY Invariance, PTL DEF IInv

(* Round numbers follow the order of the log.                              *)
THEOREM RoundsInOrder == Spec => []RoundsMonotone
BY Invariance, PTL DEF IInv

(* Every round was opened by a user message.                               *)
THEOREM RoundsHaveUser == Spec => []RoundsOpenWithUser
BY Invariance, PTL DEF IInv

-----------------------------------------------------------------------------
(* The summary phase.                                                      *)

(* Every step but the arrival of a message leaves the archive alone.       *)
LEMMA LiveStep == [LiveNext]_liveVars => [Next]_vars
<1> SUFFICES ASSUME [LiveNext]_liveVars PROVE [Next]_vars
  OBVIOUS
<1> USE DEF archive, vars
<1>1. CASE UNCHANGED liveVars
  BY <1>1 DEF liveVars
<1>2. ASSUME NEW m \in Messages, Arrive(m) PROVE Next
  BY <1>2 DEF Arrive, Next
<1>3. ASSUME NEW c \in Convs, Exclude(c) \/ UserSummarize(c) PROVE UNCHANGED vars
  BY <1>3 DEF Exclude, UserSummarize, Begin
<1>4. ASSUME NEW c \in Convs, TickStep(c) PROVE UNCHANGED vars
  BY <1>4 DEF TickStep, BelowThreshold, GenerateDue, RefuseDue, GenerateParent, RefuseParent,
              NextLevel, ConversationDone, Only
<1>5. ASSUME StartTick \/ EndTick PROVE UNCHANGED vars
  BY <1>5 DEF StartTick, EndTick, Begin
<1>6. ASSUME NEW p \in Procs, GenerateStep(p) PROVE UNCHANGED vars
  BY <1>6 DEF GenerateStep, EnterSource, ReuseSummary, CommitFile, CommitIndex, Only
<1>7. ASSUME NEW p \in Procs, ModelFails(p) \/ Killed(p) PROVE UNCHANGED vars
  BY <1>7 DEF ModelFails, Killed, Mishap
<1> QED BY <1>1, <1>2, <1>3, <1>4, <1>5, <1>6, <1>7 DEF LiveNext

(* The summariser never touches the archive: with it running, the archive  *)
(* is still the append-only log.                                           *)
THEOREM LiveImplementsLog == LiveSpec => Spec
<1>1. LiveInit => Init
  BY DEF LiveInit
<1> QED BY <1>1, LiveStep, PTL DEF LiveSpec, Spec

(* Rounds that a summary was made of stay closed, however the arrivals and *)
(* the summaries interleave: no summary misses a part of its rounds.       *)
THEOREM SummarisedRoundsStayClosed == LiveSpec => []RoundsClosed
BY LiveImplementsLog, RoundsStayClosed, PTL

-----------------------------------------------------------------------------
(* The operators of the model.                                             *)

(* Division with remainder.                                                *)
LEMMA Quotient ==
    ASSUME NEW n \in Nat, NEW m \in Nat \ {0}
    PROVE  /\ n \div m \in Nat
           /\ (n \div m) * m <= n /\ n < (n \div m) * m + m
<1>1. n \div m \in Nat
  OBVIOUS
<1>2. n = m * (n \div m) + (n % m) /\ n % m \in 0..(m - 1)
  OBVIOUS
<1> DEFINE q == n \div m
          r == n % m
<1> HIDE DEF q, r
<1>3. n = m * q + r /\ q \in Nat /\ r \in 0..(m - 1)
  BY <1>1, <1>2 DEF q, r
<1>4. q * m <= n /\ n < q * m + m
  BY <1>3
<1> QED BY <1>1, <1>4 DEF q

(* The rank of a number in a finite set.                                   *)
LEMMA RankBijection ==
    ASSUME NEW S \in SUBSET Nat, IsFiniteSet(S)
    PROVE  [x \in S |-> Cardinality({y \in S : y < x}) + 1] \in Bijection(S, 1..Cardinality(S))
<1> DEFINE below(x) == {y \in S : y < x}
          rank == [x \in S |-> Cardinality(below(x)) + 1]
          T == 1..Cardinality(S)
<1>1. Cardinality(S) \in Nat
  BY FS_CardinalityType
<1>2. \A x \in S : /\ IsFiniteSet(below(x)) /\ Cardinality(below(x)) \in Nat
                   /\ Cardinality(below(x)) < Cardinality(S)
  <2> SUFFICES ASSUME NEW x \in S
               PROVE  /\ IsFiniteSet(below(x)) /\ Cardinality(below(x)) \in Nat
                      /\ Cardinality(below(x)) < Cardinality(S)
    OBVIOUS
  <2>1. below(x) \subseteq S /\ x \notin below(x)
    OBVIOUS
  <2>2. IsFiniteSet(below(x)) /\ Cardinality(below(x)) <= Cardinality(S)
        /\ Cardinality(below(x)) # Cardinality(S)
    BY <2>1, FS_Subset
  <2>3. Cardinality(below(x)) \in Nat
    BY <2>2, FS_CardinalityType
  <2> QED BY <1>1, <2>2, <2>3
<1>3. \A x, y \in S : x < y => Cardinality(below(x)) < Cardinality(below(y))
  <2> SUFFICES ASSUME NEW x \in S, NEW y \in S, x < y
               PROVE  Cardinality(below(x)) < Cardinality(below(y))
    OBVIOUS
  <2> x \in Nat /\ y \in Nat
    OBVIOUS
  <2>1. below(x) \subseteq below(y)
    <3> SUFFICES ASSUME NEW z \in below(x) PROVE z \in below(y)
      OBVIOUS
    <3> z \in S /\ z \in Nat /\ z < x
      OBVIOUS
    <3> QED OBVIOUS
  <2>3. x \notin below(x) /\ x \in below(y)
    OBVIOUS
  <2>2. Cardinality(below(x)) <= Cardinality(below(y)) /\ Cardinality(below(x)) # Cardinality(below(y))
    BY <1>2, <2>1, <2>3, FS_Subset
  <2> QED BY <1>2, <2>2
<1>4. rank \in [S -> T]
  BY <1>1, <1>2
<1>5. \A x, y \in S : rank[x] = rank[y] => x = y
  <2> SUFFICES ASSUME NEW x \in S, NEW y \in S, rank[x] = rank[y] PROVE x = y
    OBVIOUS
  <2>1. Cardinality(below(x)) = Cardinality(below(y))
    BY <1>2
  <2>2. ~(x < y) /\ ~(y < x)
    BY <1>2, <1>3, <2>1
  <2> QED BY <2>2
<1>6. rank \in Injection(S, T)
  BY <1>4, <1>5 DEF Injection, IsInjective
<1>7. IsFiniteSet(T) /\ Cardinality(T) = Cardinality(S)
  BY <1>1, FS_Interval
<1>8. rank \in Surjection(S, T)
  BY <1>6, <1>7, FS_Injection
<1> QED BY <1>6, <1>8 DEF Bijection

(* InOrder(S) lists S, each number once.                                   *)
LEMMA InOrderLaw ==
    ASSUME NEW S \in SUBSET Nat, IsFiniteSet(S)
    PROVE  /\ InOrder(S) \in Seq(S) /\ Len(InOrder(S)) = Cardinality(S) /\ Cardinality(S) \in Nat
           /\ Range(InOrder(S)) = S
           /\ \A i, j \in 1..Len(InOrder(S)) : InOrder(S)[i] = InOrder(S)[j] => i = j
<1> DEFINE n == Cardinality(S)
          below(x) == Cardinality({y \in S : y < x})
          rank == [x \in S |-> below(x) + 1]
          o == InOrder(S)
<1>1. n \in Nat
  BY FS_CardinalityType
<1>2. rank \in Bijection(S, 1..n)
  BY RankBijection
<1>3. \A x \in S : below(x) \in Nat
  <2> SUFFICES ASSUME NEW x \in S PROVE below(x) \in Nat
    OBVIOUS
  <2>1. IsFiniteSet({y \in S : y < x})
    BY FS_Subset
  <2> QED BY <2>1, FS_CardinalityType
<1>4. \A x \in S : rank[x] = below(x) + 1 /\ rank[x] \in 1..n
  BY <1>2 DEF Bijection, Injection
<1>5. \A x, y \in S : below(x) = below(y) => x = y
  BY <1>2, <1>4 DEF Bijection, Injection, IsInjective
<1>6. \A k \in 1..n : \E x \in S : rank[x] = k
  BY <1>2 DEF Bijection, Surjection
<1> HIDE DEF rank
<1>7. \A k \in 1..n : \E x \in S : below(x) = k - 1
  BY <1>3, <1>4, <1>6
<1>8. o = [k \in 1..n |-> CHOOSE x \in S : below(x) = k - 1]
  BY DEF InOrder
<1> HIDE DEF below, o
<1>9. \A k \in 1..n : o[k] \in S /\ below(o[k]) = k - 1
  <2> SUFFICES ASSUME NEW k \in 1..n PROVE o[k] \in S /\ below(o[k]) = k - 1
    OBVIOUS
  <2>1. o[k] = CHOOSE x \in S : below(x) = k - 1
    BY <1>8
  <2> QED BY <1>7, <2>1
<1>10. o \in [1..n -> S]
  BY <1>8, <1>9
<1>11. o \in Seq(S) /\ Len(o) = n
  BY <1>1, <1>10
<1>12. \A i, j \in 1..n : o[i] = o[j] => i = j
  BY <1>1, <1>9
<1>13. Range(o) = S
  <2>1. \A x \in S : \E k \in 1..n : o[k] = x
    <3> SUFFICES ASSUME NEW x \in S PROVE \E k \in 1..n : o[k] = x
      OBVIOUS
    <3>1. below(x) + 1 \in 1..n /\ below(x) \in Nat
      BY <1>3, <1>4
    <3>2. o[below(x) + 1] \in S /\ below(o[below(x) + 1]) = (below(x) + 1) - 1
      BY <1>9, <3>1
    <3>3. (below(x) + 1) - 1 = below(x)
      BY <3>1
    <3>4. o[below(x) + 1] = x
      BY <1>5, <3>2, <3>3
    <3> QED BY <3>1, <3>4
  <2> QED BY <1>10, <2>1 DEF Range
<1> QED BY <1>1, <1>11, <1>12, <1>13 DEF o

(* A set of numbers that is finite and not empty has a least one.          *)
LEMMA MinLaw ==
    ASSUME NEW S \in SUBSET Nat, IsFiniteSet(S), S # {}
    PROVE  Min(S) \in S
<1> DEFINE below(x) == {y \in S : y < x}
<1>1. Cardinality(S) \in Nat /\ Cardinality(S) # 0
  BY FS_CardinalityType, FS_EmptySet
<1>2. PICK x \in S : Cardinality(below(x)) + 1 = 1
  <2> DEFINE rank == [x \in S |-> Cardinality({y \in S : y < x}) + 1]
  <2>1. rank \in Surjection(S, 1..Cardinality(S))
    BY RankBijection DEF Bijection
  <2>2. 1 \in 1..Cardinality(S)
    BY <1>1
  <2>3. PICK x \in S : rank[x] = 1
    BY <2>1, <2>2 DEF Surjection
  <2> QED BY <2>3
<1>3. IsFiniteSet(below(x))
  BY FS_Subset
<1>4. Cardinality(below(x)) \in Nat
  BY <1>3, FS_CardinalityType
<1>5. below(x) = {}
  BY <1>2, <1>3, <1>4, FS_EmptySet
<1>6. \A y \in S : x <= y
  BY <1>5
<1> QED BY <1>6 DEF Min

(* _partition: nonempty groups that share no item and hold only the items. *)
LEMMA GroupsLaw ==
    ASSUME NEW items \in Seq(Nat), Len(items) > 0
    PROVE  /\ Groups(items) \in Seq(Seq(Nat)) /\ Len(Groups(items)) > 0
           /\ \A g \in DOMAIN Groups(items) :
                 Groups(items)[g] # <<>> /\ Range(Groups(items)[g]) \subseteq Range(items)
           /\ (\A i, j \in DOMAIN items : items[i] = items[j] => i = j) =>
                 \A g, h \in DOMAIN Groups(items) :
                    g # h => Range(Groups(items)[g]) \cap Range(Groups(items)[h]) = {}
<1> DEFINE len == Len(items)
          M == MaxInput
          N == (len + M - 1) \div M
          to(g) == Min({g * M, len})
          group(g) == SubSeq(items, (g - 1) * M + 1, to(g))
<1>1. len \in Nat /\ len > 0 /\ M \in Nat /\ M > 1 /\ DOMAIN items = 1..len
  BY SizesAssumption
<1> HIDE DEF len, M
<1>2. N \in Nat /\ N > 0 /\ (N - 1) * M < len
  <2>1. len + M - 1 \in Nat /\ M \in Nat \ {0}
    BY <1>1
  <2>2. N \in Nat /\ N * M <= len + M - 1 /\ len + M - 1 < N * M + M
    BY <2>1, Quotient
  <2> HIDE DEF N
  <2>3. N # 0
    BY <1>1, <2>2
  <2>4. (N - 1) * M = N * M - M
    BY <1>1, <2>2
  <2>5. N * M \in Nat
    BY <1>1, <2>2
  <2> QED BY <1>1, <2>2, <2>3, <2>4, <2>5
<1> HIDE DEF N
<1>3. \A g \in 1..N : (g - 1) * M \in Nat /\ g * M \in Nat /\ g * M = (g - 1) * M + M
  BY <1>1, <1>2
<1>4. \A g, h \in 1..N : g < h => g * M <= (h - 1) * M
  <2> SUFFICES ASSUME NEW g \in 1..N, NEW h \in 1..N, g < h PROVE g * M <= (h - 1) * M
    OBVIOUS
  <2>1. PICK d \in Nat : h - 1 = g + d
    <3>1. h - 1 - g \in Nat /\ h - 1 = g + (h - 1 - g)
      BY <1>2
    <3> QED BY <3>1
  <2>2. (g + d) * M = g * M + d * M /\ d * M \in Nat /\ g * M \in Nat
    BY <1>1, <1>2
  <2> QED BY <2>1, <2>2
<1>5. \A g \in 1..N : (g - 1) * M < len
  <2> SUFFICES ASSUME NEW g \in 1..N PROVE (g - 1) * M < len
    OBVIOUS
  <2>1. CASE g = N
    BY <1>2, <2>1
  <2>2. CASE g < N
    <3>1. g * M <= (N - 1) * M
      BY <1>2, <1>4, <2>2
    <3> QED BY <1>1, <1>2, <1>3, <3>1
  <2> QED BY <1>2, <2>1, <2>2
<1>6. \A g \in 1..N : to(g) \in Nat /\ to(g) <= len /\ to(g) <= g * M /\ (g - 1) * M + 1 <= to(g)
  <2> SUFFICES ASSUME NEW g \in 1..N
               PROVE  to(g) \in Nat /\ to(g) <= len /\ to(g) <= g * M /\ (g - 1) * M + 1 <= to(g)
    OBVIOUS
  <2>1. g * M \in Nat /\ (g - 1) * M \in Nat /\ g * M = (g - 1) * M + M /\ (g - 1) * M < len
    BY <1>3, <1>5
  <2> DEFINE x == g * M
            y == (g - 1) * M
  <2>2. to(g) = Min({x, len})
    OBVIOUS
  <2> HIDE DEF x, y
  <2>3. Min({x, len}) = IF x <= len THEN x ELSE len
    BY <1>1, <2>1 DEF Min, x
  <2> QED BY <1>1, <2>1, <2>2, <2>3 DEF x, y
<1> HIDE DEF to
<1>7. ASSUME NEW g \in 1..N
      PROVE  /\ group(g) \in Seq(Nat) /\ group(g) # <<>>
             /\ \A x \in Range(group(g)) : \E k \in DOMAIN items :
                   k > (g - 1) * M /\ k <= g * M /\ x = items[k]
  <2> DEFINE y == (g - 1) * M
  <2>1. y \in Nat /\ y + 1 <= to(g) /\ to(g) <= len /\ to(g) <= g * M /\ to(g) \in Nat /\ g * M \in Nat
    BY <1>3, <1>6
  <2>2. group(g) = SubSeq(items, y + 1, to(g))
    OBVIOUS
  <2> HIDE DEF y, group
  <2>3. group(g) \in Seq(Nat) /\ Len(group(g)) = to(g) - y
    BY <1>1, <2>1, <2>2 DEF len
  <2>4. \A i \in 1..(to(g) - y) : group(g)[i] = items[y + i]
    <3> SUFFICES ASSUME NEW i \in 1..(to(g) - y) PROVE group(g)[i] = items[y + i]
      OBVIOUS
    <3>1. /\ y + 1 \in 1..(Len(items) + 1) /\ to(g) \in 0..Len(items) /\ items \in Seq(Nat)
          /\ i \in 1..(to(g) - (y + 1) + 1) /\ (y + 1) + i - 1 = y + i
      BY <1>1, <2>1 DEF len
    <3>2. SubSeq(items, y + 1, to(g))[i] = items[(y + 1) + i - 1]
      BY <3>1
    <3> QED BY <2>2, <3>1, <3>2
  <2>5. \A i \in 1..(to(g) - y) : y + i \in 1..len /\ y + i > y /\ y + i <= g * M
    BY <1>1, <2>1
  <2>6. DOMAIN group(g) = 1..(to(g) - y) /\ group(g) # <<>>
    BY <2>1, <2>3
  <2>7. \A x \in Range(group(g)) : \E k \in DOMAIN items : k > y /\ k <= g * M /\ x = items[k]
    BY <1>1, <2>4, <2>5, <2>6 DEF Range
  <2> QED BY <2>3, <2>6, <2>7 DEF y
<1> HIDE DEF group
<1>8. Groups(items) = [g \in 1..N |-> group(g)]
  BY DEF Groups, group, to, N, len, M
<1>9. Groups(items) \in Seq(Seq(Nat)) /\ Len(Groups(items)) = N /\ DOMAIN Groups(items) = 1..N
  BY <1>2, <1>7, <1>8
<1>10. \A g \in 1..N : Groups(items)[g] = group(g)
  BY <1>8
<1>11. ASSUME \A i, j \in DOMAIN items : items[i] = items[j] => i = j,
              NEW g \in 1..N, NEW h \in 1..N, g < h
       PROVE  Range(group(g)) \cap Range(group(h)) = {}
  <2> SUFFICES ASSUME NEW x, x \in Range(group(g)), x \in Range(group(h)) PROVE FALSE
    OBVIOUS
  <2>1. PICK k \in DOMAIN items : k <= g * M /\ x = items[k]
    BY <1>7
  <2>2. PICK l \in DOMAIN items : l > (h - 1) * M /\ x = items[l]
    BY <1>7
  <2>3. k = l
    BY <1>11, <2>1, <2>2
  <2>4. g * M <= (h - 1) * M /\ g * M \in Nat /\ (h - 1) * M \in Nat /\ k \in Nat
    BY <1>1, <1>3, <1>4, <1>11
  <2> QED BY <2>1, <2>2, <2>3, <2>4
<1>12. \A g \in 1..N : group(g) # <<>> /\ Range(group(g)) \subseteq Range(items)
  BY <1>7 DEF Range
<1>13. ASSUME \A i, j \in DOMAIN items : items[i] = items[j] => i = j,
              NEW g \in 1..N, NEW h \in 1..N, g # h
       PROVE  Range(group(g)) \cap Range(group(h)) = {}
  <2>1. g < h \/ h < g
    BY <1>2, <1>13
  <2> QED BY <1>11, <1>13, <2>1
<1>14. (\A i, j \in DOMAIN items : items[i] = items[j] => i = j) =>
          \A g, h \in DOMAIN Groups(items) :
             g # h => Range(Groups(items)[g]) \cap Range(Groups(items)[h]) = {}
  BY <1>9, <1>10, <1>13
<1> QED BY <1>2, <1>9, <1>10, <1>12, <1>14

-----------------------------------------------------------------------------
(* The invariant.                                                          *)

Places == {"idle", "next", "parents", "lock", "call", "index"}

FileType == [conv : Convs, level : Nat \ {0}, inputs : SUBSET Nat, refs : SUBSET Nat,
             raw : SUBSET Nat, by : Procs]

TaskType == [at : Places, todo : SUBSET Convs, errors : BOOLEAN, conv : SUBSET Convs,
             scan : Nat, level : Nat, groups : Seq(Seq(Nat)), nodes : Seq(Nat), last : Nat]

LiveType ==
    /\ files \in Seq(FileType) /\ indexed \subseteq DOMAIN files
    /\ task \in [Procs -> TaskType]
    /\ task["tick"].at = "parents" => task["tick"].scan > 0

Generating(p) == task[p].at \in {"lock", "call", "index"}

Items(p) == UNION {Range(task[p].groups[g]) : g \in DOMAIN task[p].groups}

(* What a summary of a level may take: a record of a completed round, or a *)
(* summary one level down that has its row.                                *)
Taken(c, level, i) ==
    IF level = 1 THEN i \in Records(c) /\ log[i].round \in CompletedRounds(c)
    ELSE i \in indexed /\ files[i].conv = c /\ files[i].level = level - 1

FileGood(k, s) ==
    /\ s.inputs # {} /\ s.refs \subseteq s.inputs
    /\ \A i \in s.inputs : Taken(s.conv, s.level, i) /\ (s.level > 1 => i \in 1..(k - 1))
    /\ s.raw = IF s.level = 1 THEN s.refs ELSE UNION {files[j].raw : j \in s.refs}

FilesGood == \A k \in DOMAIN files : FileGood(k, files[k])

GenerationGood(p) ==
    \E c \in Convs :
        /\ task[p].conv = {c} /\ task[p].level > 0
        /\ task[p].groups # <<>>
        /\ \A g \in DOMAIN task[p].groups : task[p].groups[g] # <<>>
        /\ \A i \in Items(p) : Taken(c, task[p].level, i)
        /\ \A n \in Range(task[p].nodes) : Taken(c, task[p].level + 1, n)
        /\ task[p].at = "index" => task[p].last \in DOMAIN files /\ Same(p, task[p].last)

GenerationsGood == \A p \in Procs : Generating(p) => GenerationGood(p)

(* The lock of a source.                                                   *)
SourcesLocked ==
    \A p, q \in Procs :
        p # q /\ InModel(p) /\ InModel(q) /\ task[p].conv = task[q].conv => Source(p) # Source(q)

CallIsFirst ==
    \A p \in Procs : task[p].at = "call" => \A k \in DOMAIN files : Same(p, k) => k \in orphans

RowsFollow ==
    \A k \in DOMAIN files \ indexed :
        k \in orphans \/ \E p \in Procs : task[p].at = "index" /\ task[p].last = k

(* The files of the tick, of the conversation it generates for.            *)
ByTick(k) == k \in DOMAIN files /\ files[k].by = "tick"
MadeHere(k) == ByTick(k) /\ files[k].conv \in task["tick"].conv

TickIndexed ==
    task["tick"].at # "idle" =>
        \A k \in DOMAIN files : ByTick(k) =>
            k \in indexed \/ (task["tick"].at = "index" /\ task["tick"].last = k)

(* What the tick generates is apart from the old summaries, those that     *)
(* were there when it began and rest on none of its items.                 *)
Apart(old) ==
    LET t == task["tick"]
    IN  /\ old \subseteq DOMAIN files
        /\ \A n \in old : files[n].level > 1 => files[n].inputs \subseteq old
        /\ \A k \in DOMAIN files : MadeHere(k) /\ files[k].level > t.level => files[k].inputs \subseteq old
        /\ IF t.level = 1
           THEN \A n \in old : files[n].conv \in t.conv /\ files[n].level = 1
                                 => files[n].inputs \cap Items("tick") = {}
           ELSE Items("tick") \cap old = {}
        /\ Range(t.nodes) \cap old = {}
        /\ t.at = "index" => t.last \notin old

OnceEach ==
    LET t == task["tick"]
    IN  /\ \A k \in DOMAIN files :
              MadeHere(k) /\ files[k].level = t.level /\ ~(t.at = "index" /\ t.last = k)
                  => files[k].inputs \cap Items("tick") = {}
        /\ \A g, h \in DOMAIN t.groups : g # h => Range(t.groups[g]) \cap Range(t.groups[h]) = {}
        /\ \A i, j \in DOMAIN t.nodes : t.nodes[i] = t.nodes[j] => i = j
        /\ \A n \in Range(t.nodes) : files[n].inputs \cap Items("tick") = {}

TickApart == Generating("tick") => OnceEach /\ \E old \in SUBSET DOMAIN files : Apart(old)

LiveIInv ==
    /\ IInv /\ LiveType /\ FilesGood /\ GenerationsGood
    /\ SourcesLocked /\ CallIsFirst /\ RowsFollow /\ SourceOnce
    /\ TickIndexed /\ TickApart /\ InputOnce

-----------------------------------------------------------------------------
(* Sequences.                                                              *)

(* What is left of a list without its first element.                       *)
LEMMA TailLaw ==
    ASSUME NEW T, NEW s \in Seq(T), s # <<>>
    PROVE  /\ Tail(s) \in Seq(T) /\ Head(s) \in T /\ Head(s) \in Range(s)
           /\ Len(Tail(s)) = Len(s) - 1 /\ Len(s) \in Nat /\ Len(s) > 0
           /\ \A i \in DOMAIN Tail(s) : i + 1 \in DOMAIN s /\ i \in Nat /\ i > 0 /\ Tail(s)[i] = s[i + 1]
           /\ Head(s) = s[1] /\ 1 \in DOMAIN s
<1>1. Len(s) \in Nat /\ Len(s) > 0 /\ DOMAIN s = 1..Len(s)
  OBVIOUS
<1>2. Tail(s) \in Seq(T) /\ Len(Tail(s)) = Len(s) - 1
  BY <1>1
<1>3. DOMAIN Tail(s) = 1..(Len(s) - 1)
  BY <1>2
<1>4. \A i \in 1..(Len(s) - 1) : Tail(s)[i] = s[i + 1]
  BY <1>1
<1> QED BY <1>1, <1>2, <1>3, <1>4 DEF Range

(* A list with one element more.                                           *)
LEMMA AppendLaw ==
    ASSUME NEW T, NEW s \in Seq(T), NEW x \in T
    PROVE  /\ Append(s, x) \in Seq(T) /\ Len(s) \in Nat /\ Len(Append(s, x)) = Len(s) + 1
           /\ DOMAIN s = 1..Len(s) /\ DOMAIN Append(s, x) = 1..(Len(s) + 1)
           /\ Len(s) + 1 \notin DOMAIN s
           /\ \A i \in DOMAIN s : Append(s, x)[i] = s[i]
           /\ Append(s, x)[Len(s) + 1] = x
           /\ Range(Append(s, x)) = Range(s) \cup {x}
<1>1. Len(s) \in Nat /\ DOMAIN s = 1..Len(s)
  OBVIOUS
<1>2. /\ Append(s, x) \in Seq(T) /\ Len(Append(s, x)) = Len(s) + 1
      /\ DOMAIN Append(s, x) = 1..(Len(s) + 1)
      /\ \A i \in 1..Len(s) : Append(s, x)[i] = s[i]
      /\ Append(s, x)[Len(s) + 1] = x
  BY <1>1
<1>3. Range(Append(s, x)) = Range(s) \cup {x}
  <2> DEFINE a == Append(s, x)
  <2>1. \A y \in Range(a) : y \in Range(s) \cup {x}
    BY <1>1, <1>2 DEF Range
  <2>2. \A y \in Range(s) \cup {x} : y \in Range(a)
    <3>1. Len(s) + 1 \in DOMAIN a /\ \A i \in DOMAIN s : i \in DOMAIN a
      BY <1>1, <1>2
    <3> QED BY <1>1, <1>2, <3>1 DEF Range
  <2> QED BY <2>1, <2>2
<1> QED BY <1>1, <1>2, <1>3

(* A sequence has finitely many elements.                                  *)
LEMMA RangeFinite ==
    ASSUME NEW T, NEW s \in Seq(T)
    PROVE  IsFiniteSet(Range(s)) /\ Range(s) \subseteq T /\ (s # <<>> => Range(s) # {})
<1>1. Len(s) \in Nat /\ DOMAIN s = 1..Len(s) /\ s \in [1..Len(s) -> T]
  OBVIOUS
<1>2. s \in Surjection(1..Len(s), Range(s))
  BY <1>1 DEF Surjection, Range
<1>3. IsFiniteSet(1..Len(s))
  BY <1>1, FS_Interval
<1>4. IsFiniteSet(Range(s))
  BY <1>2, <1>3, FS_Surjection
<1>5. s # <<>> => 1 \in DOMAIN s
  BY <1>1
<1> QED BY <1>1, <1>4, <1>5 DEF Range

-----------------------------------------------------------------------------
(* Steps.                                                                  *)

(* What a step does to the process that takes it.                          *)
Others(p) ==
    /\ \A q \in Procs : q # p => task'[q] = task[q]
    /\ task' = [task EXCEPT ![p] = task'[p]]

(* It generates nothing any more, or not yet.                              *)
Rests(p) ==
    /\ task'[p] \in TaskType /\ task'[p].at \in {"idle", "next", "parents"}
    /\ p = "tick" /\ task'[p].at = "parents" => task'[p].scan > 0
    /\ files' = files
    /\ task[p].at = "index" => task'[p].at = "idle" /\ task[p].last \in orphans'
    /\ p = "tick" /\ task[p].at = "idle" /\ task'[p].at # "idle" => indexed' = DOMAIN files

(* It begins to generate.                                                  *)
Starts(p, c, level, items) ==
    /\ ~Generating(p) /\ files' = files
    /\ task'[p] = Generation(p, c, level, items)
    /\ items # {} /\ \A i \in items : Taken(c, level, i)
    /\ p = "tick" => /\ indexed' = indexed /\ task[p].at # "idle"
                     /\ IF level = 1 THEN items = Selected(c) ELSE items \subseteq Ready(c, level - 1)

Finishes(p, k) ==
    /\ files' = files /\ task'[p] = GroupDone(p, k)
    /\ Same(p, k) /\ k \in indexed'
    /\ \/ task[p].at = "lock" /\ k \in indexed
       \/ task[p].at = "index" /\ k = task[p].last

Enters(p) == EnterSource(p)
Commits(p) == CommitFile(p)

(* A process that does nothing is a process.                               *)
LEMMA IdleType == Idle \in TaskType /\ Idle.at = "idle"
<1>1. <<>> \in Seq(Seq(Nat)) /\ <<>> \in Seq(Nat)
  OBVIOUS
<1> QED BY <1>1 DEF TaskType, Idle, Places

(* The steps of the tick outside of _generate_one.                         *)
LEMMA TickForms ==
    ASSUME LiveIInv, NEW c \in Convs, TickStep(c)
    PROVE  /\ Others("tick")
           /\ \/ Rests("tick")
              \/ \E level \in Nat \ {0}, items \in SUBSET Nat :
                    IsFiniteSet(items) /\ Starts("tick", c, level, items)
<1> DEFINE t == task["tick"]
<1>1. t \in TaskType /\ "tick" \in Procs /\ DOMAIN task = Procs
  BY DEF LiveIInv, LiveType, Procs
<1>2. Others("tick") /\ files' = files /\ indexed' = indexed /\ t.at \in {"next", "parents"}
  BY <1>1 DEF TickStep, Others, BelowThreshold, GenerateDue, RefuseDue, GenerateParent, RefuseParent,
              NextLevel, ConversationDone, Only
<1>3. Raised(c) \in TaskType /\ Raised(c).at = "next"
  <2>2. t.todo \ {c} \in SUBSET Convs
    BY <1>1 DEF TaskType
  <2> QED BY <2>2, IdleType DEF Raised, TaskType, Places, Idle
<1>4. DOMAIN log \in SUBSET Nat /\ IsFiniteSet(DOMAIN log) /\ indexed \in SUBSET Nat /\ IsFiniteSet(indexed)
  <2>1. log \in Seq(Entries) /\ files \in Seq(FileType) /\ indexed \subseteq DOMAIN files
    BY DEF LiveIInv, IInv, TypeOK, LiveType
  <2>2. /\ DOMAIN log = 1..Len(log) /\ Len(log) \in Nat
        /\ DOMAIN files = 1..Len(files) /\ Len(files) \in Nat
    BY <2>1
  <2>3. IsFiniteSet(1..Len(log)) /\ IsFiniteSet(1..Len(files))
    BY <2>2, FS_Interval
  <2> QED BY <2>1, <2>2, <2>3, FS_Subset
<1>5. CASE BelowThreshold(c)
  <2>1. task'["tick"] = Goto("tick", "parents", c)
    BY <1>1, <1>5 DEF BelowThreshold
  <2>2. {c} \in SUBSET Convs /\ 1 \in Nat
    OBVIOUS
  <2>3. task'["tick"] = [at |-> "parents", todo |-> t.todo, errors |-> t.errors, conv |-> {c}, scan |-> 1,
                         level |-> t.level, groups |-> t.groups, nodes |-> t.nodes, last |-> t.last]
    BY <1>1, <2>1 DEF Goto, TaskType
  <2>4. task'["tick"] \in TaskType
    BY <1>1, <2>2, <2>3 DEF TaskType, Places
  <2>5. task'["tick"].at = "parents" /\ task'["tick"].scan = 1
    BY <2>3
  <2> QED BY <1>2, <2>4, <2>5 DEF Rests
<1>6. CASE GenerateDue(c)
  <2>1. task'["tick"] = Generation("tick", c, 1, Selected(c)) /\ Due(c)
    BY <1>1, <1>6 DEF GenerateDue
  <2>2. Selected(c) \in SUBSET Nat /\ IsFiniteSet(Selected(c))
    BY <1>4, FS_Subset DEF Selected, Records
  <2>3. Selected(c) # {}
    <3> SUFFICES ASSUME Selected(c) = {} PROVE FALSE
      OBVIOUS
    <3>1. {log[i].round : i \in Selected(c)} = {}
      OBVIOUS
    <3>2. Cardinality({log[i].round : i \in Selected(c)}) = 0
      BY <3>1, FS_EmptySet
    <3> QED BY <2>1, <3>2, SizesAssumption DEF Due
  <2>4. \A i \in Selected(c) : Taken(c, 1, i)
    BY DEF Selected, Taken
  <2>5. Starts("tick", c, 1, Selected(c))
    BY <1>2, <2>1, <2>3, <2>4 DEF Starts, Generating
  <2> QED BY <1>2, <2>2, <2>5
<1>7. CASE RefuseDue(c) \/ RefuseParent(c)
  <2>1. task'["tick"] = Raised(c)
    BY <1>1, <1>7 DEF RefuseDue, RefuseParent
  <2> QED BY <1>2, <1>3, <2>1 DEF Rests
<1>8. CASE GenerateParent(c)
  <2>1. t.at = "parents"
    BY <1>8 DEF GenerateParent
  <2>2. t.scan \in Nat /\ t.scan > 0
    BY <1>1, <2>1 DEF TaskType, LiveIInv, LiveType
  <2>3. PICK children \in kSubset(MinChildren, Ready(c, t.scan)) :
            task'["tick"] = Generation("tick", c, t.scan + 1, children)
    BY <1>1, <1>8 DEF GenerateParent
  <2>4. children \subseteq Ready(c, t.scan) /\ Cardinality(children) = MinChildren
    BY DEF kSubset
  <2>5. children \subseteq indexed
    BY <2>4 DEF Ready, Listed
  <2>6. children \in SUBSET Nat /\ IsFiniteSet(children)
    BY <1>4, <2>5, FS_Subset
  <2>7. children # {}
    BY <2>4, FS_EmptySet, SizesAssumption
  <2>8. t.scan + 1 \in Nat \ {0} /\ t.scan + 1 # 1 /\ (t.scan + 1) - 1 = t.scan
    BY <2>2
  <2>9. \A i \in children : Taken(c, t.scan + 1, i)
    BY <2>4, <2>8 DEF Ready, Listed, Taken
  <2>10. Starts("tick", c, t.scan + 1, children)
    BY <1>2, <2>3, <2>4, <2>7, <2>8, <2>9 DEF Starts, Generating
  <2> QED BY <1>2, <2>6, <2>8, <2>10
<1>9. CASE NextLevel(c)
  <2>1. t.at = "parents" /\ task'["tick"] = [t EXCEPT !.scan = @ + 1]
    BY <1>1, <1>9 DEF NextLevel
  <2>2. t.scan \in Nat /\ t.scan > 0
    BY <1>1, <2>1 DEF TaskType, LiveIInv, LiveType
  <2>3. t.scan + 1 \in Nat /\ t.scan + 1 > 0
    BY <2>2
  <2>4. task'["tick"] = [at |-> t.at, todo |-> t.todo, errors |-> t.errors, conv |-> t.conv, scan |-> t.scan + 1,
                         level |-> t.level, groups |-> t.groups, nodes |-> t.nodes, last |-> t.last]
    BY <1>1, <2>1 DEF TaskType
  <2>5. task'["tick"] \in TaskType
    BY <1>1, <2>3, <2>4 DEF TaskType
  <2> QED BY <1>2, <2>1, <2>3, <2>4, <2>5 DEF Rests
<1>10. CASE ConversationDone(c)
  <2>1. task'["tick"] = [Raised(c) EXCEPT !.errors = t.errors]
    BY <1>1, <1>10 DEF ConversationDone
  <2>2. task'["tick"] \in TaskType /\ task'["tick"].at = "next"
    BY <1>1, <1>3, <2>1 DEF TaskType
  <2> QED BY <1>2, <2>2 DEF Rests
<1> QED BY <1>5, <1>6, <1>7, <1>8, <1>9, <1>10 DEF TickStep

(* Every step is of one of these forms, and only one process takes it.     *)
LEMMA StepForms ==
    ASSUME LiveIInv, [LiveNext]_liveVars
    PROVE  \/ files' = files /\ task' = task
           \/ \E p \in Procs :
                /\ Others(p)
                /\ \/ Rests(p) \/ Enters(p) \/ Commits(p)
                   \/ \E k \in DOMAIN files : Finishes(p, k)
                   \/ \E c \in Convs, level \in Nat \ {0}, items \in SUBSET Nat :
                         IsFiniteSet(items) /\ Starts(p, c, level, items)
<1>1. DOMAIN task = Procs /\ \A p \in Procs : task[p] \in TaskType
  BY DEF LiveIInv, LiveType
<1>2. "tick" \in Procs /\ "user" \in Procs /\ "tick" # "user"
  BY DEF Procs
<1>3. CASE UNCHANGED liveVars
  BY <1>3 DEF liveVars
<1>4. ASSUME NEW m \in Messages, Arrive(m) PROVE files' = files /\ task' = task
  BY <1>4 DEF Arrive
<1>5. ASSUME NEW c \in Convs, Exclude(c) PROVE files' = files /\ task' = task
  BY <1>5 DEF Exclude
<1>6. ASSUME NEW c \in Convs, UserSummarize(c)
      PROVE  /\ Others("user")
             /\ \E level \in Nat \ {0}, items \in SUBSET Nat :
                   IsFiniteSet(items) /\ Starts("user", c, level, items)
  <2> DEFINE items == {i \in Records(c) : log[i].round \in CompletedRounds(c)}
  <2>1. /\ items # {} /\ task["user"].at = "idle" /\ files' = files
        /\ task' = [task EXCEPT !["user"] = Generation("user", c, 1, items)]
    BY <1>6 DEF UserSummarize, Begin
  <2>2. items \in SUBSET Nat /\ IsFiniteSet(items)
    <3>1. log \in Seq(Entries)
      BY DEF LiveIInv, IInv, TypeOK
    <3>2. DOMAIN log = 1..Len(log) /\ Len(log) \in Nat
      BY <3>1
    <3>3. IsFiniteSet(1..Len(log)) /\ items \in SUBSET (1..Len(log))
      BY <3>2, FS_Interval DEF Records
    <3> QED BY <3>3, FS_Subset
  <2>3. \A i \in items : Taken(c, 1, i)
    BY DEF Taken
  <2>4. task'["user"] = Generation("user", c, 1, items) /\ Others("user")
    BY <1>1, <1>2, <2>1 DEF Others
  <2>5. Starts("user", c, 1, items)
    BY <1>2, <2>1, <2>3, <2>4 DEF Starts, Generating
  <2> QED BY <2>2, <2>4, <2>5
<1>7. CASE StartTick
  <2> DEFINE r == [Idle EXCEPT !.at = "next", !.todo = {c \in Convs : Fresh(c)} \ excluded]
  <2>1. task' = [task EXCEPT !["tick"] = r] /\ task["tick"].at = "idle" /\ indexed' = DOMAIN files
        /\ files' = files
    BY <1>7 DEF StartTick, Begin
  <2>2. r \in TaskType /\ r.at = "next"
    BY IdleType DEF TaskType, Places, Idle
  <2>3. task'["tick"] = r /\ Others("tick")
    BY <1>1, <1>2, <2>1 DEF Others
  <2>4. Rests("tick")
    BY <2>1, <2>2, <2>3 DEF Rests
  <2> QED BY <1>2, <2>3, <2>4
<1>8. CASE EndTick
  <2>1. task'["tick"] = Idle /\ Others("tick") /\ files' = files /\ task["tick"].at = "next"
    BY <1>1, <1>2, <1>8 DEF EndTick, Others
  <2>2. Rests("tick")
    BY <2>1, IdleType DEF Rests
  <2> QED BY <1>2, <2>1, <2>2
<1>9. ASSUME NEW p \in Procs, ModelFails(p)
      PROVE  Others(p) /\ Rests(p)
  <2>1. PICK c \in task[p].conv : task' = [task EXCEPT ![p] = IF p = "user" THEN Idle ELSE Raised(c)]
    BY <1>9 DEF ModelFails
  <2>2. files' = files /\ task[p].at = "call"
    BY <1>9 DEF ModelFails, Mishap
  <2>3. Raised(c) \in TaskType /\ Raised(c).at = "next"
    <3>1. task["tick"].todo \ {c} \in SUBSET Convs
      BY <1>1, <1>2 DEF TaskType
    <3> QED BY <3>1, IdleType DEF Raised, TaskType, Places, Idle
  <2>4. task'[p] \in TaskType /\ task'[p].at \in {"idle", "next"} /\ Others(p)
    BY <1>1, <2>1, <2>3, IdleType DEF Others
  <2> QED BY <2>2, <2>4 DEF Rests
<1>10. ASSUME NEW p \in Procs, Killed(p)
       PROVE  Others(p) /\ Rests(p)
  <2>1. task'[p] = Idle /\ files' = files /\ Others(p)
    BY <1>1, <1>10 DEF Killed, Mishap, Others
  <2>2. task[p].at = "index" => task[p].last \in orphans'
    BY <1>10 DEF Killed
  <2>3. task[p].at # "idle"
    BY <1>10 DEF Killed
  <2> QED BY <2>1, <2>2, <2>3, IdleType DEF Rests
<1>11. ASSUME NEW p \in Procs, EnterSource(p) PROVE Others(p)
  BY <1>1, <1>11 DEF EnterSource, Others
<1>12. ASSUME NEW p \in Procs, CommitFile(p) PROVE Others(p)
  BY <1>1, <1>12 DEF CommitFile, Others
<1>13. ASSUME NEW p \in Procs, ReuseSummary(p)
       PROVE  Others(p) /\ \E k \in DOMAIN files : Finishes(p, k)
  <2>1. PICK k \in indexed : Same(p, k) /\ task' = [task EXCEPT ![p] = GroupDone(p, k)]
    BY <1>13 DEF ReuseSummary
  <2>2. files' = files /\ indexed' = indexed /\ task[p].at = "lock" /\ k \in DOMAIN files
    BY <1>13 DEF ReuseSummary, LiveIInv, LiveType
  <2> QED BY <1>1, <2>1, <2>2 DEF Finishes, Others
<1>14. ASSUME NEW p \in Procs, CommitIndex(p)
       PROVE  Others(p) /\ \E k \in DOMAIN files : Finishes(p, k)
  <2>1. task[p].at = "index" /\ files' = files /\ indexed' = indexed \cup {task[p].last}
        /\ task' = [task EXCEPT ![p] = GroupDone(p, task[p].last)]
    BY <1>14 DEF CommitIndex
  <2>2. task[p].last \in DOMAIN files /\ Same(p, task[p].last)
    BY <2>1 DEF LiveIInv, GenerationsGood, GenerationGood, Generating
  <2> QED BY <1>1, <2>1, <2>2 DEF Finishes, Others
<1>15. ASSUME NEW c \in Convs, TickStep(c)
       PROVE  /\ Others("tick")
              /\ \/ Rests("tick")
                 \/ \E level \in Nat \ {0}, items \in SUBSET Nat :
                       IsFiniteSet(items) /\ Starts("tick", c, level, items)
  BY <1>15, TickForms
<1> USE DEF Enters, Commits
<1>16. ASSUME NEW p \in Procs, GenerateStep(p)
       PROVE  Others(p) /\ (Enters(p) \/ Commits(p) \/ \E k \in DOMAIN files : Finishes(p, k))
  BY <1>11, <1>12, <1>13, <1>14, <1>16 DEF GenerateStep
<1> QED BY <1>2, <1>3, <1>4, <1>5, <1>6, <1>7, <1>8, <1>9, <1>10, <1>15, <1>16 DEF LiveNext

(* What only grows.                                                        *)
LEMMA Grows ==
    ASSUME LiveIInv, [LiveNext]_liveVars
    PROVE  /\ IInv'
           /\ indexed \subseteq indexed' /\ orphans \subseteq orphans'
           /\ DOMAIN files \subseteq DOMAIN files' /\ \A k \in DOMAIN files : files'[k] = files[k]
           /\ indexed' \subseteq DOMAIN files'
           /\ \A c, level, i : Taken(c, level, i) => Taken(c, level, i)'
<1>1. /\ files \in Seq(FileType) /\ indexed \subseteq DOMAIN files
      /\ \A p \in Procs : task[p] \in TaskType
  BY DEF LiveIInv, LiveType
<1>2. IInv'
  BY LiveStep, StepIInv DEF LiveIInv
<1>3. files' = files \/ \E x : files' = Append(files, x)
  <2>1. CASE UNCHANGED liveVars
    BY <2>1 DEF liveVars
  <2>2. ASSUME NEW p \in Procs, CommitFile(p) PROVE \E x : files' = Append(files, x)
    BY <2>2 DEF CommitFile
  <2>3. CASE \E p \in Procs : CommitFile(p)
    BY <2>2, <2>3
  <2>4. CASE LiveNext /\ ~\E p \in Procs : CommitFile(p)
    BY <2>4 DEF LiveNext, Exclude, UserSummarize, Begin, TickStep, BelowThreshold, GenerateDue,
                RefuseDue, GenerateParent, RefuseParent, NextLevel, ConversationDone, Arrive,
                StartTick, EndTick, GenerateStep, EnterSource, ReuseSummary, CommitIndex,
                ModelFails, Killed, Mishap
  <2> QED BY <2>1, <2>3, <2>4
<1>4. DOMAIN files \subseteq DOMAIN files' /\ \A k \in DOMAIN files : files'[k] = files[k]
  <2>1. ASSUME NEW x, files' = Append(files, x)
        PROVE  DOMAIN files \subseteq DOMAIN files' /\ \A k \in DOMAIN files : files'[k] = files[k]
    <3>1. Len(files) \in Nat /\ DOMAIN files = 1..Len(files)
      BY <1>1
    <3>2. DOMAIN files' = 1..(Len(files) + 1) /\ \A k \in 1..Len(files) : files'[k] = files[k]
      BY <1>1, <2>1, <3>1
    <3> QED BY <3>1, <3>2
  <2> QED BY <1>3, <2>1
<1>5. \/ indexed' = indexed \/ indexed' = DOMAIN files
      \/ \E p \in Procs : task[p].at = "index" /\ indexed' = indexed \cup {task[p].last}
  <2>1. CASE UNCHANGED liveVars
    BY <2>1 DEF liveVars
  <2>2. CASE LiveNext
    BY <2>2 DEF LiveNext, Exclude, UserSummarize, Begin, TickStep, BelowThreshold, GenerateDue,
                RefuseDue, GenerateParent, RefuseParent, NextLevel, ConversationDone, Arrive,
                StartTick, EndTick, GenerateStep, EnterSource, ReuseSummary, CommitFile, CommitIndex,
                ModelFails, Killed, Mishap
  <2> QED BY <2>1, <2>2
<1>6. indexed \subseteq indexed' /\ indexed' \subseteq DOMAIN files'
  <2>1. \A p \in Procs : task[p].at = "index" => task[p].last \in DOMAIN files
    BY DEF LiveIInv, GenerationsGood, GenerationGood, Generating
  <2> QED BY <1>1, <1>4, <1>5, <2>1
<1>7. orphans \subseteq orphans'
  <2>1. CASE UNCHANGED liveVars
    BY <2>1 DEF liveVars, history
  <2>2. CASE LiveNext
    BY <2>2 DEF LiveNext, Exclude, UserSummarize, Begin, TickStep, BelowThreshold, GenerateDue,
                RefuseDue, GenerateParent, RefuseParent, NextLevel, ConversationDone, Arrive, Only,
                StartTick, EndTick, GenerateStep, EnterSource, ReuseSummary, CommitFile, CommitIndex,
                ModelFails, Killed, Mishap, history
  <2> QED BY <2>1, <2>2
<1>8. DOMAIN log \subseteq DOMAIN log' /\ \A i \in DOMAIN log : log'[i] = log[i]
  <2>1. log \in Seq(Entries)
    BY DEF LiveIInv, IInv, TypeOK
  <2>2. log' = log \/ \E x : log' = Append(log, x)
    BY LiveStep DEF Next, AppendMessage, vars
  <2>3. ASSUME NEW x, log' = Append(log, x)
        PROVE  DOMAIN log \subseteq DOMAIN log' /\ \A i \in DOMAIN log : log'[i] = log[i]
    <3>1. Len(log) \in Nat /\ DOMAIN log = 1..Len(log)
      BY <2>1
    <3>2. DOMAIN log' = 1..(Len(log) + 1) /\ \A i \in 1..Len(log) : log'[i] = log[i]
      BY <2>1, <2>3, <3>1
    <3> QED BY <3>1, <3>2
  <2> QED BY <2>2, <2>3
<1>9. ASSUME NEW c, NEW level, NEW i, Taken(c, level, i) PROVE Taken(c, level, i)'
  <2>1. CASE level = 1
    <3>1. i \in Records(c) /\ log[i].round \in CompletedRounds(c)
      BY <1>9, <2>1 DEF Taken
    <3>2. \A j \in Records(c) : j \in DOMAIN log /\ j \in Records(c)' /\ log'[j] = log[j]
      BY <1>8 DEF Records
    <3>3. PICK j \in Records(c) : log[j].completes /\ log[j].round = log[i].round
      BY <3>1 DEF CompletedRounds
    <3>4. log'[i].round \in CompletedRounds(c)'
      BY <3>1, <3>2, <3>3 DEF CompletedRounds
    <3> QED BY <2>1, <3>1, <3>2, <3>4 DEF Taken
  <2>2. CASE level # 1
    BY <1>1, <1>4, <1>6, <1>9, <2>2 DEF Taken
  <2> QED BY <2>1, <2>2
<1> QED BY <1>2, <1>4, <1>6, <1>7, <1>9

(* The first group, which is what is asked for now.                        *)
LEMMA FirstGroup ==
    ASSUME LiveIInv, NEW p \in Procs, Generating(p)
    PROVE  /\ task[p].groups \in Seq(Seq(Nat)) /\ task[p].groups # <<>>
           /\ Source(p).level = task[p].level /\ Source(p).inputs = Range(Head(task[p].groups))
           /\ Source(p).inputs \in SUBSET Nat /\ IsFiniteSet(Source(p).inputs)
           /\ Source(p).inputs # {} /\ Source(p).inputs \subseteq Items(p)
<1>1. task[p] \in TaskType /\ GenerationGood(p)
  BY DEF LiveIInv, LiveType, GenerationsGood
<1>2. task[p].groups \in Seq(Seq(Nat)) /\ task[p].groups # <<>>
      /\ \A g \in DOMAIN task[p].groups : task[p].groups[g] # <<>>
  BY <1>1 DEF TaskType, GenerationGood
<1>3. Head(task[p].groups) \in Seq(Nat) /\ Head(task[p].groups) = task[p].groups[1]
      /\ 1 \in DOMAIN task[p].groups
  BY <1>2, TailLaw
<1>4. /\ IsFiniteSet(Range(Head(task[p].groups))) /\ Range(Head(task[p].groups)) \subseteq Nat
      /\ Range(Head(task[p].groups)) # {}
  BY <1>2, <1>3, RangeFinite
<1>5. Range(Head(task[p].groups)) \subseteq Items(p)
  BY <1>3 DEF Items
<1> QED BY <1>2, <1>4, <1>5 DEF Source

(* What a generation begins with.                                          *)
LEMMA GenerationForm ==
    ASSUME NEW p, task[p] \in TaskType, NEW c \in Convs, NEW level \in Nat \ {0},
           NEW items \in SUBSET Nat, IsFiniteSet(items), items # {}
    PROVE  LET r == Generation(p, c, level, items)
           IN  /\ r \in TaskType /\ r.at = "lock" /\ r.conv = {c} /\ r.level = level
               /\ r.nodes = <<>> /\ r.groups # <<>>
               /\ \A g \in DOMAIN r.groups : r.groups[g] # <<>> /\ Range(r.groups[g]) \subseteq items
               /\ \A g, h \in DOMAIN r.groups : g # h => Range(r.groups[g]) \cap Range(r.groups[h]) = {}
<1> DEFINE o == InOrder(items)
          G == Groups(o)
          t == task[p]
<1>1. /\ o \in Seq(items) /\ Len(o) = Cardinality(items) /\ Range(o) = items
      /\ \A i, j \in 1..Len(o) : o[i] = o[j] => i = j
  BY InOrderLaw
<1>2. Len(o) > 0 /\ o \in Seq(Nat) /\ DOMAIN o = 1..Len(o)
  <2>1. Cardinality(items) \in Nat /\ Cardinality(items) # 0
    BY FS_CardinalityType, FS_EmptySet
  <2> HIDE DEF o
  <2>2. Len(o) \in Nat /\ DOMAIN o = 1..Len(o) /\ o \in [1..Len(o) -> items]
    BY <1>1
  <2>3. o \in [1..Len(o) -> Nat]
    BY <2>2
  <2>4. o \in Seq(Nat)
    BY <2>2, <2>3
  <2> QED BY <1>1, <2>1, <2>2, <2>4
<1> HIDE DEF o
<1>3. /\ G \in Seq(Seq(Nat)) /\ Len(G) > 0
      /\ \A g \in DOMAIN G : G[g] # <<>> /\ Range(G[g]) \subseteq Range(o)
      /\ \A g, h \in DOMAIN G : g # h => Range(G[g]) \cap Range(G[h]) = {}
  BY <1>1, <1>2, GroupsLaw
<1>4. G # <<>>
  BY <1>3
<1>5. Generation(p, c, level, items) =
        [at |-> "lock", todo |-> t.todo, errors |-> t.errors, conv |-> {c}, scan |-> t.scan,
         level |-> level, groups |-> G, nodes |-> <<>>, last |-> t.last]
  <2>1. G = Groups(InOrder(items))
    BY DEF o
  <2> DEFINE cc == {c}
            none == <<>>
  <2>2. Generation(p, c, level, items) =
          [t EXCEPT !.at = "lock", !.conv = cc, !.level = level, !.nodes = none, !.groups = G]
    BY <2>1 DEF Generation
  <2> HIDE DEF G, cc, none
  <2>3. Generation(p, c, level, items) =
          [at |-> "lock", todo |-> t.todo, errors |-> t.errors, conv |-> cc, scan |-> t.scan,
           level |-> level, groups |-> G, nodes |-> none, last |-> t.last]
    BY <2>2 DEF TaskType
  <2> QED BY <2>3 DEF cc, none
<1> HIDE DEF G
<1>6. {c} \in SUBSET Convs /\ <<>> \in Seq(Nat)
  OBVIOUS
<1>7. Generation(p, c, level, items) \in TaskType
  BY <1>3, <1>5, <1>6 DEF TaskType, Places
<1> QED BY <1>1, <1>3, <1>4, <1>5, <1>7

(* What becomes of a generation when its first group has the summary k:    *)
(* the next group, the composition of the partial summaries, or the end.   *)
NextGroup(p, k, r) ==
    /\ r.conv = task[p].conv /\ r.level = task[p].level
    /\ r.groups = Tail(task[p].groups) /\ r.nodes = Append(task[p].nodes, k)

Reduction(p, k, r) ==
    /\ r.conv = task[p].conv /\ r.level = task[p].level + 1
    /\ r.nodes = <<>>
    /\ \A g \in DOMAIN r.groups :
          r.groups[g] # <<>> /\ Range(r.groups[g]) \subseteq Range(task[p].nodes) \cup {k}
    /\ LET nodes == Append(task[p].nodes, k)
       IN  (\A i, j \in DOMAIN nodes : nodes[i] = nodes[j] => i = j) =>
              \A g, h \in DOMAIN r.groups : g # h => Range(r.groups[g]) \cap Range(r.groups[h]) = {}

(* These are the three ways to go on.                                      *)
LEMMA GroupDoneForm ==
    ASSUME NEW p \in Procs, task[p] \in TaskType, task[p].groups # <<>>, NEW k \in Nat
    PROVE  LET r == GroupDone(p, k)
           IN  /\ r \in TaskType
               /\ \/ r.at = "idle"
                  \/ r.at = "parents" /\ r.scan > 0
                  \/ r.at = "lock" /\ r.groups # <<>> /\ (NextGroup(p, k, r) \/ Reduction(p, k, r))
<1> DEFINE t == task[p]
          rest == Tail(t.groups)
          nodes == Append(t.nodes, k)
          r == GroupDone(p, k)
<1>1. rest \in Seq(Seq(Nat)) /\ nodes \in Seq(Nat) /\ Range(nodes) = Range(t.nodes) \cup {k}
      /\ <<>> \in Seq(Nat) /\ <<>> \in Seq(Seq(Nat)) /\ 0 \in Nat
  <2>1. t.groups \in Seq(Seq(Nat)) /\ t.nodes \in Seq(Nat) /\ t.groups # <<>>
    BY DEF TaskType
  <2>2. rest \in Seq(Seq(Nat))
    BY <2>1, TailLaw
  <2>3. nodes \in Seq(Nat) /\ Range(nodes) = Range(t.nodes) \cup {k}
    <3> DEFINE old == t.nodes
    <3>1. old \in Seq(Nat) /\ nodes = Append(old, k)
      BY <2>1
    <3> HIDE DEF old, nodes
    <3>2. Append(old, k) \in Seq(Nat) /\ Range(Append(old, k)) = Range(old) \cup {k}
      BY <3>1, AppendLaw
    <3> QED BY <3>1, <3>2 DEF old
  <2> QED BY <2>2, <2>3
<1>2. t.level + 1 \in Nat /\ t.level \in Nat /\ t.scan \in Nat
  BY DEF TaskType
<1>3. CASE rest # <<>>
  <2>1. r = [at |-> "lock", todo |-> t.todo, errors |-> t.errors, conv |-> t.conv, scan |-> t.scan,
             level |-> t.level, groups |-> rest, nodes |-> nodes, last |-> 0]
    BY <1>3 DEF GroupDone, TaskType
  <2> HIDE DEF rest, nodes, r
  <2>2. r \in TaskType
    BY <1>1, <2>1 DEF TaskType, Places
  <2>3. NextGroup(p, k, r) /\ r.at = "lock" /\ r.groups # <<>>
    BY <1>3, <2>1 DEF NextGroup, rest, nodes
  <2> QED BY <2>2, <2>3 DEF r
<1>4. CASE rest = <<>> /\ Len(nodes) > 1
  <2> DEFINE G == Groups(nodes)
  <2>1. r = [at |-> "lock", todo |-> t.todo, errors |-> t.errors, conv |-> t.conv, scan |-> t.scan,
             level |-> t.level + 1, groups |-> G, nodes |-> <<>>, last |-> 0]
    BY <1>4 DEF GroupDone, TaskType
  <2>2. Len(nodes) > 0
    BY <1>1, <1>4
  <2>3. /\ G \in Seq(Seq(Nat)) /\ Len(G) > 0
        /\ \A g \in DOMAIN G : G[g] # <<>> /\ Range(G[g]) \subseteq Range(nodes)
        /\ (\A i, j \in DOMAIN nodes : nodes[i] = nodes[j] => i = j) =>
              \A g, h \in DOMAIN G : g # h => Range(G[g]) \cap Range(G[h]) = {}
    BY <1>1, <2>2, GroupsLaw
  <2>4. G # <<>>
    BY <2>3
  <2> HIDE DEF rest, G, r
  <2>5. r \in TaskType
    BY <1>1, <1>2, <2>1, <2>3 DEF TaskType, Places
  <2>6. Reduction(p, k, r) /\ r.at = "lock" /\ r.groups # <<>>
    BY <1>1, <2>1, <2>3, <2>4 DEF Reduction
  <2> QED BY <2>5, <2>6 DEF r
<1>5. CASE rest = <<>> /\ ~(Len(nodes) > 1) /\ p = "user"
  <2>1. r = Idle
    BY <1>5 DEF GroupDone
  <2> QED BY <2>1, IdleType
<1>6. CASE rest = <<>> /\ ~(Len(nodes) > 1) /\ p # "user"
  <2>1. r = [at |-> "parents", todo |-> t.todo, errors |-> t.errors, conv |-> t.conv,
             scan |-> Max({t.scan, 1}), level |-> 0, groups |-> <<>>, nodes |-> <<>>, last |-> 0]
    BY <1>6 DEF GroupDone, TaskType
  <2>2. Max({t.scan, 1}) = IF t.scan >= 1 THEN t.scan ELSE 1
    BY <1>2 DEF Max
  <2>3. Max({t.scan, 1}) \in Nat /\ Max({t.scan, 1}) > 0
    BY <1>2, <2>2
  <2> HIDE DEF rest, nodes, r
  <2>4. r \in TaskType
    BY <1>1, <2>1, <2>3 DEF TaskType, Places
  <2> QED BY <2>1, <2>3, <2>4 DEF r
<1> QED BY <1>3, <1>4, <1>5, <1>6

(* The steps again, by what they do to the fields of the process.          *)
SameGroups(p) ==
    /\ task'[p].conv = task[p].conv /\ task'[p].level = task[p].level
    /\ task'[p].groups = task[p].groups /\ task'[p].nodes = task[p].nodes

Entering(p) ==
    /\ files' = files /\ SameGroups(p)
    /\ task[p].at = "lock" /\ task'[p].at = "call"
    /\ ~SourceLocked(p) /\ \A k \in indexed : ~Same(p, k)

Committing(p, s) ==
    /\ files' = Append(files, s) /\ SameGroups(p)
    /\ task[p].at = "call" /\ task'[p].at = "index" /\ task'[p].last = Len(files) + 1
    /\ s \in FileType /\ task[p].conv = {s.conv} /\ s.level = task[p].level
    /\ s.inputs = Source(p).inputs /\ s.refs \subseteq s.inputs
    /\ s.raw = Raw(Source(p), s.refs) /\ s.by = p

Finishing(p, k) ==
    /\ files' = files /\ Same(p, k) /\ k \in indexed'
    /\ \/ task[p].at = "lock" /\ k \in indexed
       \/ task[p].at = "index" /\ k = task[p].last
    /\ \/ task'[p].at = "idle"
       \/ task'[p].at = "parents" /\ task'[p].scan > 0
       \/ /\ task'[p].at = "lock" /\ task'[p].groups # <<>>
          /\ NextGroup(p, k, task'[p]) \/ Reduction(p, k, task'[p])

Starting(p, c, level, items) ==
    /\ files' = files /\ ~Generating(p)
    /\ \A i \in items : Taken(c, level, i)
    /\ p = "tick" => /\ indexed' = indexed /\ task[p].at # "idle"
                     /\ IF level = 1 THEN items = Selected(c) ELSE items \subseteq Ready(c, level - 1)
    /\ task'[p].at = "lock" /\ task'[p].conv = {c} /\ task'[p].level = level
    /\ task'[p].nodes = <<>> /\ task'[p].groups # <<>>
    /\ LET groups == task'[p].groups
       IN  /\ \A g \in DOMAIN groups : groups[g] # <<>> /\ Range(groups[g]) \subseteq items
           /\ \A g, h \in DOMAIN groups : g # h => Range(groups[g]) \cap Range(groups[h]) = {}

Effect(p) ==
    /\ \A q \in Procs : q # p => task'[q] = task[q]
    /\ \/ Rests(p) \/ Entering(p)
       \/ \E s \in FileType : Committing(p, s)
       \/ \E k \in DOMAIN files : Finishing(p, k)
       \/ \E c \in Convs, level \in Nat \ {0}, items \in SUBSET Nat : Starting(p, c, level, items)

(* commit() in this form.                                                  *)
LEMMA CommitForm ==
    ASSUME LiveIInv, NEW p \in Procs, CommitFile(p)
    PROVE  task'[p] \in TaskType /\ \E s \in FileType : Committing(p, s)
<1> DEFINE t == task[p]
          source == Source(p)
          n == Len(files) + 1
<1>1. t \in TaskType /\ DOMAIN task = Procs /\ files \in Seq(FileType)
  BY DEF LiveIInv, LiveType
<1>2. t.at = "call" /\ Generating(p)
  BY DEF CommitFile, Generating
<1>3. PICK c \in Convs : t.conv = {c} /\ t.level > 0
  BY <1>2 DEF LiveIInv, GenerationsGood, GenerationGood
<1>4. /\ source.level = t.level /\ source.inputs \in SUBSET Nat /\ source.inputs # {}
      /\ IsFiniteSet(source.inputs)
  BY <1>2, FirstGroup
<1> DEFINE refs == {Min(source.inputs)}
          s == [conv |-> c, level |-> source.level, inputs |-> source.inputs, refs |-> refs,
                raw |-> Raw(source, refs), by |-> p]
<1>5. files' = Append(files, s) /\ task' = [task EXCEPT ![p].at = "index", ![p].last = n]
  BY <1>3 DEF CommitFile, Citations
<1>6. refs \subseteq source.inputs
  BY <1>4, MinLaw
<1>7. Raw(source, refs) \in SUBSET Nat
  <2>1. \A k \in DOMAIN files : files[k].raw \in SUBSET Nat
    <3>1. \A k \in DOMAIN files : files[k] \in FileType
      BY <1>1
    <3> QED BY <3>1 DEF FileType
  <2>2. CASE source.level = 1
    BY <1>4, <1>6, <2>2 DEF Raw
  <2>3. CASE source.level # 1
    <3>1. \A i \in source.inputs : i \in DOMAIN files
      <4>1. \A i \in source.inputs : Taken(c, t.level, i)
        <5>1. source.inputs \subseteq Items(p)
          BY <1>2, FirstGroup
        <5> QED BY <1>2, <1>3, <5>1 DEF LiveIInv, GenerationsGood, GenerationGood
      <4> QED BY <1>4, <2>3, <4>1 DEF Taken, LiveIInv, LiveType
    <3> QED BY <1>6, <2>1, <2>3, <3>1 DEF Raw
  <2> QED BY <2>2, <2>3
<1>8. n \in Nat
  BY <1>1
<1>9. /\ task'[p].at = "index" /\ task'[p].last = n /\ SameGroups(p)
      /\ task'[p].todo = t.todo /\ task'[p].errors = t.errors /\ task'[p].scan = t.scan
  BY <1>1, <1>5 DEF SameGroups, TaskType
<1>10. task'[p] \in TaskType
  <2> HIDE DEF n
  <2>1. task'[p] = [t EXCEPT !.at = "index", !.last = n]
    BY <1>1, <1>5
  <2> QED BY <1>1, <1>8, <2>1 DEF TaskType, Places
<1> HIDE DEF source
<1>11. s \in FileType
  <2>1. source.level \in Nat \ {0} /\ refs \in SUBSET Nat
    BY <1>1, <1>3, <1>4, <1>6 DEF TaskType
  <2> HIDE DEF refs
  <2> QED BY <1>4, <1>7, <2>1 DEF FileType
<1>12. Committing(p, s)
  <2> HIDE DEF refs
  <2>1. s.conv = c /\ s.level = source.level /\ s.inputs = source.inputs /\ s.refs = refs
        /\ s.raw = Raw(source, refs) /\ s.by = p
    OBVIOUS
  <2> HIDE DEF s
  <2> QED BY <1>2, <1>3, <1>4, <1>5, <1>6, <1>9, <1>11, <2>1 DEF Committing, source
<1> QED BY <1>10, <1>11, <1>12

(* Every step is one of these, and keeps the types.                        *)
LEMMA Effects ==
    ASSUME LiveIInv, [LiveNext]_liveVars
    PROVE  LiveType' /\ ((files' = files /\ task' = task) \/ \E p \in Procs : Effect(p))
<1>1. task \in [Procs -> TaskType] /\ files \in Seq(FileType) /\ indexed' \subseteq DOMAIN files'
      /\ DOMAIN files \subseteq Nat
  BY Grows DEF LiveIInv, LiveType
<1>2. CASE files' = files /\ task' = task
  BY <1>1, <1>2 DEF LiveIInv, LiveType
<1>3. ASSUME NEW p \in Procs, Others(p), Rests(p)
      PROVE  task'[p] \in TaskType /\ files' \in Seq(FileType) /\ Effect(p)
             /\ (p = "tick" /\ task'[p].at = "parents" => task'[p].scan > 0)
  BY <1>1, <1>3 DEF Others, Rests, Effect
<1>4. ASSUME NEW p \in Procs, Others(p), Enters(p)
      PROVE  task'[p] \in TaskType /\ files' \in Seq(FileType) /\ Effect(p) /\ task'[p].at # "parents"
  <2>1. task'[p] = [task[p] EXCEPT !.at = "call"] /\ files' = files
    BY <1>1, <1>4 DEF Enters, EnterSource
  <2>2. task'[p] \in TaskType /\ SameGroups(p) /\ task'[p].at = "call"
    BY <1>1, <2>1 DEF TaskType, Places, SameGroups
  <2>3. Entering(p)
    BY <1>4, <2>1, <2>2 DEF Enters, EnterSource, Entering
  <2> QED BY <1>1, <1>4, <2>1, <2>2, <2>3 DEF Effect, Others
<1>5. ASSUME NEW p \in Procs, Others(p), Commits(p)
      PROVE  task'[p] \in TaskType /\ files' \in Seq(FileType) /\ Effect(p) /\ task'[p].at # "parents"
  <2>1. task'[p] \in TaskType /\ \E s \in FileType : Committing(p, s)
    BY <1>5, CommitForm DEF Commits
  <2>2. PICK s \in FileType : Committing(p, s)
    BY <2>1
  <2>3. files' = Append(files, s) /\ task'[p].at = "index"
    BY <2>2 DEF Committing
  <2>4. files' \in Seq(FileType)
    BY <1>1, <2>3
  <2> QED BY <1>5, <2>1, <2>3, <2>4 DEF Effect, Others
<1>6. ASSUME NEW p \in Procs, Others(p), NEW k \in DOMAIN files, Finishes(p, k)
      PROVE  task'[p] \in TaskType /\ files' \in Seq(FileType) /\ Effect(p)
             /\ (task'[p].at = "parents" => task'[p].scan > 0)
  <2>1. Generating(p) /\ files' = files /\ task'[p] = GroupDone(p, k)
    BY <1>6 DEF Finishes, Generating
  <2>2. task[p].groups # <<>> /\ k \in Nat
    BY <1>1, <2>1, FirstGroup
  <2>3. /\ task'[p] \in TaskType
        /\ \/ task'[p].at = "idle"
           \/ task'[p].at = "parents" /\ task'[p].scan > 0
           \/ /\ task'[p].at = "lock" /\ task'[p].groups # <<>>
              /\ NextGroup(p, k, task'[p]) \/ Reduction(p, k, task'[p])
    BY <1>1, <2>1, <2>2, GroupDoneForm
  <2>4. Finishing(p, k)
    <3>1. /\ Same(p, k) /\ k \in indexed'
          /\ \/ task[p].at = "lock" /\ k \in indexed
             \/ task[p].at = "index" /\ k = task[p].last
      BY <1>6 DEF Finishes
    <3> QED BY <2>1, <2>3, <3>1 DEF Finishing
  <2> QED BY <1>1, <1>6, <2>1, <2>3, <2>4 DEF Effect, Others
<1>7. ASSUME NEW p \in Procs, Others(p), NEW c \in Convs, NEW level \in Nat \ {0},
             NEW items \in SUBSET Nat, IsFiniteSet(items), Starts(p, c, level, items)
      PROVE  task'[p] \in TaskType /\ files' \in Seq(FileType) /\ Effect(p) /\ task'[p].at # "parents"
  <2>1. task'[p] = Generation(p, c, level, items) /\ items # {} /\ files' = files
    BY <1>7 DEF Starts
  <2>2. LET r == task'[p]
        IN  /\ r \in TaskType /\ r.at = "lock" /\ r.conv = {c} /\ r.level = level
            /\ r.nodes = <<>> /\ r.groups # <<>>
            /\ \A g \in DOMAIN r.groups : r.groups[g] # <<>> /\ Range(r.groups[g]) \subseteq items
            /\ \A g, h \in DOMAIN r.groups : g # h => Range(r.groups[g]) \cap Range(r.groups[h]) = {}
    <3> DEFINE g == Generation(p, c, level, items)
    <3>1. LET r == g
          IN  /\ r \in TaskType /\ r.at = "lock" /\ r.conv = {c} /\ r.level = level
              /\ r.nodes = <<>> /\ r.groups # <<>>
              /\ \A x \in DOMAIN r.groups : r.groups[x] # <<>> /\ Range(r.groups[x]) \subseteq items
              /\ \A x, h \in DOMAIN r.groups : x # h => Range(r.groups[x]) \cap Range(r.groups[h]) = {}
      BY <1>1, <1>7, <2>1, GenerationForm
    <3> HIDE DEF g
    <3> QED BY <2>1, <3>1 DEF g
  <2>3. Starting(p, c, level, items)
    BY <1>7, <2>1, <2>2 DEF Starts, Starting
  <2> QED BY <1>1, <1>7, <2>1, <2>2, <2>3 DEF Effect, Others
<1>8. ASSUME NEW p \in Procs, Others(p), task'[p] \in TaskType, files' \in Seq(FileType),
             p = "tick" /\ task'[p].at = "parents" => task'[p].scan > 0
      PROVE  LiveType'
  <2>1. task' \in [Procs -> TaskType]
    BY <1>1, <1>8 DEF Others
  <2>2. task'["tick"].at = "parents" => task'["tick"].scan > 0
    <3>1. p # "tick" => task'["tick"] = task["tick"]
      <4>1. "tick" \in Procs
        BY DEF Procs
      <4> QED BY <1>8, <4>1 DEF Others
    <3> QED BY <1>8, <3>1 DEF LiveIInv, LiveType
  <2> QED BY <1>1, <1>8, <2>1, <2>2 DEF LiveType
<1> QED BY <1>2, <1>3, <1>4, <1>5, <1>6, <1>7, <1>8, StepForms

-----------------------------------------------------------------------------
(* What holds of all processes.                                            *)

(* Items and source of a process that keeps its groups.                    *)
LEMMA Keeps ==
    ASSUME NEW p, task'[p].conv = task[p].conv, task'[p].level = task[p].level,
           task'[p].groups = task[p].groups
    PROVE  Items(p)' = Items(p) /\ Source(p)' = Source(p)
BY DEF Items, Source

(* For such a process the same summaries are of its source.                *)
LEMMA KeepsSame ==
    ASSUME LiveIInv, [LiveNext]_liveVars, NEW p, NEW k \in DOMAIN files,
           task'[p].conv = task[p].conv, task'[p].level = task[p].level,
           task'[p].groups = task[p].groups
    PROVE  Same(p, k)' <=> Same(p, k)
<1>1. files'[k] = files[k]
  BY Grows
<1>2. Source(p)' = Source(p)
  BY Keeps
<1> QED BY <1>1, <1>2 DEF Same

(* GenerationGood after a step, from the fields after the step.            *)
LEMMA GenerationGoodNext ==
    ASSUME NEW p \in Procs, NEW c \in Convs, NEW level, NEW above,
           /\ task'[p].conv = {c} /\ task'[p].level > 0 /\ task'[p].groups # <<>>
           /\ \A g \in DOMAIN task'[p].groups : task'[p].groups[g] # <<>>
           /\ task'[p].level = level /\ task'[p].level + 1 = above,
           \A i \in Items(p)' : Taken(c, level, i)',
           \A n \in Range(task'[p].nodes) : Taken(c, above, n)',
           \A k : task'[p].at = "index" /\ task'[p].last = k => k \in DOMAIN files' /\ Same(p, k)'
    PROVE  GenerationGood(p)'
<1>1. (\A i \in Items(p) : Taken(c, task[p].level, i))'
  BY DEF Taken
<1>2. (\A n \in Range(task[p].nodes) : Taken(c, task[p].level + 1, n))'
  BY DEF Taken
<1>3. (task[p].at = "index" => task[p].last \in DOMAIN files /\ Same(p, task[p].last))'
  BY DEF Same
<1> QED BY <1>1, <1>2, <1>3 DEF GenerationGood

(* A process that keeps its groups still generates from good inputs.       *)
LEMMA KeepsGeneration ==
    ASSUME LiveIInv, [LiveNext]_liveVars, NEW p \in Procs, SameGroups(p), GenerationGood(p),
           \A k : task'[p].at = "index" /\ task'[p].last = k => k \in DOMAIN files' /\ Same(p, k)'
    PROVE  GenerationGood(p)'
<1>1. PICK c \in Convs :
        /\ task[p].conv = {c} /\ task[p].level > 0
        /\ task[p].groups # <<>>
        /\ \A g \in DOMAIN task[p].groups : task[p].groups[g] # <<>>
        /\ \A i \in Items(p) : Taken(c, task[p].level, i)
        /\ \A n \in Range(task[p].nodes) : Taken(c, task[p].level + 1, n)
  BY DEF GenerationGood
<1>2. PICK level, above : level = task[p].level /\ above = task[p].level + 1
  OBVIOUS
<1>3. Items(p)' = Items(p)
  BY Keeps DEF SameGroups
<1>4. /\ task'[p].conv = {c} /\ task'[p].level > 0
      /\ task'[p].groups # <<>>
      /\ \A g \in DOMAIN task'[p].groups : task'[p].groups[g] # <<>>
      /\ task'[p].level = level /\ task'[p].level + 1 = above
  BY <1>1, <1>2 DEF SameGroups
<1>5. /\ \A i \in Items(p)' : Taken(c, level, i)'
      /\ \A n \in Range(task'[p].nodes) : Taken(c, above, n)'
  BY <1>1, <1>2, <1>3, Grows DEF SameGroups
<1> QED BY <1>4, <1>5, GenerationGoodNext

(* A summary that stands for the source of a process is one level up.      *)
LEMMA SameTaken ==
    ASSUME LiveIInv, NEW p \in Procs, Generating(p), NEW k \in indexed, Same(p, k), NEW c,
           task[p].conv = {c}
    PROVE  Taken(c, task[p].level + 1, k)
<1>1. files[k].conv = c /\ Source(p).level = files[k].level /\ task[p].level \in Nat /\ task[p].level > 0
  <2>1. files[k].conv = c /\ Source(p).level = files[k].level
    BY DEF Same
  <2>2. task[p] \in TaskType /\ GenerationGood(p)
    BY DEF LiveIInv, LiveType, GenerationsGood
  <2> QED BY <2>1, <2>2 DEF TaskType, GenerationGood
<1>2. Source(p).level = task[p].level
  BY FirstGroup
<1>3. task[p].level + 1 # 1 /\ (task[p].level + 1) - 1 = task[p].level
  BY <1>1
<1> QED BY <1>1, <1>2, <1>3 DEF Taken

(* Every step keeps GenerationsGood.                                       *)
LEMMA GenerationsGoodKept ==
    ASSUME LiveIInv, [LiveNext]_liveVars
    PROVE  GenerationsGood'
<1> SUFFICES ASSUME NEW q \in Procs, Generating(q)' PROVE GenerationGood(q)'
  BY DEF GenerationsGood
<1>1. /\ task[q] \in TaskType /\ files \in Seq(FileType) /\ (Generating(q) => GenerationGood(q))
      /\ DOMAIN files \subseteq DOMAIN files'
  BY Grows DEF LiveIInv, LiveType, GenerationsGood
<1>2. CASE task'[q] = task[q]
  <2>1. Generating(q) /\ SameGroups(q)
    BY <1>2 DEF Generating, SameGroups
  <2>2. GenerationGood(q)
    BY <1>1, <2>1
  <2>3. ASSUME NEW k, task'[q].at = "index", task'[q].last = k PROVE k \in DOMAIN files' /\ Same(q, k)'
    <3>1. k \in DOMAIN files /\ Same(q, k)
      BY <1>2, <2>2, <2>3 DEF GenerationGood
    <3> QED BY <1>1, <1>2, <3>1, KeepsSame
  <2> QED BY <2>1, <2>2, <2>3, KeepsGeneration
<1>3. CASE Rests(q)
  BY <1>3 DEF Rests, Generating
<1>4. CASE Entering(q)
  BY <1>1, <1>4, KeepsGeneration DEF Entering, Generating
<1>5. ASSUME NEW s \in FileType, Committing(q, s) PROVE GenerationGood(q)'
  <2> DEFINE n == Len(files) + 1
  <2>1. /\ GenerationGood(q) /\ SameGroups(q) /\ task'[q].last = n /\ task[q].conv = {s.conv}
        /\ Generating(q) /\ s.level = task[q].level /\ s.inputs = Source(q).inputs
    BY <1>1, <1>5 DEF Committing, Generating
  <2>2. n \in DOMAIN files' /\ files'[n] = s
    BY <1>1, <1>5, AppendLaw DEF Committing
  <2>3. Source(q)' = Source(q) /\ Source(q) = [level |-> task[q].level, inputs |-> Source(q).inputs]
    BY <2>1, Keeps DEF SameGroups, Source
  <2>4. ASSUME NEW k, k = n PROVE Same(q, k)'
    BY <2>1, <2>2, <2>3, <2>4 DEF Same, SameGroups
  <2> QED BY <2>1, <2>2, <2>4, KeepsGeneration
<1>6. ASSUME NEW k \in DOMAIN files, Finishing(q, k) PROVE GenerationGood(q)'
  <2> DEFINE t == task[q]
             r == task'[q]
  <2>1. /\ Generating(q) /\ r.at = "lock" /\ r.groups # <<>> /\ Same(q, k) /\ k \in indexed'
        /\ NextGroup(q, k, r) \/ Reduction(q, k, r)
    BY <1>6 DEF Finishing, Generating
  <2>2. PICK c \in Convs :
          /\ t.conv = {c} /\ t.level > 0
          /\ t.groups # <<>>
          /\ \A g \in DOMAIN t.groups : t.groups[g] # <<>>
          /\ \A i \in Items(q) : Taken(c, t.level, i)
          /\ \A n \in Range(t.nodes) : Taken(c, t.level + 1, n)
    BY <1>1, <2>1 DEF GenerationGood
  <2>3. t.level \in Nat /\ t.nodes \in Seq(Nat) /\ t.groups \in Seq(Seq(Nat)) /\ k \in Nat
    BY <1>1 DEF TaskType
  <2>4. PICK level \in Nat, above \in Nat, top \in Nat :
          level = t.level /\ above = level + 1 /\ top = above + 1
    <3>1. t.level + 1 \in Nat /\ (t.level + 1) + 1 \in Nat
      BY <2>3
    <3> QED BY <2>3, <3>1
  <2>5. Taken(c, above, k)'
    <3>1. files[k].conv = c /\ files'[k] = files[k] /\ Source(q).level = files[k].level
      BY <2>1, <2>2, Grows DEF Same
    <3>2. Source(q).level = level
      BY <2>1, <2>4, FirstGroup
    <3>3. above # 1 /\ above - 1 = level
      BY <2>2, <2>4
    <3> QED BY <2>1, <3>1, <3>2, <3>3 DEF Taken
  <2>6. \A n \in Range(t.nodes) \cup {k} : Taken(c, above, n)'
    BY <2>2, <2>4, <2>5, Grows
  <2>7. \A i \in Items(q) : Taken(c, level, i)'
    BY <2>2, <2>4, Grows
  <2>8. CASE NextGroup(q, k, r)
    <3>1. r.conv = {c} /\ r.level = level /\ r.groups = Tail(t.groups) /\ Range(r.nodes) = Range(t.nodes) \cup {k}
      <4> DEFINE old == t.nodes
      <4>1. old \in Seq(Nat) /\ r.nodes = Append(old, k)
        BY <2>3, <2>8 DEF NextGroup
      <4> HIDE DEF old
      <4>2. k \in Nat
        BY <2>3
      <4>3. Range(Append(old, k)) = Range(old) \cup {k}
        BY <4>1, <4>2, AppendLaw
      <4> QED BY <2>2, <2>4, <2>8, <4>1, <4>3 DEF NextGroup, old
    <3>2. \A g \in DOMAIN r.groups : g + 1 \in DOMAIN t.groups /\ r.groups[g] = t.groups[g + 1]
      BY <2>2, <2>3, <3>1, TailLaw
    <3>3. Items(q)' \subseteq Items(q) /\ \A g \in DOMAIN r.groups : r.groups[g] # <<>>
      BY <2>2, <3>2 DEF Items
    <3>4. /\ \A i \in Items(q)' : Taken(c, level, i)'
          /\ \A n \in Range(r.nodes) : Taken(c, above, n)'
      BY <2>6, <2>7, <3>1, <3>3
    <3>5. r.level > 0 /\ r.level + 1 = above
      BY <2>2, <2>4, <3>1
    <3> QED BY <2>1, <3>1, <3>3, <3>4, <3>5, GenerationGoodNext
  <2>9. CASE Reduction(q, k, r)
    <3>1. r.conv = {c} /\ r.level = above /\ Range(r.nodes) = {}
      BY <2>2, <2>4, <2>9 DEF Reduction, Range
    <3>2. Items(q)' \subseteq Range(t.nodes) \cup {k} /\ \A g \in DOMAIN r.groups : r.groups[g] # <<>>
      BY <2>9 DEF Reduction, Items
    <3>3. /\ \A i \in Items(q)' : Taken(c, above, i)'
          /\ \A n \in Range(r.nodes) : Taken(c, top, n)'
      BY <2>6, <3>1, <3>2
    <3>4. r.level > 0 /\ r.level + 1 = top
      BY <2>2, <2>4, <3>1
    <3> QED BY <2>1, <3>1, <3>2, <3>3, <3>4, GenerationGoodNext
  <2> QED BY <2>1, <2>8, <2>9
<1>7. ASSUME NEW c \in Convs, NEW level \in Nat \ {0}, NEW items \in SUBSET Nat,
             Starting(q, c, level, items)
      PROVE  GenerationGood(q)'
  <2> DEFINE r == task'[q]
  <2>1. /\ r.at = "lock" /\ r.conv = {c} /\ r.level = level /\ r.nodes = <<>> /\ r.groups # <<>>
        /\ \A g \in DOMAIN r.groups : r.groups[g] # <<>> /\ Range(r.groups[g]) \subseteq items
        /\ \A i \in items : Taken(c, level, i)
    BY <1>7 DEF Starting
  <2>2. Items(q)' \subseteq items
    BY <2>1 DEF Items
  <2>3. \A i \in Items(q)' : Taken(c, level, i)'
    BY <2>1, <2>2, Grows
  <2>4. Range(r.nodes) = {} /\ r.level > 0
    BY <2>1 DEF Range
  <2>5. PICK above : above = r.level + 1
    OBVIOUS
  <2> QED BY <2>1, <2>3, <2>4, <2>5, GenerationGoodNext
<1> QED BY <1>2, <1>3, <1>4, <1>5, <1>6, <1>7, Effects DEF Effect

(* Every step keeps FilesGood.                                             *)
LEMMA FilesGoodKept ==
    ASSUME LiveIInv, [LiveNext]_liveVars
    PROVE  FilesGood'
<1>1. files \in Seq(FileType) /\ FilesGood /\ DOMAIN files \subseteq Nat
  BY DEF LiveIInv, LiveType
<1>2. ASSUME NEW k \in DOMAIN files, NEW s, s = files[k]
      PROVE  FileGood(k, s)' /\ files'[k] = s
  <2>1. files'[k] = s /\ s.level \in Nat \ {0} /\ s.inputs \in SUBSET Nat
    <3>1. s \in FileType
      BY <1>1, <1>2
    <3> QED BY <1>2, <3>1, Grows DEF FileType
  <2>2. FileGood(k, s)
    BY <1>1, <1>2 DEF FilesGood
  <2>3. \A i \in s.inputs : Taken(s.conv, s.level, i)'
    BY <2>2, Grows DEF FileGood
  <2>4. s.level # 1 => UNION {files[j].raw : j \in s.refs} = UNION {files'[j].raw : j \in s.refs}
    <3> SUFFICES ASSUME s.level # 1, NEW j \in s.refs PROVE files'[j] = files[j]
      OBVIOUS
    <3>1. /\ j \in 1..(k - 1)
          /\ k \in 1..Len(files) /\ Len(files) \in Nat /\ DOMAIN files = 1..Len(files)
      BY <1>1, <2>1, <2>2 DEF FileGood
    <3>2. j \in DOMAIN files
      BY <3>1
    <3> QED BY <3>2, Grows
  <2> QED BY <2>1, <2>2, <2>3, <2>4 DEF FileGood
<1>3. CASE files' = files
  <2>1. SUFFICES ASSUME NEW k \in DOMAIN files, NEW s, s = files[k] PROVE FileGood(k, s)'
    BY <1>3 DEF FilesGood, FileGood, Taken
  <2> QED BY <1>2, <2>1
<1>4. ASSUME NEW p \in Procs, NEW s \in FileType, Committing(p, s) PROVE FilesGood'
  <2> PICK n : n = Len(files) + 1
    OBVIOUS
  <2>1. /\ files' = Append(files, s) /\ Generating(p) /\ task[p].conv = {s.conv}
        /\ s.level = task[p].level /\ s.inputs = Source(p).inputs /\ s.refs \subseteq s.inputs
        /\ s.raw = Raw(Source(p), s.refs)
    BY <1>4 DEF Committing, Generating
  <2>2. DOMAIN files' = DOMAIN files \cup {n} /\ files'[n] = s /\ n \in Nat /\ DOMAIN files = 1..(n - 1)
    <3>1. /\ DOMAIN files = 1..Len(files) /\ DOMAIN files' = 1..(Len(files) + 1) /\ Len(files) \in Nat
          /\ files'[n] = s
      BY <1>1, <2>1, AppendLaw
    <3> QED BY <3>1
  <2>4. /\ s.inputs # {} /\ s.inputs \subseteq Items(p) /\ Source(p).level = s.level
        /\ s.level \in Nat \ {0}
    BY <2>1, FirstGroup DEF FileType
  <2>5. \A i \in s.inputs : Taken(s.conv, s.level, i)
    <3>1. GenerationGood(p)
      BY <2>1 DEF LiveIInv, GenerationsGood
    <3> QED BY <2>1, <2>4, <3>1 DEF GenerationGood
  <2>6. \A i \in s.inputs : Taken(s.conv, s.level, i)'
    BY <2>5, Grows
  <2>7. s.level # 1 => \A i \in s.inputs : i \in DOMAIN files
    BY <2>5 DEF Taken, LiveIInv, LiveType
  <2>8. s.raw = IF s.level = 1 THEN s.refs ELSE UNION {files'[j].raw : j \in s.refs}
    <3>1. CASE s.level = 1
      BY <2>1, <2>4, <3>1 DEF Raw
    <3>2. CASE s.level # 1
      <4>1. s.raw = UNION {files[j].raw : j \in s.refs}
        BY <2>1, <2>4, <3>2 DEF Raw
      <4>2. \A j \in s.refs : files'[j] = files[j]
        BY <2>1, <2>7, <3>2, Grows
      <4> QED BY <3>2, <4>1, <4>2
    <3> QED BY <3>1, <3>2
  <2>9. \A i \in s.inputs : s.level > 1 => i \in 1..(n - 1)
    BY <2>2, <2>4, <2>7
  <2>10. FileGood(n, s)'
    BY <2>1, <2>4, <2>6, <2>8, <2>9 DEF FileGood
  <2>11. \A k \in DOMAIN files' : k \in DOMAIN files \/ k = n
    BY <2>2
  <2>12. SUFFICES ASSUME NEW k \in DOMAIN files', NEW r, r = files'[k] PROVE FileGood(k, r)'
    BY DEF FilesGood, FileGood, Taken
  <2>13. CASE k = n
    BY <2>2, <2>10, <2>12, <2>13
  <2>14. CASE k \in DOMAIN files
    <3>1. PICK s0 : s0 = files[k]
      OBVIOUS
    <3>2. FileGood(k, s0)' /\ files'[k] = s0
      BY <1>2, <2>14, <3>1
    <3> QED BY <2>12, <3>2
  <2> QED BY <2>11, <2>13, <2>14
<1>5. ASSUME NEW p \in Procs, Effect(p) PROVE FilesGood'
  BY <1>3, <1>4, <1>5 DEF Effect, Rests, Entering, Finishing, Starting
<1> QED BY <1>3, <1>5, Effects

(* The lock of the source, and what it is good for.                        *)
LEMMA SourceOnceKept ==
    ASSUME LiveIInv, [LiveNext]_liveVars
    PROVE  SourcesLocked' /\ CallIsFirst' /\ RowsFollow' /\ SourceOnce'
<1>1. /\ SourcesLocked /\ CallIsFirst /\ RowsFollow /\ SourceOnce
      /\ files \in Seq(FileType) /\ indexed \subseteq DOMAIN files
  BY DEF LiveIInv, LiveType
<1>2. /\ indexed \subseteq indexed' /\ orphans \subseteq orphans'
      /\ DOMAIN files \subseteq DOMAIN files' /\ \A k \in DOMAIN files : files'[k] = files[k]
  BY Grows
<1>3. \A q : task'[q] = task[q] => Source(q)' = Source(q)
  BY Keeps
<1>4. \A q : SameGroups(q) => Source(q)' = Source(q)
  BY Keeps DEF SameGroups
<1>5. \A q, k : k \in DOMAIN files /\ (task'[q] = task[q] \/ SameGroups(q)) => (Same(q, k)' <=> Same(q, k))
  BY KeepsSame DEF SameGroups
<1>6. CASE files' = files /\ task' = task
  <2>1. \A q : Source(q)' = Source(q) /\ task'[q] = task[q]
    BY <1>3, <1>6
  <2>2. SourcesLocked'
    BY <1>1, <2>1 DEF SourcesLocked, InModel
  <2>3. CallIsFirst'
    BY <1>1, <1>2, <1>5, <1>6, <2>1 DEF CallIsFirst
  <2>4. RowsFollow' /\ SourceOnce'
    BY <1>1, <1>2, <1>6 DEF RowsFollow, SourceOnce
  <2> QED BY <2>2, <2>3, <2>4
<1>7. ASSUME NEW p \in Procs, Effect(p), files' = files, task'[p].at # "call", task'[p].at # "index",
             task[p].at = "index" => task[p].last \in orphans' \cup indexed'
      PROVE  SourcesLocked' /\ CallIsFirst' /\ RowsFollow' /\ SourceOnce'
  <2>1. \A q \in Procs : q # p => Source(q)' = Source(q) /\ task'[q] = task[q]
    BY <1>3, <1>7 DEF Effect
  <2>2. SourcesLocked'
    BY <1>1, <1>7, <2>1 DEF SourcesLocked, InModel
  <2>3. CallIsFirst'
    BY <1>1, <1>2, <1>5, <1>7, <2>1 DEF CallIsFirst
  <2>4. RowsFollow'
    BY <1>1, <1>2, <1>7, <2>1 DEF RowsFollow
  <2>5. SourceOnce'
    BY <1>1, <1>2, <1>7 DEF SourceOnce
  <2> QED BY <2>2, <2>3, <2>4, <2>5
<1>8. ASSUME NEW p \in Procs, Effect(p), Entering(p)
      PROVE  SourcesLocked' /\ CallIsFirst' /\ RowsFollow' /\ SourceOnce'
  <2>1. \A q \in Procs : Source(q)' = Source(q) /\ task'[q].conv = task[q].conv
                         /\ (q # p => task'[q] = task[q])
    BY <1>3, <1>4, <1>8 DEF Effect, Entering, SameGroups
  <2>2. \A q \in Procs \ {p} : InModel(q) /\ task[q].conv = task[p].conv => Source(q) # Source(p)
    BY <1>8 DEF Entering, SourceLocked
  <2>3. SourcesLocked'
    BY <1>1, <2>1, <2>2 DEF SourcesLocked, InModel
  <2>4. ASSUME NEW k \in DOMAIN files, Same(p, k) PROVE k \in orphans
    <3>1. k \notin indexed
      BY <1>8, <2>4 DEF Entering
    <3>2. ASSUME NEW q \in Procs, task[q].at = "index", task[q].last = k PROVE FALSE
      <4>1. Same(q, k)
        BY <3>2 DEF LiveIInv, GenerationsGood, GenerationGood, Generating
      <4>2. task[q].conv = task[p].conv /\ Source(q) = Source(p)
        BY <2>4, <4>1 DEF Same
      <4>3. q # p /\ InModel(q)
        BY <1>8, <3>2 DEF Entering, InModel
      <4> QED BY <2>2, <4>2, <4>3
    <3> QED BY <1>1, <3>1, <3>2 DEF RowsFollow
  <2>5. CallIsFirst'
    <3> SUFFICES ASSUME NEW q \in Procs, task'[q].at = "call", NEW k \in DOMAIN files, Same(q, k)'
                 PROVE  k \in orphans'
      BY <1>8 DEF CallIsFirst, Entering
    <3>1. CASE q = p
      BY <1>2, <1>5, <1>8, <2>4, <3>1 DEF Entering
    <3>2. CASE q # p
      BY <1>1, <1>2, <1>5, <2>1, <3>2 DEF CallIsFirst
    <3> QED BY <3>1, <3>2
  <2>6. RowsFollow'
    BY <1>1, <1>2, <1>8, <2>1 DEF RowsFollow, Entering
  <2>7. SourceOnce'
    BY <1>1, <1>2, <1>8 DEF SourceOnce, Entering
  <2> QED BY <2>3, <2>5, <2>6, <2>7
<1>9. ASSUME NEW p \in Procs, Effect(p), NEW s \in FileType, Committing(p, s)
      PROVE  SourcesLocked' /\ CallIsFirst' /\ RowsFollow' /\ SourceOnce'
  <2> PICK n : n = Len(files) + 1
    OBVIOUS
  <2>1. \A q \in Procs : Source(q)' = Source(q) /\ task'[q].conv = task[q].conv
                         /\ (q # p => task'[q] = task[q])
    BY <1>3, <1>4, <1>9 DEF Effect, Committing, SameGroups
  <2>2. DOMAIN files' = DOMAIN files \cup {n} /\ files'[n] = s /\ n \notin DOMAIN files
    <3>1. /\ DOMAIN files = 1..Len(files) /\ DOMAIN files' = 1..(Len(files) + 1) /\ Len(files) \in Nat
          /\ files'[Len(files) + 1] = s
      BY <1>1, <1>9, AppendLaw DEF Committing
    <3> QED BY <3>1
  <2>3. task[p].conv = {s.conv} /\ Source(p) = [level |-> s.level, inputs |-> s.inputs]
    BY <1>9 DEF Committing, Source
  <2>4. task[p].at = "call" /\ task'[p].at = "index" /\ task'[p].last = n
    BY <1>9 DEF Committing
  <2>5. SourcesLocked'
    BY <1>1, <2>1, <2>4 DEF SourcesLocked, InModel
  <2>6. CallIsFirst'
    <3> SUFFICES ASSUME NEW q \in Procs, task'[q].at = "call", NEW k \in DOMAIN files', Same(q, k)'
                 PROVE  k \in orphans'
      BY DEF CallIsFirst
    <3>1. q # p /\ task'[q] = task[q]
      BY <2>1, <2>4
    <3>2. CASE k \in DOMAIN files
      BY <1>1, <1>2, <1>5, <3>1, <3>2 DEF CallIsFirst
    <3>3. CASE k = n
      <4>1. task[q].conv = {s.conv} /\ Source(q) = [level |-> s.level, inputs |-> s.inputs]
        BY <2>1, <2>2, <3>1, <3>3 DEF Same
      <4>2. InModel(q) /\ InModel(p)
        BY <2>4, <3>1 DEF InModel
      <4> QED BY <1>1, <2>3, <3>1, <4>1, <4>2 DEF SourcesLocked
    <3> QED BY <2>2, <3>2, <3>3
  <2>7. RowsFollow'
    <3> SUFFICES ASSUME NEW k \in DOMAIN files' \ indexed'
                 PROVE  k \in orphans' \/ \E q \in Procs : task'[q].at = "index" /\ task'[q].last = k
      BY DEF RowsFollow
    <3>1. CASE k = n
      BY <2>4, <3>1
    <3>2. CASE k \in DOMAIN files
      <4>1. k \in orphans \/ \E q \in Procs : task[q].at = "index" /\ task[q].last = k
        BY <1>1, <1>2, <3>2 DEF RowsFollow
      <4> QED BY <1>2, <2>1, <2>4, <4>1
    <3> QED BY <2>2, <3>1, <3>2
  <2>8. ASSUME NEW k \in DOMAIN files, files[k].conv = s.conv, files[k].level = s.level,
               files[k].inputs = s.inputs
        PROVE  k \in orphans'
    BY <1>1, <1>2, <2>3, <2>4, <2>8 DEF CallIsFirst, Same
  <2>9. SourceOnce'
    <3> SUFFICES ASSUME NEW j \in DOMAIN files', NEW k \in DOMAIN files',
                        files'[j].conv = files'[k].conv, files'[j].level = files'[k].level,
                        files'[j].inputs = files'[k].inputs
                 PROVE  j = k \/ j \in orphans' \/ k \in orphans'
      BY DEF SourceOnce
    <3>1. CASE j \in DOMAIN files /\ k \in DOMAIN files
      BY <1>1, <1>2, <3>1 DEF SourceOnce
    <3>2. CASE j \in DOMAIN files /\ k = n
      BY <1>2, <2>2, <2>8, <3>2
    <3>3. CASE j = n /\ k \in DOMAIN files
      BY <1>2, <2>2, <2>8, <3>3
    <3> QED BY <2>2, <3>1, <3>2, <3>3
  <2> QED BY <2>5, <2>6, <2>7, <2>9
<1>10. ASSUME NEW p \in Procs, Effect(p)
       PROVE  SourcesLocked' /\ CallIsFirst' /\ RowsFollow' /\ SourceOnce'
  <2>1. CASE Rests(p)
    BY <1>7, <1>10, <2>1 DEF Rests
  <2>2. CASE Entering(p)
    BY <1>8, <1>10, <2>2
  <2>3. CASE \E s \in FileType : Committing(p, s)
    BY <1>9, <1>10, <2>3
  <2>4. CASE \E k \in DOMAIN files : Finishing(p, k)
    BY <1>7, <1>10, <2>4 DEF Finishing
  <2>5. CASE \E c \in Convs, level \in Nat \ {0}, items \in SUBSET Nat : Starting(p, c, level, items)
    BY <1>7, <1>10, <2>5 DEF Starting, Generating
  <2> QED BY <1>10, <2>1, <2>2, <2>3, <2>4, <2>5 DEF Effect
<1> QED BY <1>6, <1>10, Effects

-----------------------------------------------------------------------------
(* What holds of the tick.                                                 *)

(* The files after a commit.                                               *)
LEMMA Committed ==
    ASSUME LiveIInv, NEW p \in Procs, NEW s \in FileType, Committing(p, s)
    PROVE  LET n == Len(files) + 1
           IN  /\ DOMAIN files' = DOMAIN files \cup {n} /\ files'[n] = s /\ n \notin DOMAIN files
               /\ \A k \in DOMAIN files : files'[k] = files[k]
<1>1. files \in Seq(FileType) /\ files' = Append(files, s)
  BY DEF LiveIInv, LiveType, Committing
<1>2. /\ DOMAIN files = 1..Len(files) /\ DOMAIN files' = 1..(Len(files) + 1) /\ Len(files) \in Nat
      /\ files'[Len(files) + 1] = s /\ \A k \in DOMAIN files : files'[k] = files[k]
  BY <1>1, AppendLaw
<1> QED BY <1>2

(* Every step keeps TickIndexed.                                           *)
LEMMA TickIndexedKept ==
    ASSUME LiveIInv, [LiveNext]_liveVars
    PROVE  TickIndexed'
<1> SUFFICES ASSUME task'["tick"].at # "idle", NEW k \in DOMAIN files', files'[k].by = "tick"
             PROVE  k \in indexed' \/ (task'["tick"].at = "index" /\ task'["tick"].last = k)
  BY DEF TickIndexed, ByTick
<1>1. /\ TickIndexed /\ indexed \subseteq indexed' /\ DOMAIN files \subseteq DOMAIN files'
      /\ \A j \in DOMAIN files : files'[j] = files[j]
  BY Grows DEF LiveIInv
<1>2. "tick" \in Procs
  BY DEF Procs
<1>3. CASE files' = files /\ task' = task
  BY <1>1, <1>3 DEF TickIndexed, ByTick
<1>4. ASSUME NEW p \in Procs, p # "tick", Effect(p)
      PROVE  k \in indexed' \/ (task'["tick"].at = "index" /\ task'["tick"].last = k)
  <2>1. task'["tick"] = task["tick"]
    BY <1>2, <1>4 DEF Effect
  <2>2. k \in DOMAIN files
    <3>1. ASSUME NEW s \in FileType, Committing(p, s) PROVE k \in DOMAIN files
      <4>1. s.by = p
        BY <3>1 DEF Committing
      <4> QED BY <1>4, <3>1, <4>1, Committed
    <3>2. files' = files \/ \E s \in FileType : Committing(p, s)
      BY <1>4 DEF Effect, Rests, Entering, Finishing, Starting
    <3> QED BY <3>1, <3>2
  <2> QED BY <1>1, <2>1, <2>2 DEF TickIndexed, ByTick
<1>5. CASE Rests("tick")
  <2>1. files' = files /\ (task["tick"].at = "index" => task'["tick"].at = "idle")
        /\ (task["tick"].at = "idle" => indexed' = DOMAIN files)
    BY <1>5 DEF Rests
  <2> QED BY <1>1, <2>1 DEF TickIndexed, ByTick
<1>6. CASE Entering("tick")
  BY <1>1, <1>6 DEF Entering, TickIndexed, ByTick
<1>7. ASSUME NEW s \in FileType, Committing("tick", s)
      PROVE  k \in indexed' \/ (task'["tick"].at = "index" /\ task'["tick"].last = k)
  <2>1. task["tick"].at = "call" /\ task'["tick"].at = "index" /\ task'["tick"].last = Len(files) + 1
    BY <1>7 DEF Committing
  <2>2. k \in DOMAIN files \/ k = Len(files) + 1
    BY <1>2, <1>7, Committed
  <2> QED BY <1>1, <2>1, <2>2 DEF TickIndexed, ByTick
<1>8. ASSUME NEW j \in DOMAIN files, Finishing("tick", j)
      PROVE  k \in indexed' \/ (task'["tick"].at = "index" /\ task'["tick"].last = k)
  <2>1. files' = files /\ j \in indexed' /\ (task["tick"].at = "lock" \/ (task["tick"].at = "index" /\ j = task["tick"].last))
    BY <1>8 DEF Finishing
  <2> QED BY <1>1, <2>1 DEF TickIndexed, ByTick
<1>9. ASSUME NEW c \in Convs, NEW level \in Nat \ {0}, NEW items \in SUBSET Nat,
             Starting("tick", c, level, items)
      PROVE  k \in indexed' \/ (task'["tick"].at = "index" /\ task'["tick"].last = k)
  <2>1. files' = files /\ task["tick"].at # "idle" /\ task["tick"].at # "index"
    BY <1>9 DEF Starting, Generating
  <2> QED BY <1>1, <2>1 DEF TickIndexed, ByTick
<1>10. CASE Effect("tick")
  BY <1>5, <1>6, <1>7, <1>8, <1>9, <1>10 DEF Effect
<1>11. ASSUME NEW p \in Procs, Effect(p)
       PROVE  k \in indexed' \/ (task'["tick"].at = "index" /\ task'["tick"].last = k)
  BY <1>4, <1>10, <1>11
<1> QED BY <1>3, <1>11, Effects

(* The source of the tick shares nothing with the other files of the tick  *)
(* on its side of level 1.                                                 *)
LEMMA SourceApart ==
    ASSUME LiveIInv, task["tick"].at = "call", NEW k \in DOMAIN files, files[k].by = "tick",
           task["tick"].conv = {files[k].conv},
           (files[k].level = 1) = (task["tick"].level = 1)
    PROVE  files[k].inputs \cap Source("tick").inputs = {}
<1> DEFINE t == task["tick"]
<1>1. "tick" \in Procs /\ Generating("tick")
  BY DEF Procs, Generating
<1>2. Source("tick").inputs \subseteq Items("tick")
  BY <1>1, FirstGroup
<1>3. MadeHere(k)
  BY DEF MadeHere, ByTick
<1>4. OnceEach /\ \E old \in SUBSET DOMAIN files : Apart(old)
  BY <1>1 DEF LiveIInv, TickApart
<1>5. files[k].level \in Nat \ {0} /\ t.level \in Nat
  <2>1. files[k] \in FileType /\ t \in TaskType
    BY <1>1 DEF LiveIInv, LiveType
  <2> QED BY <2>1 DEF FileType, TaskType
<1>6. CASE files[k].level = t.level
  BY <1>2, <1>3, <1>4, <1>6 DEF OnceEach
<1>7. CASE files[k].level > t.level
  <2>1. t.level # 1
    BY <1>5, <1>7
  <2>2. PICK old \in SUBSET DOMAIN files : Apart(old)
    BY <1>4
  <2>3. files[k].inputs \subseteq old
    BY <1>3, <1>7, <2>2 DEF Apart
  <2>4. Items("tick") \cap old = {}
    BY <2>1, <2>2 DEF Apart
  <2> QED BY <1>2, <2>3, <2>4
<1>8. CASE files[k].level < t.level
  <2> SUFFICES ASSUME NEW i \in files[k].inputs, i \in Source("tick").inputs PROVE FALSE
    OBVIOUS
  <2>1. files[k].level # 1 /\ t.level # 1
    BY <1>5, <1>8
  <2>2. Taken(files[k].conv, files[k].level, i)
    BY DEF LiveIInv, FilesGood, FileGood
  <2>3. \E c \in Convs : Taken(c, t.level, i)
    BY <1>1, <1>2 DEF LiveIInv, GenerationsGood, GenerationGood
  <2>4. files[i].level = files[k].level - 1 /\ files[i].level = t.level - 1
    BY <2>1, <2>2, <2>3 DEF Taken
  <2> QED BY <1>5, <1>8, <2>4
<1> QED BY <1>5, <1>6, <1>7, <1>8

(* Every step keeps InputOnce.                                             *)
LEMMA InputOnceKept ==
    ASSUME LiveIInv, [LiveNext]_liveVars
    PROVE  InputOnce'
<1>1. InputOnce /\ \A k \in DOMAIN files : files'[k] = files[k]
  BY Grows DEF LiveIInv
<1>2. CASE files' = files
  BY <1>1, <1>2 DEF InputOnce
<1>3. ASSUME NEW p \in Procs, NEW s \in FileType, Committing(p, s) PROVE InputOnce'
  <2> PICK n : n = Len(files) + 1
    OBVIOUS
  <2>1. DOMAIN files' = DOMAIN files \cup {n} /\ files'[n] = s
    BY <1>3, Committed
  <2>2. /\ s.by = p /\ task[p].at = "call" /\ task[p].conv = {s.conv} /\ s.level = task[p].level
        /\ s.inputs = Source(p).inputs
    BY <1>3 DEF Committing
  <2>3. ASSUME NEW k \in DOMAIN files, files[k].by = "tick", p = "tick", files[k].conv = s.conv,
               (files[k].level = 1) = (s.level = 1)
        PROVE  files[k].inputs \cap s.inputs = {}
    BY <2>2, <2>3, SourceApart
  <2>4. SUFFICES ASSUME NEW j \in DOMAIN files', NEW k \in DOMAIN files', j # k,
                        files'[j].by = "tick", files'[k].by = "tick", files'[j].conv = files'[k].conv,
                        (files'[j].level = 1) = (files'[k].level = 1)
                 PROVE  files'[j].inputs \cap files'[k].inputs = {}
    BY DEF InputOnce
  <2>5. CASE j \in DOMAIN files /\ k \in DOMAIN files
    BY <1>1, <2>4, <2>5 DEF InputOnce
  <2>6. CASE j \in DOMAIN files /\ k = n
    BY <1>1, <2>1, <2>2, <2>3, <2>4, <2>6
  <2>7. CASE j = n /\ k \in DOMAIN files
    BY <1>1, <2>1, <2>2, <2>3, <2>4, <2>7
  <2> QED BY <2>1, <2>4, <2>5, <2>6, <2>7
<1>4. ASSUME NEW p \in Procs, Effect(p) PROVE InputOnce'
  BY <1>2, <1>3, <1>4 DEF Effect, Rests, Entering, Finishing, Starting
<1> QED BY <1>2, <1>4, Effects

(* The tick is apart from the old summaries still, or from then on.        *)
LEMMA TickApartFrame ==
    ASSUME LiveIInv, [LiveNext]_liveVars, Generating("tick"), SameGroups("tick"),
           DOMAIN files \subseteq DOMAIN files',
           \A k \in DOMAIN files' \ DOMAIN files :
              files'[k].by = "tick" => /\ task'["tick"].at = "index" /\ task'["tick"].last = k
                                       /\ files'[k].level = task["tick"].level,
           task'["tick"].at = "index" =>
              task'["tick"].last \notin DOMAIN files
              \/ (task["tick"].at = "index" /\ task["tick"].last = task'["tick"].last),
           task["tick"].at = "index" =>
              task'["tick"].at = "index" /\ task'["tick"].last = task["tick"].last
    PROVE  TickApart'
<1> DEFINE t == task["tick"]
           r == task'["tick"]
<1>1. "tick" \in Procs
  BY DEF Procs
<1>2. /\ OnceEach /\ indexed \subseteq DOMAIN files /\ t \in TaskType /\ GenerationGood("tick")
      /\ \A k \in DOMAIN files : files'[k] = files[k]
  BY <1>1, Grows DEF LiveIInv, LiveType, TickApart, GenerationsGood
<1>3. PICK old \in SUBSET DOMAIN files : Apart(old)
  BY <1>1 DEF LiveIInv, TickApart
<1>4. Items("tick")' = Items("tick")
  BY Keeps DEF SameGroups
<1>5. r.level = t.level /\ r.conv = t.conv /\ r.groups = t.groups /\ r.nodes = t.nodes
  BY DEF SameGroups
<1>6. \A k \in DOMAIN files : MadeHere(k)' <=> MadeHere(k)
  BY <1>2, <1>5 DEF MadeHere, ByTick
<1>7. \A n \in Range(t.nodes) : n \in DOMAIN files
  <2>1. t.level + 1 # 1
    BY <1>2 DEF GenerationGood, TaskType
  <2> QED BY <1>2, <2>1 DEF GenerationGood, Taken
<1>8. \A k \in DOMAIN files' : k \notin DOMAIN files /\ MadeHere(k)' =>
          r.at = "index" /\ r.last = k /\ files'[k].level = t.level
  BY DEF MadeHere, ByTick
<1>9. OnceEach'
  <2>1. \A k \in DOMAIN files' :
            MadeHere(k)' /\ files'[k].level = r.level /\ ~(r.at = "index" /\ r.last = k)
                => files'[k].inputs \cap Items("tick")' = {}
    <3> SUFFICES ASSUME NEW k \in DOMAIN files', MadeHere(k)', files'[k].level = r.level,
                        ~(r.at = "index" /\ r.last = k)
                 PROVE  files'[k].inputs \cap Items("tick") = {}
      BY <1>4
    <3>1. k \in DOMAIN files
      BY <1>8
    <3>2. ~(t.at = "index" /\ t.last = k)
      OBVIOUS
    <3> QED BY <1>2, <1>5, <1>6, <3>1, <3>2 DEF OnceEach
  <2>2. \A n \in Range(t.nodes) : files'[n].inputs \cap Items("tick")' = {}
    BY <1>2, <1>4, <1>7 DEF OnceEach
  <2>3. /\ \A g, h \in DOMAIN t.groups : g # h => Range(t.groups[g]) \cap Range(t.groups[h]) = {}
        /\ \A i, j \in DOMAIN t.nodes : t.nodes[i] = t.nodes[j] => i = j
    BY <1>2 DEF OnceEach
  <2> QED BY <1>5, <2>1, <2>2, <2>3 DEF OnceEach
<1>10. Apart(old)'
  <2>1. old \subseteq DOMAIN files' /\ \A n \in old : files'[n] = files[n]
    BY <1>2
  <2>2. \A k \in DOMAIN files' : MadeHere(k)' /\ files'[k].level > r.level => files'[k].inputs \subseteq old
    <3> SUFFICES ASSUME NEW k \in DOMAIN files', MadeHere(k)', files'[k].level > r.level
                 PROVE  files'[k].inputs \subseteq old
      OBVIOUS
    <3>1. t.level \in Nat
      BY <1>2 DEF TaskType
    <3>2. k \in DOMAIN files
      BY <1>5, <1>8, <3>1
    <3> QED BY <1>2, <1>3, <1>5, <1>6, <3>2 DEF Apart
  <2>3. IF t.level = 1
        THEN \A n \in old : files'[n].conv \in t.conv /\ files'[n].level = 1
                              => files'[n].inputs \cap Items("tick")' = {}
        ELSE Items("tick")' \cap old = {}
    BY <1>3, <1>4, <2>1 DEF Apart
  <2>4. Range(t.nodes) \cap old = {} /\ \A n \in old : files'[n].level > 1 => files'[n].inputs \subseteq old
    BY <1>3, <2>1 DEF Apart
  <2>5. r.at = "index" => r.last \notin old
    BY <1>3 DEF Apart
  <2> QED BY <1>5, <2>1, <2>2, <2>3, <2>4, <2>5 DEF Apart
<1>11. old \in SUBSET DOMAIN files'
  OBVIOUS
<1> QED BY <1>9, <1>10, <1>11 DEF TickApart

(* The first group has its summary k.                                      *)
LEMMA TickApartFinish ==
    ASSUME LiveIInv, [LiveNext]_liveVars, NEW k \in DOMAIN files, Finishing("tick", k)
    PROVE  TickApart'
<1> DEFINE t == task["tick"]
           r == task'["tick"]
<1> SUFFICES ASSUME Generating("tick")' PROVE OnceEach' /\ \E old \in SUBSET DOMAIN files' : Apart(old)'
  BY DEF TickApart
<1>1. "tick" \in Procs
  BY DEF Procs
<1>2. /\ Generating("tick") /\ files' = files /\ Same("tick", k)
      /\ r.at = "lock" /\ r.groups # <<>>
      /\ NextGroup("tick", k, r) \/ Reduction("tick", k, r)
      /\ t.at = "lock" \/ (t.at = "index" /\ k = t.last)
      /\ t.at # "index" => k \in indexed
  BY DEF Finishing, Generating
<1>3. /\ OnceEach /\ t \in TaskType /\ GenerationGood("tick") /\ DOMAIN files \subseteq Nat
  BY <1>1, <1>2 DEF LiveIInv, LiveType, TickApart, GenerationsGood
<1>4. PICK old \in SUBSET DOMAIN files : Apart(old)
  BY <1>1, <1>2 DEF LiveIInv, TickApart
<1>5. /\ t.level \in Nat /\ t.level > 0 /\ t.nodes \in Seq(Nat) /\ t.groups \in Seq(Seq(Nat)) /\ k \in Nat
      /\ t.groups # <<>> /\ \A g \in DOMAIN t.groups : t.groups[g] # <<>>
  BY <1>3 DEF TaskType, GenerationGood
<1>6. /\ files[k].inputs = Range(t.groups[1]) /\ 1 \in DOMAIN t.groups
      /\ files[k].inputs # {} /\ files[k].inputs \subseteq Items("tick")
      /\ t.conv = {files[k].conv} /\ files[k].level = t.level
  <2>1. /\ Source("tick").level = t.level /\ Source("tick").inputs = Range(Head(t.groups))
        /\ Source("tick").inputs # {} /\ Source("tick").inputs \subseteq Items("tick")
    BY <1>1, <1>2, FirstGroup
  <2>2. Head(t.groups) = t.groups[1] /\ 1 \in DOMAIN t.groups
    BY <1>5, TailLaw
  <2> QED BY <1>2, <2>1, <2>2 DEF Same
<1>7. k \notin Range(t.nodes)
  BY <1>3, <1>6 DEF OnceEach
<1>8. k \notin old
  <2>1. CASE t.at = "index"
    BY <1>2, <1>4, <2>1 DEF Apart
  <2>2. CASE t.level = 1
    BY <1>4, <1>6, <2>2 DEF Apart
  <2>3. CASE t.level # 1
    <3>1. files[k].level > 1
      BY <1>5, <1>6, <2>3
    <3>2. k \in old => files[k].inputs \subseteq old
      BY <1>4, <3>1 DEF Apart
    <3>3. Items("tick") \cap old = {}
      BY <1>4, <2>3 DEF Apart
    <3> QED BY <1>6, <3>2, <3>3
  <2> QED BY <2>2, <2>3
<1>15. \A j \in DOMAIN files : files[j].level \in Nat
  <2>1. \A j \in DOMAIN files : files[j] \in FileType
    BY DEF LiveIInv, LiveType
  <2> QED BY <2>1 DEF FileType
<1> DEFINE nodes == Append(t.nodes, k)
<1>9. /\ Len(t.nodes) \in Nat /\ DOMAIN t.nodes = 1..Len(t.nodes)
      /\ DOMAIN nodes = 1..(Len(t.nodes) + 1) /\ nodes[Len(t.nodes) + 1] = k
      /\ \A i \in DOMAIN t.nodes : nodes[i] = t.nodes[i]
      /\ Range(nodes) = Range(t.nodes) \cup {k}
  <2> DEFINE before == t.nodes
  <2>1. before \in Seq(Nat) /\ k \in Nat
    BY <1>5
  <2> HIDE DEF before
  <2>2. /\ Len(before) \in Nat /\ DOMAIN before = 1..Len(before)
        /\ DOMAIN Append(before, k) = 1..(Len(before) + 1) /\ Append(before, k)[Len(before) + 1] = k
        /\ \A i \in DOMAIN before : Append(before, k)[i] = before[i]
        /\ Range(Append(before, k)) = Range(before) \cup {k}
    BY <2>1, AppendLaw
  <2> QED BY <2>2 DEF before
<1>10. \A i, j \in DOMAIN nodes : nodes[i] = nodes[j] => i = j
  <2> SUFFICES ASSUME NEW i \in DOMAIN nodes, NEW j \in DOMAIN nodes, nodes[i] = nodes[j] PROVE i = j
    OBVIOUS
  <2>1. \A x, y \in DOMAIN t.nodes : t.nodes[x] = t.nodes[y] => x = y
    BY <1>3 DEF OnceEach
  <2>2. \A x \in DOMAIN t.nodes : t.nodes[x] # k
    BY <1>7 DEF Range
  <2>3. \A x \in DOMAIN nodes : x \in DOMAIN t.nodes \/ x = Len(t.nodes) + 1
    BY <1>9
  <2> HIDE DEF nodes
  <2> QED BY <1>9, <2>1, <2>2, <2>3
<1>11. \A j \in DOMAIN files : MadeHere(j)' /\ r.conv = t.conv => MadeHere(j)
  BY <1>2 DEF MadeHere, ByTick
<1>12. Range(nodes) \cap old = {} /\ old \subseteq DOMAIN files'
       /\ \A n \in old : files[n].level > 1 => files[n].inputs \subseteq old
  BY <1>2, <1>4, <1>8, <1>9 DEF Apart
<1> HIDE DEF nodes
<1>13. CASE NextGroup("tick", k, r)
  <2>1. r.conv = t.conv /\ r.level = t.level /\ r.groups = Tail(t.groups) /\ r.nodes = nodes
    BY <1>13 DEF NextGroup, nodes
  <2>2. \A g \in DOMAIN r.groups : g + 1 \in DOMAIN t.groups /\ g \in Nat /\ g > 0 /\ r.groups[g] = t.groups[g + 1]
    <3> DEFINE before == t.groups
    <3>1. before \in Seq(Seq(Nat)) /\ before # <<>>
      BY <1>5
    <3> HIDE DEF before
    <3>2. \A g \in DOMAIN Tail(before) : g + 1 \in DOMAIN before /\ g \in Nat /\ g > 0
                                         /\ Tail(before)[g] = before[g + 1]
      BY <3>1, TailLaw
    <3> QED BY <2>1, <3>2 DEF before
  <2>3. Items("tick")' \subseteq Items("tick")
    BY <2>2 DEF Items
  <2>4. \A g, h \in DOMAIN t.groups : g # h => Range(t.groups[g]) \cap Range(t.groups[h]) = {}
    BY <1>3 DEF OnceEach
  <2>5. files[k].inputs \cap Items("tick")' = {}
    <3>1. \A g \in DOMAIN r.groups : g + 1 # 1 /\ Range(r.groups[g]) \cap Range(t.groups[1]) = {}
      BY <1>6, <2>2, <2>4
    <3> QED BY <1>6, <3>1 DEF Items
  <2>6. \A g, h \in DOMAIN r.groups : g # h => Range(r.groups[g]) \cap Range(r.groups[h]) = {}
    <3> SUFFICES ASSUME NEW g \in DOMAIN r.groups, NEW h \in DOMAIN r.groups, g # h
                 PROVE  Range(r.groups[g]) \cap Range(r.groups[h]) = {}
      OBVIOUS
    <3>1. g + 1 # h + 1
      BY <2>2
    <3> QED BY <2>2, <2>4, <3>1
  <2>7. \A j \in DOMAIN files' : MadeHere(j)' /\ files'[j].level = r.level => files'[j].inputs \cap Items("tick")' = {}
    <3> SUFFICES ASSUME NEW j \in DOMAIN files, MadeHere(j), files[j].level = t.level
                 PROVE  files[j].inputs \cap Items("tick")' = {}
      BY <1>2, <1>11, <2>1
    <3>1. CASE j = k
      BY <2>5, <3>1
    <3>2. CASE j # k
      BY <1>2, <1>3, <2>3, <3>2 DEF OnceEach
    <3> QED BY <3>1, <3>2
  <2>8. \A n \in Range(nodes) : files'[n].inputs \cap Items("tick")' = {}
    BY <1>2, <1>3, <1>9, <2>3, <2>5 DEF OnceEach
  <2>9. OnceEach'
    BY <1>10, <2>1, <2>6, <2>7, <2>8 DEF OnceEach
  <2>10. \A j \in DOMAIN files' : MadeHere(j)' /\ files'[j].level > r.level => files'[j].inputs \subseteq old
    BY <1>2, <1>4, <1>11, <2>1 DEF Apart
  <2>11. IF r.level = 1
         THEN \A n \in old : files'[n].conv \in r.conv /\ files'[n].level = 1
                               => files'[n].inputs \cap Items("tick")' = {}
         ELSE Items("tick")' \cap old = {}
    BY <1>2, <1>4, <2>1, <2>3 DEF Apart
  <2>12. Apart(old)'
    BY <1>2, <1>12, <2>1, <2>10, <2>11 DEF Apart
  <2> QED BY <1>12, <2>9, <2>12
<1>14. CASE Reduction("tick", k, r)
  <2>1. /\ r.conv = t.conv /\ r.level = t.level + 1 /\ r.nodes = <<>>
        /\ \A g \in DOMAIN r.groups : Range(r.groups[g]) \subseteq Range(nodes)
    BY <1>9, <1>14 DEF Reduction
  <2>2. \A g, h \in DOMAIN r.groups : g # h => Range(r.groups[g]) \cap Range(r.groups[h]) = {}
    BY <1>10, <1>14 DEF Reduction, nodes
  <2>3. Items("tick")' \subseteq Range(nodes)
    BY <2>1 DEF Items
  <2>4. \A j \in DOMAIN files' : MadeHere(j)' /\ files'[j].level >= r.level => files'[j].inputs \subseteq old
    <3> SUFFICES ASSUME NEW j \in DOMAIN files, MadeHere(j), files[j].level >= t.level + 1
                 PROVE  files[j].inputs \subseteq old
      BY <1>2, <1>11, <2>1
    <3>1. files[j].level \in Nat
      BY <1>15
    <3>2. files[j].level > t.level
      BY <1>5, <3>1
    <3> QED BY <1>4, <3>2 DEF Apart
  <2>5. \A j \in DOMAIN files' : files'[j].level \in Nat
    BY <1>2, <1>15
  <2>6. Items("tick")' \cap old = {}
    BY <1>12, <2>3
  <2>7. \A j \in DOMAIN files' : MadeHere(j)' /\ files'[j].level = r.level => files'[j].inputs \cap Items("tick")' = {}
    <3> SUFFICES ASSUME NEW j \in DOMAIN files', MadeHere(j)', files'[j].level = r.level
                 PROVE  files'[j].inputs \cap Items("tick")' = {}
      OBVIOUS
    <3>1. r.level \in Nat
      BY <1>5, <2>1
    <3>2. files'[j].level >= r.level
      BY <3>1
    <3>3. files'[j].inputs \subseteq old
      BY <2>4, <3>2
    <3> QED BY <2>6, <3>3
  <2>8. Range(r.nodes) = {} /\ DOMAIN r.nodes = {}
    BY <2>1 DEF Range
  <2>9. OnceEach'
    BY <2>2, <2>7, <2>8 DEF OnceEach
  <2>10. \A j \in DOMAIN files' : MadeHere(j)' /\ files'[j].level > r.level => files'[j].inputs \subseteq old
    <3> SUFFICES ASSUME NEW j \in DOMAIN files', MadeHere(j)', files'[j].level > r.level
                 PROVE  files'[j].inputs \subseteq old
      OBVIOUS
    <3>1. r.level \in Nat
      BY <1>5, <2>1
    <3>2. files'[j].level >= r.level
      BY <2>5, <3>1
    <3> QED BY <2>4, <3>2
  <2>11. r.level # 1
    BY <1>5, <2>1
  <2>12. Apart(old)'
    BY <1>2, <1>12, <2>6, <2>8, <2>10, <2>11 DEF Apart
  <2> QED BY <1>12, <2>9, <2>12
<1> QED BY <1>2, <1>13, <1>14

(* The tick begins to generate for a conversation.                         *)
LEMMA TickApartStart ==
    ASSUME LiveIInv, [LiveNext]_liveVars, NEW c \in Convs, NEW level \in Nat \ {0},
           NEW items \in SUBSET Nat, Starting("tick", c, level, items)
    PROVE  TickApart'
<1> DEFINE t == task["tick"]
           r == task'["tick"]
<1> SUFFICES OnceEach' /\ \E old \in SUBSET DOMAIN files' : Apart(old)'
  BY DEF TickApart
<1>1. /\ files' = files /\ indexed' = indexed /\ indexed \subseteq DOMAIN files
      /\ t.at # "idle" /\ t.at # "index"
  BY DEF Starting, Generating, LiveIInv, LiveType
<1>2. /\ r.at = "lock" /\ r.conv = {c} /\ r.level = level /\ r.nodes = <<>>
      /\ \A g \in DOMAIN r.groups : Range(r.groups[g]) \subseteq items
      /\ \A g, h \in DOMAIN r.groups : g # h => Range(r.groups[g]) \cap Range(r.groups[h]) = {}
  BY DEF Starting
<1>3. IF level = 1 THEN items = Selected(c) ELSE items \subseteq Ready(c, level - 1)
  BY DEF Starting
<1>4. Items("tick")' \subseteq items
  BY <1>2 DEF Items
<1>5. \A k \in DOMAIN files : files[k].level \in Nat \ {0}
  <2>1. \A k \in DOMAIN files : files[k] \in FileType
    BY DEF LiveIInv, LiveType
  <2> QED BY <2>1 DEF FileType
<1>6. ASSUME NEW k, MadeHere(k)' PROVE k \in indexed /\ files[k].conv = c
  <2>1. ByTick(k) /\ files[k].conv = c
    BY <1>1, <1>2, <1>6 DEF MadeHere, ByTick
  <2> QED BY <1>1, <2>1 DEF LiveIInv, TickIndexed, ByTick
<1>7. ASSUME NEW k \in DOMAIN files, files[k].level > 1, NEW i \in files[k].inputs
      PROVE  i \in indexed /\ files[i].conv = files[k].conv
  <2>1. FileGood(k, files[k])
    BY DEF LiveIInv, FilesGood
  <2>2. Taken(files[k].conv, files[k].level, i) /\ files[k].level # 1
    BY <1>5, <1>7, <2>1 DEF FileGood
  <2> QED BY <2>2 DEF Taken
<1>8. Range(r.nodes) = {} /\ DOMAIN r.nodes = {}
  BY <1>2 DEF Range
<1>9. ASSUME \A k \in DOMAIN files : MadeHere(k)' /\ files[k].level = level => files[k].inputs \cap items = {}
      PROVE  OnceEach'
  <2>1. \A k \in DOMAIN files' : MadeHere(k)' /\ files'[k].level = r.level => files'[k].inputs \cap Items("tick")' = {}
    BY <1>1, <1>2, <1>4, <1>9
  <2> QED BY <1>2, <1>8, <2>1 DEF OnceEach
<1>10. CASE level = 1
  <2>1. items \cap Covered(c) = {}
    BY <1>3, <1>10 DEF Selected
  <2>2. \A k \in indexed : files[k].conv = c /\ files[k].level = 1 => files[k].inputs \cap items = {}
    BY <2>1 DEF Covered, Listed
  <2>3. OnceEach'
    BY <1>6, <1>9, <1>10, <2>2
  <2>4. \A k \in DOMAIN files : files[k].level > 1 => files[k].inputs \subseteq indexed
    BY <1>7
  <2>5. \A n \in indexed : files'[n].conv \in r.conv /\ files'[n].level = 1
                             => files'[n].inputs \cap Items("tick")' = {}
    BY <1>1, <1>2, <1>4, <2>2
  <2>6. Apart(indexed)'
    BY <1>1, <1>2, <1>8, <1>10, <2>4, <2>5 DEF Apart
  <2> QED BY <1>1, <2>3, <2>6
<1>11. CASE level # 1
  <2>1. items \subseteq Ready(c, level - 1) /\ level > 1
    BY <1>3, <1>11
  <2>2. \A i \in items : i \in indexed /\ files[i].conv = c /\ i \notin Consumed(c)
    BY <2>1 DEF Ready, Listed
  <2>3. ASSUME NEW k \in indexed, files[k].level > 1 PROVE files[k].inputs \cap items = {}
    <3> SUFFICES ASSUME NEW i \in files[k].inputs, i \in items PROVE FALSE
      OBVIOUS
    <3>1. files[k].conv = c
      BY <1>1, <1>7, <2>2, <2>3
    <3>2. i \in Consumed(c)
      BY <2>3, <3>1 DEF Consumed, Listed
    <3> QED BY <2>2, <3>2
  <2>4. OnceEach'
    BY <1>6, <1>9, <2>1, <2>3
  <2> PICK old : old = indexed \ items
    OBVIOUS
  <2>5. old \subseteq DOMAIN files' /\ Items("tick")' \cap old = {}
    BY <1>1, <1>4
  <2>6. \A k \in indexed : files[k].level > 1 => files[k].inputs \subseteq old
    BY <1>1, <1>7, <2>3
  <2>7. \A n \in old : files'[n].level > 1 => files'[n].inputs \subseteq old
    BY <1>1, <2>6
  <2>8. \A k \in DOMAIN files' : MadeHere(k)' /\ files'[k].level > r.level => files'[k].inputs \subseteq old
    <3> SUFFICES ASSUME NEW k \in DOMAIN files, MadeHere(k)', files[k].level > level
                 PROVE  files[k].inputs \subseteq old
      BY <1>1, <1>2
    <3>1. files[k].level > 1
      BY <1>5, <2>1
    <3> QED BY <1>6, <2>6, <3>1
  <2>9. Apart(old)'
    BY <1>2, <1>8, <1>11, <2>5, <2>7, <2>8 DEF Apart
  <2> QED BY <2>4, <2>5, <2>9
<1> QED BY <1>10, <1>11

(* Every step keeps TickApart.                                             *)
LEMMA TickApartKept ==
    ASSUME LiveIInv, [LiveNext]_liveVars
    PROVE  TickApart'
<1>1. "tick" \in Procs /\ DOMAIN files \subseteq DOMAIN files'
  BY Grows DEF Procs
<1>2. CASE ~Generating("tick")'
  BY <1>2 DEF TickApart
<1>3. ASSUME task'["tick"] = task["tick"], Generating("tick")',
             \A k \in DOMAIN files' \ DOMAIN files : files'[k].by # "tick"
      PROVE  TickApart'
  BY <1>1, <1>3, TickApartFrame DEF SameGroups, Generating
<1>4. CASE Generating("tick")' /\ files' = files /\ task' = task
  BY <1>3, <1>4
<1>5. ASSUME NEW p \in Procs, p # "tick", Effect(p), Generating("tick")' PROVE TickApart'
  <2>1. task'["tick"] = task["tick"]
    BY <1>1, <1>5 DEF Effect
  <2>2. ASSUME NEW s \in FileType, Committing(p, s)
        PROVE  \A k \in DOMAIN files' \ DOMAIN files : files'[k].by # "tick"
    <3>1. s.by # "tick"
      BY <1>5, <2>2 DEF Committing
    <3> QED BY <2>2, <3>1, Committed
  <2>3. files' = files \/ \E s \in FileType : Committing(p, s)
    BY <1>5 DEF Effect, Rests, Entering, Finishing, Starting
  <2> QED BY <1>3, <1>5, <2>1, <2>2, <2>3
<1>6. CASE Generating("tick")' /\ Entering("tick")
  BY <1>1, <1>6, TickApartFrame DEF Entering, Generating
<1>7. ASSUME NEW s \in FileType, Committing("tick", s) PROVE TickApart'
  <2>1. /\ task["tick"].at = "call" /\ SameGroups("tick") /\ Generating("tick")
        /\ task'["tick"].last = Len(files) + 1 /\ task'["tick"].at = "index"
        /\ s.level = task["tick"].level
    BY <1>7 DEF Committing, Generating
  <2>2. /\ DOMAIN files' = DOMAIN files \cup {Len(files) + 1} /\ files'[Len(files) + 1] = s
        /\ Len(files) + 1 \notin DOMAIN files
    BY <1>1, <1>7, Committed
  <2>3. \A k \in DOMAIN files' \ DOMAIN files :
            files'[k].by = "tick" => /\ task'["tick"].at = "index" /\ task'["tick"].last = k
                                     /\ files'[k].level = task["tick"].level
    BY <2>1, <2>2
  <2> QED BY <1>1, <2>1, <2>2, <2>3, TickApartFrame
<1>8. CASE Generating("tick")' /\ Effect("tick")
  <2>1. ~Rests("tick")
    BY <1>8 DEF Rests, Generating
  <2> QED BY <1>6, <1>7, <1>8, <2>1, TickApartFinish, TickApartStart DEF Effect
<1> QED BY <1>2, <1>4, <1>5, <1>8, Effects

-----------------------------------------------------------------------------
(* The invariant holds at the start.                                       *)
LEMMA InitLive == LiveInit => LiveIInv
<1> SUFFICES ASSUME LiveInit PROVE LiveIInv
  OBVIOUS
<1>1. /\ IInv /\ files = <<>> /\ indexed = {} /\ DOMAIN files = {}
      /\ \A p \in Procs : task[p] = Idle
      /\ task = [p \in Procs |-> Idle] /\ "tick" \in Procs
  BY InitIInv DEF LiveInit, Procs
<1>2. \A p \in Procs : task[p].at = "idle"
  BY <1>1, IdleType
<1>3. LiveType
  <2>1. <<>> \in Seq(FileType)
    OBVIOUS
  <2> QED BY <1>1, <1>2, <2>1, IdleType DEF LiveType
<1>4. FilesGood /\ GenerationsGood /\ SourcesLocked /\ CallIsFirst /\ RowsFollow
  BY <1>1, <1>2 DEF FilesGood, GenerationsGood, Generating, SourcesLocked, InModel, CallIsFirst, RowsFollow
<1>5. SourceOnce /\ TickIndexed /\ TickApart /\ InputOnce
  BY <1>1, <1>2 DEF SourceOnce, TickIndexed, TickApart, Generating, InputOnce
<1> QED BY <1>1, <1>3, <1>4, <1>5 DEF LiveIInv

(* And it is inductive.                                                    *)
LEMMA LiveInvariance == LiveSpec => []LiveIInv
<1>1. LiveIInv /\ [LiveNext]_liveVars => LiveIInv'
  BY Grows, Effects, FilesGoodKept, GenerationsGoodKept, SourceOnceKept, TickIndexedKept,
     TickApartKept, InputOnceKept DEF LiveIInv
<1> QED BY <1>1, InitLive, PTL DEF LiveSpec

(* Whatever failed, was killed or was asked for by the user before, no     *)
(* message and no summary is given to the model by the tick for two        *)
(* summaries: nothing that happened is counted twice (summarize_due,       *)
(* summarize_parents_due).                                                 *)
THEOREM InputOnceHolds == LiveSpec => []InputOnce
BY LiveInvariance, PTL DEF LiveIInv

(* Of one source there is one summary, however the tick and the user's     *)
(* command are interleaved: the lock of the source is enough.  Only a file *)
(* without its row, of a killed process, has a second one beside it.       *)
THEOREM SourceOnceHolds == LiveSpec => []SourceOnce
BY LiveInvariance, PTL DEF LiveIInv

(* Every summary on disk passes the validation of a peer that imports it:  *)
(* its children are there, one level down, its raw messages are those that *)
(* it cites, and its rounds were complete.                                 *)
THEOREM PeersAcceptHolds == LiveSpec => []PeersAccept
<1>1. LiveIInv => PeersAccept
  <2> SUFFICES ASSUME LiveIInv, NEW k \in DOMAIN files
               PROVE  LET s == files[k]
                      IN  IF s.level = 1
                          THEN /\ s.raw = s.refs
                               /\ \A i \in s.inputs : i \in Records(s.conv)
                                                      /\ log[i].round \in CompletedRounds(s.conv)
                          ELSE /\ \A j \in s.refs : j \in 1..(k - 1) /\ files[j].conv = s.conv
                                                    /\ files[j].level = s.level - 1
                               /\ s.raw = UNION {files[j].raw : j \in s.refs}
    BY DEF PeersAccept
  <2> DEFINE s == files[k]
  <2>1. FileGood(k, s) /\ s \in FileType
    BY DEF LiveIInv, FilesGood, LiveType
  <2>2. s.level = 1 \/ (s.level # 1 /\ s.level > 1)
    BY <2>1 DEF FileType
  <2> QED BY <2>1, <2>2 DEF FileGood, Taken
<1> QED BY <1>1, LiveInvariance, PTL

=============================================================================
