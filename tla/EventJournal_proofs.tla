------------------------- MODULE EventJournal_proofs -------------------------
(***************************************************************************)
(* The event journal for any number of processes, runs and events as long  *)
(* as nobody is killed, and through kills and sweeps for two processes: it *)
(* is one chain, the head covers every event whose append returned, and    *)
(* what does not verify is never extended.  (With three processes of which *)
(* one is killed, the two others may both hold the append lock, because    *)
(* BreakLock removes whatever lock is there.)                              *)
(***************************************************************************)
EXTENDS EventJournal, TLAPS, FiniteSetTheorems

\* Of two processes the one that breaks a lock is alone: its owner was the other.
TwoIfKilled == Crashes => \A p, q, r \in Proc : p = q \/ q = r \/ p = r

Holding == {"read", "line", "head", "appended", "failed"}

\* What the proofs need of the types.
Types ==
  /\ journal \in Events /\ head \in Events
  /\ lock \in Proc \cup {Nobody}
  /\ live \subseteq Proc /\ (~Crashes => live = Proc)
  /\ appender \in [Proc -> AppendSteps]
  /\ event \in [Proc -> Event]

\* Between TakeLock and Release the lock is the process's own, and who breaks a lock is alone.
Exclusion ==
  /\ \A p \in live : appender[p] \in Holding => lock = p
  /\ \A p \in live : appender[p] = "break" => live = {p}

\* What the holder of the lock read is still the journal, up to its own line.
Position ==
  \A p \in live :
    /\ appender[p] = "line" => /\ Verifies
                         /\ event[p].previous = Len(journal)
                         /\ event[p].sequence = Cardinality(OfRun(event[p].run)) + 1
    /\ appender[p] = "head" => /\ journal = Append(head, event[p])
                         /\ event[p].previous = Len(head)
    /\ appender[p] = "appended" => \E i \in DOMAIN head : head[i] = event[p]

\* The events of a run have a last one.
Bounded ==
  \A r \in Run : OfRun(r) # {} => \E k \in OfRun(r) : \A i \in OfRun(r) : i <= k

JournalInv == Types /\ Exclusion /\ Position /\ Bounded /\ OneChain /\ AcknowledgedIsCovered

(***************************************************************************)
(* Data.                                                                   *)
(***************************************************************************)
\* Appending to the journal keeps what it has and adds one event at the end.
LEMMA AppendFacts ==
  ASSUME NEW s \in Events, NEW e \in Event
  PROVE  /\ Append(s, e) \in Events
         /\ Len(Append(s, e)) = Len(s) + 1
         /\ DOMAIN Append(s, e) = DOMAIN s \cup {Len(s) + 1}
         /\ \A i \in DOMAIN s : Append(s, e)[i] = s[i]
         /\ Append(s, e)[Len(s) + 1] = e
         /\ SubSeq(Append(s, e), 1, Len(s)) = s
         /\ SubSeq(s, 1, Len(s)) = s
BY DEF Events

\* On one chain the highest sequence number of a run is the number of its events.
LEMMA ChainedIsNext ==
  ASSUME Types, Bounded, OneChain, NEW r \in Run
  PROVE  /\ Chained(r).run = r
         /\ Chained(r).previous = Len(journal)
         /\ Chained(r).sequence = Cardinality(OfRun(r)) + 1
         /\ Cardinality(OfRun(r)) \in Nat
         /\ IsFiniteSet(OfRun(r))
<1> DEFINE S == OfRun(r)
           Q == {0} \cup {journal[i].sequence : i \in S}
           Upto(k) == {j \in 1..k : journal[j].run = r}
           IsLast(n) == n \in Q /\ \A i \in S : journal[i].sequence <= n
           last == CHOOSE n \in Q : \A i \in S : journal[i].sequence <= n
<1>1. Len(journal) \in Nat /\ DOMAIN journal = 1..Len(journal) /\ S \subseteq 1..Len(journal)
  BY DEF Types, Events, OfRun
<1>2. IsFiniteSet(S) /\ Cardinality(S) \in Nat
  <2>1. IsFiniteSet(1..Len(journal))
    BY <1>1, FS_Interval
  <2>2. IsFiniteSet(S)
    BY <1>1, <2>1, FS_Subset
  <2>3. QED
    BY <2>2, FS_CardinalityType
<1>3. \A i \in S : journal[i].sequence = Cardinality(Upto(i)) /\ Upto(i) \subseteq S
  BY <1>1 DEF OneChain, OfRun
<1>4. \A i \in S : journal[i].sequence <= Cardinality(S)
  BY <1>2, <1>3, FS_Subset
<1>5. Cardinality(S) \in Q
  <2>1. CASE S = {}
    BY <2>1, FS_EmptySet
  <2>2. CASE S # {}
    <3>1. PICK k \in S : \A i \in S : i <= k
      BY <2>2 DEF Bounded
    <3>2. Upto(k) = S
      BY <1>1, <1>3, <3>1 DEF OfRun
    <3>3. QED
      BY <1>3, <3>1, <3>2
  <2>3. QED
    BY <2>1, <2>2
<1>6. last \in Q /\ \A i \in S : journal[i].sequence <= last
  <2>1. \E n \in Q : \A i \in S : journal[i].sequence <= n
    BY <1>4, <1>5
  <2>2. QED
    BY <2>1
<1>7. last = Cardinality(S)
  <2>1. \A i \in S : journal[i].sequence \in Nat
    <3>1. \A i \in DOMAIN journal : journal[i] \in Event
      BY DEF Types, Events
    <3>2. QED
      BY <1>1, <3>1 DEF Event
  <2>2. last <= Cardinality(S) /\ last \in Nat
    BY <1>2, <1>4, <1>6, <2>1
  <2>3. Cardinality(S) <= last
    BY <1>2, <1>5, <1>6, <2>1, <2>2
  <2>4. QED
    BY <1>2, <2>2, <2>3
<1>8. Chained(r) = [run |-> r, sequence |-> last + 1, previous |-> Len(journal)]
  BY DEF Chained
<1>9. Chained(r).run = r /\ Chained(r).previous = Len(journal) /\ Chained(r).sequence = last + 1
  BY <1>8
<1>10. QED
  BY <1>2, <1>7, <1>9

\* Before its head is written an event is the last of the journal.
LEMMA CoveredIsJournal ==
  ASSUME Types, Position, NEW p \in live, appender[p] = "head"
  PROVE  Covered(p) = journal /\ journal = Append(head, event[p])
<1>1. journal = Append(head, event[p]) /\ event[p].previous = Len(head)
  BY DEF Position
<1>2. head \in Events /\ event[p] \in Event
  BY DEF Types
<1>3. SubSeq(journal, 1, Len(head)) = head
  BY <1>1, <1>2, AppendFacts
<1>4. QED
  BY <1>1, <1>3 DEF Covered

(***************************************************************************)
(* The steps.                                                              *)
(***************************************************************************)
\* The lock changes hands only when nobody holds it, and the journal stays as it is.
LEMMA LockingStep ==
  ASSUME TwoIfKilled, JournalInv, NEW p \in Proc,
         BeginAppend(p) \/ TakeLock(p) \/ SeeDeadOwner(p) \/ BreakLock(p) \/ GiveUp(p)
  PROVE  JournalInv'
<1> USE DEF JournalInv, Goes
<1>1. p \in live /\ UNCHANGED <<journal, cut, head, acked, live>>
  BY DEF BeginAppend, TakeLock, SeeDeadOwner, BreakLock, GiveUp, disk, At
<1>2. (Bounded /\ OneChain /\ AcknowledgedIsCovered)'
  <2>1. Bounded /\ OneChain /\ AcknowledgedIsCovered /\ UNCHANGED <<journal, head, acked>>
    BY <1>1
  <2>2. QED
    BY <2>1 DEF Bounded, OfRun, OneChain, AcknowledgedIsCovered
<1>3. PICK s \in {"lock", "read", "break", "idle"} : appender' = [appender EXCEPT ![p] = s]
  BY DEF BeginAppend, TakeLock, SeeDeadOwner, BreakLock, GiveUp
<1>4. appender'[p] = s /\ \A q \in live \ {p} : appender'[q] = appender[q]
  BY <1>1, <1>3 DEF Types
<1>5. event' \in [Proc -> Event] /\ \A q \in live \ {p} : event'[q] = event[q]
  <2>1. CASE BeginAppend(p)
    <3>1. PICK r \in Run :
            event' = [event EXCEPT ![p] = [run |-> r, sequence |-> 0, previous |-> 0]]
      BY <2>1 DEF BeginAppend
    <3>2. QED
      BY <1>1, <3>1 DEF Types, Event
  <2>2. CASE event' = event
    BY <2>2 DEF Types
  <2>3. QED
    BY <2>1, <2>2 DEF TakeLock, SeeDeadOwner, BreakLock, GiveUp
<1>6. Position'
  <2>1. \A r : OfRun(r)' = OfRun(r)
    BY <1>1 DEF OfRun
  <2>2. QED
    BY <1>1, <1>3, <1>4, <1>5, <2>1 DEF Position, Verifies
<1>7. CASE ~BreakLock(p) /\ ~SeeDeadOwner(p) /\ ~TakeLock(p)
  <2>1. s \in {"lock", "idle"} /\ lock' = lock
    BY <1>1, <1>3, <1>4, <1>7 DEF BeginAppend, GiveUp, locks, Types
  <2>2. (Types /\ Exclusion)'
    BY <1>1, <1>3, <1>4, <1>5, <2>1 DEF Types, Exclusion, AppendSteps, Holding
  <2>3. QED
    BY <1>2, <1>6, <2>2
<1>8. CASE TakeLock(p)
  <2>1. lock = Nobody /\ lock' = p /\ s = "read"
    BY <1>1, <1>3, <1>4, <1>8 DEF TakeLock, Types
  <2>2. \A q \in live : appender[q] \notin Holding
    BY <2>1, JournalAssumption DEF Types, Exclusion
  <2>3. (Types /\ Exclusion)'
    BY <1>1, <1>3, <1>4, <1>5, <2>1, <2>2 DEF Types, Exclusion, AppendSteps, Holding
  <2>4. QED
    BY <1>2, <1>6, <2>3
<1>9. CASE SeeDeadOwner(p)
  <2>1. lock \in Proc /\ lock \notin live /\ lock' = lock /\ s = "break"
    BY <1>1, <1>3, <1>4, <1>9 DEF SeeDeadOwner, OwnerGone, Types, locks
  <2>2. live = {p}
    BY <1>1, <2>1 DEF TwoIfKilled, Types
  <2>3. (Types /\ Exclusion)'
    BY <1>1, <1>3, <1>4, <1>5, <2>1, <2>2 DEF Types, Exclusion, AppendSteps, Holding
  <2>4. QED
    BY <1>2, <1>6, <2>3
<1>10. CASE BreakLock(p)
  <2>1. lock' = Nobody /\ s = "lock" /\ live = {p}
    BY <1>1, <1>3, <1>4, <1>10 DEF BreakLock, At, Types, Exclusion
  <2>2. (Types /\ Exclusion)'
    BY <1>1, <1>3, <1>4, <1>5, <2>1 DEF Types, Exclusion, AppendSteps, Holding
  <2>3. QED
    BY <1>2, <1>6, <2>2
<1>11. QED
  BY <1>7, <1>8, <1>9, <1>10

\* The event to append is chained to the journal that was verified.
LEMMA ReadStep ==
  ASSUME JournalInv, NEW p \in Proc, ReadVerified(p) PROVE JournalInv'
<1> USE DEF JournalInv
<1>1. /\ UNCHANGED <<journal, cut, head, acked, lock, live>>
      /\ p \in live /\ p \in Proc /\ appender[p] = "read"
      /\ \/ /\ Verifies /\ appender' = [appender EXCEPT ![p] = "line"]
            /\ event' = [event EXCEPT ![p] = Chained(event[p].run)]
         \/ appender' = [appender EXCEPT ![p] = "failed"] /\ event' = event
  BY DEF ReadVerified, At, Goes, disk, locks
<1>2. event[p].run \in Run
  BY DEF Types, Event
<1>3. Chained(event[p].run) \in Event
  <2>1. Len(journal) \in Nat
    BY DEF Types, Events
  <2>2. Chained(event[p].run).sequence \in Nat
    BY <1>2, ChainedIsNext
  <2>3. QED
    BY <1>2, <2>1, <2>2 DEF Chained, Event
<1>4. Types' /\ Exclusion'
  BY <1>1, <1>3 DEF Types, Exclusion, AppendSteps, Holding
<1>5. Position'
  <2>1. CASE appender' = [appender EXCEPT ![p] = "failed"] /\ event' = event
    BY <1>1, <2>1 DEF Position, Verifies, OfRun, Types
  <2>2. CASE /\ Verifies /\ appender' = [appender EXCEPT ![p] = "line"]
             /\ event' = [event EXCEPT ![p] = Chained(event[p].run)]
    <3>1. event'[p] = Chained(event[p].run) /\ \A q \in Proc \ {p} : event'[q] = event[q]
      BY <2>2 DEF Types
    <3>2. /\ event'[p].run = event[p].run /\ event'[p].previous = Len(journal)
          /\ event'[p].sequence = Cardinality(OfRun(event[p].run)) + 1
      BY <1>2, <3>1, ChainedIsNext
    <3>3. \A r : OfRun(r)' = OfRun(r)
      BY <1>1 DEF OfRun
    <3>4. QED
      BY <1>1, <2>2, <3>1, <3>2, <3>3 DEF Position, Verifies, Types
  <2>3. QED
    BY <1>1, <2>1, <2>2
<1>6. (Bounded /\ OneChain /\ AcknowledgedIsCovered)'
  BY <1>1 DEF Bounded, OfRun, OneChain, AcknowledgedIsCovered
<1>7. QED
  BY <1>4, <1>5, <1>6

\* The appended line continues the chain and the numbers of its run.
LEMMA AppendLineStep ==
  ASSUME JournalInv, NEW p \in Proc, AppendLine(p) PROVE JournalInv'
<1> USE DEF JournalInv
<1> DEFINE e == event[p]
           n == Len(journal)
<1>1. /\ p \in live /\ appender[p] = "line" /\ journal' = Append(journal, e) /\ appender' = [appender EXCEPT ![p] = "head"]
      /\ UNCHANGED <<head, lock, live, event, acked>>
  BY DEF AppendLine, At, Goes, locks
<1>2. /\ head = journal /\ e.previous = n
      /\ e.sequence = Cardinality(OfRun(e.run)) + 1
  BY <1>1 DEF Position, Verifies
<1>3. journal \in Events /\ e \in Event /\ e.run \in Run /\ n \in Nat /\ DOMAIN journal = 1..n
  BY DEF Types, Event, Events
<1>4. /\ journal' \in Events /\ DOMAIN journal' = 1..(n + 1)
      /\ \A i \in 1..n : journal'[i] = journal[i]
      /\ journal'[n + 1] = e
  BY <1>1, <1>3, AppendFacts
<1>5. (Types /\ Exclusion)'
  BY <1>1, <1>4 DEF Types, Exclusion, AppendSteps, Holding
<1>6. Position'
  <2>1. \A q \in live \ {p} : appender'[q] \notin {"line", "head", "appended"}
    BY <1>1 DEF Types, Exclusion, Holding
  <2>2. appender'[p] = "head" /\ journal' = Append(head', event'[p]) /\ event'[p].previous = Len(head')
    BY <1>1, <1>2 DEF Types
  <2>3. QED
    BY <1>1, <2>1, <2>2 DEF Position
<1>7. \A r \in Run : OfRun(r)' = IF r = e.run THEN OfRun(r) \cup {n + 1} ELSE OfRun(r)
  BY <1>3, <1>4 DEF OfRun
<1>8. Bounded'
  <2> SUFFICES ASSUME NEW r \in Run, OfRun(r)' # {}
               PROVE  \E k \in OfRun(r)' : \A i \in OfRun(r)' : i <= k
    BY DEF Bounded
  <2>1. OfRun(r) \subseteq 1..n
    BY <1>3 DEF OfRun
  <2>2. CASE r = e.run
    <3>1. n + 1 \in OfRun(r)' /\ \A i \in OfRun(r)' : i \in 1..(n + 1)
      BY <1>3, <1>7, <2>1, <2>2
    <3>2. QED
      BY <1>3, <3>1
  <2>3. CASE r # e.run
    BY <1>7, <2>3 DEF Bounded
  <2>4. QED
    BY <2>2, <2>3
<1>9. OneChain'
  <2> SUFFICES ASSUME NEW i \in 1..(n + 1)
               PROVE  /\ journal'[i].previous = i - 1
                      /\ journal'[i].sequence
                           = Cardinality({j \in 1..i : journal'[j].run = journal'[i].run})
    BY <1>4 DEF OneChain
  <2>1. CASE i \in 1..n
    <3>1. {j \in 1..i : journal'[j].run = journal'[i].run}
            = {j \in 1..i : journal[j].run = journal[i].run}
      BY <1>3, <1>4, <2>1
    <3>2. QED
      BY <1>3, <1>4, <2>1, <3>1 DEF OneChain
  <2>2. CASE i = n + 1
    <3>1. {j \in 1..i : journal'[j].run = journal'[i].run} = OfRun(e.run) \cup {n + 1}
      BY <1>3, <1>4, <2>2 DEF OfRun
    <3>2. IsFiniteSet(OfRun(e.run)) /\ n + 1 \notin OfRun(e.run)
      <4>1. n + 1 \notin OfRun(e.run)
        BY <1>3 DEF OfRun
      <4>2. IsFiniteSet(OfRun(e.run))
        BY <1>3, ChainedIsNext
      <4>3. QED
        BY <4>1, <4>2
    <3>3. Cardinality(OfRun(e.run) \cup {n + 1}) = Cardinality(OfRun(e.run)) + 1
      BY <3>2, FS_AddElement
    <3>4. /\ journal'[i].previous = n
          /\ journal'[i].sequence = Cardinality(OfRun(e.run)) + 1
      BY <1>2, <1>4, <2>2
    <3>5. journal'[i].previous = i - 1
      BY <1>3, <2>2, <3>4
    <3>6. journal'[i].sequence = Cardinality({j \in 1..i : journal'[j].run = journal'[i].run})
      BY <3>1, <3>3, <3>4, Zenon
    <3>7. QED
      BY <3>5, <3>6
  <2>3. QED
    BY <1>3, <2>1, <2>2
<1>10. AcknowledgedIsCovered'
  BY <1>1 DEF AcknowledgedIsCovered
<1>11. QED
  BY <1>5, <1>6, <1>8, <1>9, <1>10

\* Whatever becomes of the write, the head covers what it covered, and now perhaps all.
LEMMA HeadGrows ==
  ASSUME JournalInv, NEW q \in live, appender[q] = "head", head' \in {head, Covered(q)},
         journal' = journal, acked' = acked
  PROVE  /\ head' \in Events
         /\ AcknowledgedIsCovered'
         /\ head' = Covered(q) => \E i \in DOMAIN head' : head'[i] = event[q]
<1> USE DEF JournalInv
<1>1. Covered(q) = journal /\ journal = Append(head, event[q])
  BY CoveredIsJournal
<1>2. journal \in Events /\ head \in Events /\ event[q] \in Event
  <2>1. q \in Proc
    BY DEF Types
  <2>2. QED
    BY <2>1 DEF Types
<1>3. /\ DOMAIN journal = DOMAIN head \cup {Len(head) + 1}
      /\ \A i \in DOMAIN head : journal[i] = head[i]
      /\ journal[Len(head) + 1] = event[q]
  BY <1>1, <1>2, AppendFacts
<1>4. QED
  BY <1>1, <1>2, <1>3 DEF AcknowledgedIsCovered

\* Writing the head, its failure, and a sweep of its temporary file.
LEMMA HeadStep ==
  ASSUME JournalInv, NEW p \in Proc, WriteHead(p) \/ Release(p) \/ Sweep(p) PROVE JournalInv'
<1> USE DEF JournalInv
<1>1. UNCHANGED <<journal, cut, live, event>> /\ p \in live
  BY DEF WriteHead, Release, Sweep, At, disk, locks
<1>2. (Bounded /\ OneChain)'
  <2>1. Bounded /\ OneChain /\ journal' = journal
    BY <1>1
  <2>2. QED
    BY <2>1 DEF Bounded, OfRun, OneChain
<1>3. \A r : OfRun(r)' = OfRun(r)
  BY <1>1 DEF OfRun
<1>4. CASE Release(p)
  <2>1. /\ appender[p] \in {"appended", "failed"} /\ appender' = [appender EXCEPT ![p] = "idle"]
        /\ lock' = Nobody /\ head' = head
        /\ acked' = IF appender[p] = "appended" THEN acked \cup {event[p]} ELSE acked
    BY <1>4 DEF Release, Goes, disk
  <2>2. (Types /\ Exclusion)'
    BY <1>1, <2>1 DEF Types, Exclusion, AppendSteps, Holding
  <2>3. Position'
    BY <1>1, <1>3, <2>1 DEF Position, Verifies, Types
  <2>4. AcknowledgedIsCovered'
    BY <1>1, <2>1 DEF AcknowledgedIsCovered, Position
  <2>5. QED
    BY <1>2, <2>2, <2>3, <2>4
<1>5. CASE WriteHead(p)
  <2>1. /\ appender[p] = "head" /\ UNCHANGED <<lock, acked>>
        /\ \/ head' = Covered(p) /\ appender' = [appender EXCEPT ![p] = "appended"]
           \/ head' = head /\ appender' = [appender EXCEPT ![p] = "failed"]
    BY <1>5 DEF WriteHead, At, Goes, locks
  <2>2. /\ head' \in Events /\ AcknowledgedIsCovered'
        /\ head' = Covered(p) => \E i \in DOMAIN head' : head'[i] = event[p]
    BY <1>1, <2>1, HeadGrows
  <2>3. (Types /\ Exclusion)'
    BY <1>1, <2>1, <2>2 DEF Types, Exclusion, AppendSteps, Holding
  <2>4. \A q \in live \ {p} : appender'[q] \notin Holding
    BY <1>1, <2>1 DEF Types, Exclusion, Holding
  <2>5. Position'
    BY <1>1, <2>1, <2>2, <2>4 DEF Position, Types, Holding
  <2>6. QED
    BY <1>2, <2>2, <2>3, <2>5
<1>6. CASE Sweep(p)
  <2>1. CASE UNCHANGED <<head, appender>>
    <3>1. UNCHANGED <<lock, acked>>
      BY <1>6 DEF Sweep, locks
    <3>2. QED
      BY <1>1, <1>2, <1>3, <2>1, <3>1 DEF Types, Exclusion, Position, Verifies, AcknowledgedIsCovered
  <2>2. ASSUME NEW q \in live, appender[q] = "head", Goes(q, "failed"), head' \in {head, Covered(q)}
        PROVE  JournalInv'
    <3>1. UNCHANGED <<lock, acked>> /\ q \in Proc
      BY <1>6, <2>2 DEF Sweep, locks, Types
    <3>2. head' \in Events /\ AcknowledgedIsCovered'
      BY <1>1, <2>2, <3>1, HeadGrows
    <3>3. (Types /\ Exclusion)'
      BY <1>1, <2>2, <3>1, <3>2 DEF Types, Exclusion, AppendSteps, Holding, Goes
    <3>4. \A other \in live : appender'[other] \notin {"line", "head", "appended"}
      BY <2>2, <3>1 DEF Types, Exclusion, Holding, Goes
    <3>5. QED
      BY <1>1, <1>2, <3>2, <3>3, <3>4 DEF Position
  <2>3. QED
    BY <1>6, <2>1, <2>2 DEF Sweep
<1>7. QED
  BY <1>4, <1>5, <1>6

\* What a killed process leaves is no more than it could have written.
LEMMA KillStep ==
  ASSUME JournalInv, NEW p \in Proc, KillAppender(p) PROVE JournalInv'
<1> USE DEF JournalInv
<1>1. /\ Crashes /\ p \in live /\ live' = live \ {p}
      /\ UNCHANGED <<journal, appender, event, acked>>
  BY DEF KillAppender, disk
<1>2. (Bounded /\ OneChain)'
  <2>1. Bounded /\ OneChain /\ journal' = journal
    BY <1>1
  <2>2. QED
    BY <2>1 DEF Bounded, OfRun, OneChain
<1>3. CASE UNCHANGED <<disk, locks>>
  <2>1. UNCHANGED <<head, cut, lock>>
    BY <1>3 DEF disk, locks
  <2>2. Types' /\ Exclusion' /\ AcknowledgedIsCovered'
    BY <1>1, <2>1 DEF Types, Exclusion, AcknowledgedIsCovered
  <2>3. Position'
    <3>1. \A r : OfRun(r)' = OfRun(r)
      BY <1>1 DEF OfRun
    <3>2. QED
      BY <1>1, <2>1, <3>1 DEF Position, Verifies
  <2>4. QED
    BY <1>2, <2>2, <2>3
<1>4. CASE ~UNCHANGED <<disk, locks>>
  <2>1. /\ lock = p /\ lock' \in {lock, Nobody}
        /\ head' = head \/ (appender[p] = "head" /\ head' \in {head, Covered(p)})
    BY <1>1, <1>4 DEF KillAppender, disk, locks, Exclusion, Holding
  <2>2. \A q \in live' : appender'[q] \notin Holding /\ appender'[q] # "break"
    BY <1>1, <2>1 DEF Exclusion
  <2>3. Position' /\ Exclusion'
    BY <2>2 DEF Position, Exclusion, Holding
  <2>4. head' \in Events /\ AcknowledgedIsCovered'
    <3>1. CASE head' = head
      BY <1>1, <3>1 DEF Types, AcknowledgedIsCovered
    <3>2. CASE appender[p] = "head" /\ head' \in {head, Covered(p)}
      BY <1>1, <3>2, HeadGrows
    <3>3. QED
      BY <2>1, <3>1, <3>2
  <2>5. Types'
    BY <1>1, <2>1, <2>4 DEF Types
  <2>6. QED
    BY <1>2, <2>3, <2>4, <2>5
<1>5. QED
  BY <1>3, <1>4

\* The invariant holds of an empty journal and is kept by every step.
LEMMA JournalInvariant == ASSUME TwoIfKilled PROVE JournalSpec => []JournalInv
<1>1. JournalInit => JournalInv
  <2> SUFFICES ASSUME JournalInit PROVE JournalInv
    OBVIOUS
  <2>1. journal = <<>> /\ head = <<>> /\ <<>> \in Events /\ acked = {}
    BY DEF JournalInit, Events
  <2>2. event \in [Proc -> Event]
    <3>1. (CHOOSE r \in Run : TRUE) \in Run
      BY JournalAssumption
    <3>2. QED
      BY <3>1 DEF JournalInit, Event
  <2>3. Types /\ Exclusion /\ Position
    BY <2>1, <2>2 DEF JournalInit, Types, Exclusion, Position, AppendSteps, Holding
  <2>4. Bounded /\ OneChain /\ AcknowledgedIsCovered
    BY <2>1 DEF Bounded, OfRun, OneChain, AcknowledgedIsCovered
  <2>5. QED
    BY <2>3, <2>4 DEF JournalInv
<1>2. JournalInv /\ [JournalNext]_journalVars => JournalInv'
  <2>1. ASSUME JournalInv, JournalNext PROVE JournalInv'
    BY <2>1, LockingStep, ReadStep, AppendLineStep, HeadStep, KillStep DEF JournalNext
  <2>2. ASSUME JournalInv, UNCHANGED journalVars PROVE JournalInv'
    <3>1. UNCHANGED <<journal, cut, head, lock, live, appender, event, acked>>
      BY <2>2 DEF journalVars, disk, locks
    <3>2. (Types /\ Exclusion /\ AcknowledgedIsCovered)'
      BY <2>2, <3>1 DEF JournalInv, Types, Exclusion, AcknowledgedIsCovered
    <3>3. (Position /\ Bounded)'
      <4>1. \A r : OfRun(r)' = OfRun(r)
        BY <3>1 DEF OfRun
      <4>2. QED
        BY <2>2, <3>1, <4>1 DEF JournalInv, Position, Verifies, Bounded
    <3>4. OneChain'
      BY <2>2, <3>1 DEF JournalInv, OneChain
    <3>5. QED
      BY <3>2, <3>3, <3>4 DEF JournalInv
  <2>3. QED
    BY <2>1, <2>2
<1>3. QED
  BY <1>1, <1>2, PTL DEF JournalSpec

\* However many processes append the events of however many runs, or two of them that may be
\* killed: the journal is one chain without gaps.  The position of the holder, Position, is what
\* makes it inductive: sequence and predecessor are read one step before the line is written.
THEOREM JournalIsOneChain == ASSUME TwoIfKilled PROVE JournalSpec => []OneChain
BY JournalInvariant, PTL DEF JournalInv

\* The head covers every event whose append returned, whatever a kill or a sweep leaves of it.
THEOREM AcknowledgedEventsAreCovered == ASSUME TwoIfKilled PROVE JournalSpec => []AcknowledgedIsCovered
BY JournalInvariant, PTL DEF JournalInv

\* A journal that does not verify is never extended: between the verification and the line
\* nothing can come in that would make it fail (appendEvent).
THEOREM BrokenJournalsStay == ASSUME TwoIfKilled PROVE JournalSpec => NothingAfterABreak
<1>1. JournalInv /\ [JournalNext]_journalVars =>
        [~Verifies /\ (\A p \in live : appender[p] # "head") => journal' = journal]_journalVars
  <2> SUFFICES ASSUME JournalInv, JournalNext, ~Verifies
               PROVE  journal' = journal
    BY DEF JournalNext
  <2>1. ASSUME NEW p \in Proc PROVE ~AppendLine(p)
    BY DEF AppendLine, At, JournalInv, Position
  <2>2. QED
    BY <2>1 DEF JournalNext, BeginAppend, TakeLock, SeeDeadOwner, BreakLock, GiveUp, ReadVerified,
       WriteHead, Release, Sweep, KillAppender, disk
<1>2. QED
  BY <1>1, JournalInvariant, PTL DEF JournalSpec, NothingAfterABreak
(***************************************************************************)
(* The types, which need neither the lock nor the chain.                   *)
(***************************************************************************)
\* The numbers of a run have a highest one, and nobody has read more than there is.
HasHighest(r) ==
  \E n \in {0} \cup {journal[i].sequence : i \in OfRun(r)} :
    \A i \in OfRun(r) : journal[i].sequence <= n

JournalTypesInv ==
  /\ JournalTypeOK
  /\ \A r \in Run : HasHighest(r)
  /\ \A p \in Proc : event[p].previous <= Len(journal)

\* The next event of a run is an event, whatever the journal is (appendEvent).
LEMMA ChainedIsEvent ==
  ASSUME JournalTypesInv, NEW r \in Run
  PROVE  Chained(r) \in Event /\ Chained(r).previous = Len(journal)
<1> DEFINE Q == {0} \cup {journal[i].sequence : i \in OfRun(r)}
           last == CHOOSE n \in Q : \A i \in OfRun(r) : journal[i].sequence <= n
<1>1. Len(journal) \in Nat /\ \A i \in DOMAIN journal : journal[i] \in Event
  BY DEF JournalTypesInv, JournalTypeOK, Events
<1>2. Q \subseteq Nat
  BY <1>1 DEF OfRun, Event
<1>3. last \in Q
  BY DEF JournalTypesInv, HasHighest
<1>4. Chained(r) = [run |-> r, sequence |-> last + 1, previous |-> Len(journal)]
  BY DEF Chained
<1> HIDE DEF last
<1>5. last + 1 \in Nat
  BY <1>2, <1>3
<1> QED
  BY <1>1, <1>4, <1>5 DEF Event

\* What a head write covers is a sequence of events, even if the journal has grown since.
LEMMA CoveredIsEvents ==
  ASSUME JournalTypesInv, NEW p \in Proc
  PROVE  Covered(p) \in Events
<1>1. event[p] \in Event /\ event[p].previous \in Nat /\ event[p].previous <= Len(journal)
  BY DEF JournalTypesInv, JournalTypeOK, Event
<1>2. journal \in Seq(Event)
  BY DEF JournalTypesInv, JournalTypeOK, Events
<1>3. SubSeq(journal, 1, event[p].previous) \in Seq(Event)
  BY <1>1, <1>2
<1> QED
  BY <1>1, <1>3 DEF Covered, Events

\* Every step keeps the types.
LEMMA JournalTypesKeep ==
  ASSUME JournalTypesInv, [JournalNext]_journalVars
  PROVE  JournalTypesInv'
<1> USE DEF Goes, At, disk, locks
<1>0. JournalTypeOK
  BY DEF JournalTypesInv
<1>1. ASSUME journal' = journal, \A p \in Proc : event'[p].previous <= Len(journal), JournalTypeOK'
      PROVE  JournalTypesInv'
  BY <1>1 DEF JournalTypesInv, HasHighest, OfRun
<1>2. ASSUME NEW p \in Proc, BeginAppend(p)
      PROVE  JournalTypesInv'
  <2>1. PICK r \in Run : event' = [event EXCEPT ![p] = [run |-> r, sequence |-> 0, previous |-> 0]]
    BY <1>2 DEF BeginAppend
  <2>2. event' \in [Proc -> Event] /\ \A q \in Proc : event'[q].previous <= Len(journal)
    BY <1>0, <2>1 DEF JournalTypeOK, Event, Events, JournalTypesInv
  <2>3. JournalTypeOK'
    BY <1>0, <1>2, <2>2 DEF BeginAppend, JournalTypeOK, AppendSteps
  <2> QED
    BY <1>1, <1>2, <2>2, <2>3 DEF BeginAppend
<1>3. ASSUME NEW p \in Proc, TakeLock(p) \/ SeeDeadOwner(p) \/ BreakLock(p) \/ GiveUp(p)
      PROVE  JournalTypesInv'
  <2>1. JournalTypeOK'
    BY <1>0, <1>3 DEF TakeLock, SeeDeadOwner, BreakLock, GiveUp, JournalTypeOK, AppendSteps
  <2> QED
    BY <1>1, <1>3, <2>1 DEF TakeLock, SeeDeadOwner, BreakLock, GiveUp, JournalTypesInv
<1>4. ASSUME NEW p \in Proc, ReadVerified(p)
      PROVE  JournalTypesInv'
  <2>1. event[p].run \in Run
    BY <1>0 DEF JournalTypeOK, Event
  <2>2. event' = event \/ event' = [event EXCEPT ![p] = Chained(event[p].run)]
    BY <1>4 DEF ReadVerified
  <2>3. event' \in [Proc -> Event] /\ \A q \in Proc : event'[q].previous <= Len(journal)
    <3>1. Len(journal) \in Nat
      BY <1>0 DEF JournalTypeOK, Events
    <3> QED
      BY <1>0, <2>1, <2>2, <3>1, ChainedIsEvent DEF JournalTypeOK, JournalTypesInv
  <2>4. JournalTypeOK'
    BY <1>0, <1>4, <2>3 DEF ReadVerified, JournalTypeOK, AppendSteps
  <2> QED
    BY <1>1, <1>4, <2>3, <2>4 DEF ReadVerified
<1>5. ASSUME NEW p \in Proc, AppendLine(p)
      PROVE  JournalTypesInv'
  <2>1. /\ journal \in Events /\ event[p] \in Event /\ event' = event
        /\ journal' = Append(journal, event[p])
    BY <1>0, <1>5 DEF AppendLine, JournalTypeOK
  <2>2. /\ journal' \in Events /\ Len(journal') = Len(journal) + 1 /\ Len(journal) \in Nat
        /\ DOMAIN journal' = DOMAIN journal \cup {Len(journal) + 1}
        /\ \A i \in DOMAIN journal : journal'[i] = journal[i]
        /\ journal'[Len(journal) + 1] = event[p]
    BY <2>1, AppendFacts DEF Events
  <2>3. JournalTypeOK'
    BY <1>0, <1>5, <2>2 DEF AppendLine, JournalTypeOK, AppendSteps
  <2>4. \A q \in Proc : event'[q].previous <= Len(journal')
    BY <1>0, <2>1, <2>2 DEF JournalTypesInv, JournalTypeOK, Event
  <2>5. ASSUME NEW r \in Run
        PROVE  HasHighest(r)'
    <3>1. PICK n \in {0} \cup {journal[i].sequence : i \in OfRun(r)} :
            \A i \in OfRun(r) : journal[i].sequence <= n
      BY DEF JournalTypesInv, HasHighest
    <3>2. \A i \in DOMAIN journal : journal[i].sequence \in Nat
      <4>1. \A i \in DOMAIN journal : journal[i] \in Event
        BY <2>1 DEF Events
      <4> QED
        BY <4>1 DEF Event
    <3>3. n \in Nat /\ event[p].sequence \in Nat
      BY <2>1, <3>2 DEF OfRun, Event
    <3>4. /\ \A i \in OfRun(r) : i \in OfRun(r)' /\ journal'[i].sequence = journal[i].sequence
          /\ \A i \in OfRun(r)' : i \in OfRun(r) \/ (i = Len(journal) + 1 /\ event[p].run = r)
          /\ event[p].run = r => Len(journal) + 1 \in OfRun(r)'
      BY <2>2 DEF OfRun
    <3>5. CASE event[p].run = r /\ n <= event[p].sequence
      <4>1. \A i \in OfRun(r)' : journal'[i].sequence <= event[p].sequence
        <5> TAKE i \in OfRun(r)'
        <5>1. CASE i \in OfRun(r)
          <6>1. journal[i].sequence <= n /\ journal[i].sequence \in Nat
            BY <3>1, <3>2, <5>1 DEF OfRun
          <6> QED
            BY <3>3, <3>4, <3>5, <5>1, <6>1
        <5>2. CASE i = Len(journal) + 1
          BY <2>2, <3>3, <5>2
        <5> QED
          BY <3>4, <5>1, <5>2
      <4>2. event[p].sequence \in {0} \cup {journal'[i].sequence : i \in OfRun(r)'}
        BY <2>2, <3>4, <3>5
      <4> QED
        BY <4>1, <4>2 DEF HasHighest
    <3>6. CASE ~(event[p].run = r /\ n <= event[p].sequence)
      <4>1. \A i \in OfRun(r)' : journal'[i].sequence <= n
        BY <2>2, <3>1, <3>3, <3>4, <3>6
      <4>2. n \in {0} \cup {journal'[i].sequence : i \in OfRun(r)'}
        BY <3>1, <3>4
      <4> QED
        BY <4>1, <4>2 DEF HasHighest
    <3> QED
      BY <3>5, <3>6
  <2> QED
    BY <2>3, <2>4, <2>5 DEF JournalTypesInv
<1>6. ASSUME NEW p \in Proc, WriteHead(p)
      PROVE  JournalTypesInv'
  <2>1. head' \in Events
    BY <1>0, <1>6, CoveredIsEvents DEF WriteHead, JournalTypeOK
  <2>2. JournalTypeOK'
    BY <1>0, <1>6, <2>1 DEF WriteHead, JournalTypeOK, AppendSteps
  <2> QED
    BY <1>1, <1>6, <2>2 DEF WriteHead, JournalTypesInv
<1>7. ASSUME NEW p \in Proc, Release(p)
      PROVE  JournalTypesInv'
  <2>1. JournalTypeOK'
    BY <1>0, <1>7 DEF Release, JournalTypeOK, AppendSteps
  <2> QED
    BY <1>1, <1>7, <2>1 DEF Release, JournalTypesInv
<1>8. ASSUME NEW p \in Proc, Sweep(p)
      PROVE  JournalTypesInv'
  <2>1. /\ \A q \in live : q \in Proc
        /\ head' = head \/ \E q \in live : head' = Covered(q)
    BY <1>0, <1>8 DEF Sweep, JournalTypeOK
  <2>2. head' \in Events
    BY <1>0, <2>1, CoveredIsEvents DEF JournalTypeOK
  <2>3. appender' \in [Proc -> AppendSteps]
    BY <1>0, <1>8 DEF Sweep, JournalTypeOK, AppendSteps
  <2>4. JournalTypeOK'
    BY <1>0, <1>8, <2>2, <2>3 DEF Sweep, JournalTypeOK
  <2> QED
    BY <1>1, <1>8, <2>4 DEF Sweep, JournalTypesInv
<1>9. ASSUME NEW p \in Proc, KillAppender(p)
      PROVE  JournalTypesInv'
  <2>1. head' \in Events /\ journal' = journal
    BY <1>0, <1>9, CoveredIsEvents DEF KillAppender, JournalTypeOK
  <2>2. JournalTypeOK'
    BY <1>0, <1>9, <2>1 DEF KillAppender, JournalTypeOK
  <2> QED
    BY <1>1, <1>9, <2>1, <2>2 DEF KillAppender, JournalTypesInv
<1>10. CASE UNCHANGED journalVars
  <2>1. JournalTypeOK'
    BY <1>0, <1>10 DEF journalVars, JournalTypeOK
  <2> QED
    BY <1>1, <1>10, <2>1 DEF journalVars, JournalTypesInv
<1> QED
  BY <1>2, <1>3, <1>4, <1>5, <1>6, <1>7, <1>8, <1>9, <1>10 DEF JournalNext

\* Every variable of the journal keeps its type, for any number of processes and kills, also
\* where two hold the lock and the chain breaks (appendEvent).
THEOREM JournalTypesHold == JournalSpec => []JournalTypeOK
<1>1. JournalInit => JournalTypesInv
  <2> SUFFICES ASSUME JournalInit PROVE JournalTypesInv
    OBVIOUS
  <2>1. (CHOOSE r \in Run : TRUE) \in Run
    BY JournalAssumption
  <2>2. event \in [Proc -> Event] /\ \A p \in Proc : event[p].previous = 0
    BY <2>1 DEF JournalInit, Event
  <2>3. <<>> \in Events /\ Len(<<>>) = 0 /\ DOMAIN <<>> = {}
    BY DEF Events
  <2>4. JournalTypeOK
    BY <2>2, <2>3 DEF JournalInit, JournalTypeOK, AppendSteps
  <2>5. \A r \in Run : HasHighest(r)
    BY <2>3 DEF JournalInit, HasHighest, OfRun
  <2> QED
    BY <2>2, <2>3, <2>4, <2>5 DEF JournalInit, JournalTypesInv
<1>2. JournalTypesInv => JournalTypeOK
  BY DEF JournalTypesInv
<1> QED
  BY <1>1, <1>2, JournalTypesKeep, PTL DEF JournalSpec
=============================================================================
