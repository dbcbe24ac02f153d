---------------------------- MODULE EventJournal ----------------------------
(***************************************************************************)
(* .dokion/events.ndjson and the head of its hash chain: appendEvent of    *)
(* src/state/event-log.ts under its append lock, with the verification of  *)
(* src/state/event-chain.ts before and the new head after every line.      *)
(*                                                                         *)
(* A digest is abstracted to what it determines, the position of the event *)
(* before; the head to the events it covers.  The head is an atomic file   *)
(* like the state (module StateStore has the steps): here its write either *)
(* happens or throws, and it throws because of files a killed writer left  *)
(* behind or because a recovery sweeps its temporary file away.            *)
(***************************************************************************)
EXTENDS Integers, Sequences, FiniteSets

CONSTANTS
  Proc,      \* processes that append events
  Nobody,    \* not a process
  Run,       \* ids of runs
  Crashes,   \* whether processes may be killed
  MaxEvents  \* bound: no append begins on a journal of this length

ASSUME JournalAssumption ==
  /\ Nobody \notin Proc /\ Run # {}
  /\ Crashes \in BOOLEAN
  /\ MaxEvents \in Nat

VARIABLES
  journal,   \* the whole lines of events.ndjson
  cut,       \* whether an incomplete line follows them
  head,      \* the events that events.head.json covers
  leftover,  \* a killed writer left events.head.json.tmp or its metadata
  lock,      \* whose record the append lock holds
  unsigned,  \* the lock file exists without a record
  live, appender,
  event,     \* the event a process appends
  acked      \* events whose append returned

disk  == <<journal, cut, head, leftover>>
locks == <<lock, unsigned>>
journalVars  == <<disk, locks, live, appender, event, acked>>

At(p, l)   == p \in live /\ appender[p] = l
Goes(p, l) == appender' = [appender EXCEPT ![p] = l]

(***************************************************************************)
(* withAppendLock.                                                         *)
(***************************************************************************)
BeginAppend(p) ==
  /\ At(p, "idle") /\ Len(journal) < MaxEvents
  /\ \E r \in Run : event' = [event EXCEPT ![p] = [run |-> r, sequence |-> 0, previous |-> 0]]
  /\ Goes(p, "lock")
  /\ UNCHANGED <<disk, locks, live, acked>>

TakeLock(p) ==
  /\ At(p, "lock") /\ lock = Nobody /\ ~unsigned
  /\ lock' = p
  /\ Goes(p, "read")
  /\ UNCHANGED <<disk, unsigned, live, event, acked>>

\* Bug: the owner is not looked up.
AnyOwnerIsGone == lock # Nobody

OwnerGone == lock \notin live \cup {Nobody}

\* Seen now, removed later: rm takes whatever lock file is there by then.
SeeDeadOwner(p) ==
  /\ At(p, "lock") /\ OwnerGone
  /\ Goes(p, "break")
  /\ UNCHANGED <<disk, locks, live, event, acked>>

BreakLock(p) ==
  /\ At(p, "break")
  /\ lock' = Nobody /\ unsigned' = FALSE
  /\ Goes(p, "lock")
  /\ UNCHANGED <<disk, live, event, acked>>

\* Two seconds have passed.
GiveUp(p) ==
  /\ At(p, "lock") /\ (lock # Nobody \/ unsigned)
  /\ Goes(p, "idle")
  /\ UNCHANGED <<disk, locks, live, event, acked>>

(***************************************************************************)
(* The append: read and verify, write the line, write the head.            *)
(***************************************************************************)
Verifies == ~cut /\ head = journal

OfRun(r) == {i \in DOMAIN journal : journal[i].run = r}

\* One more than the highest sequence of the run, chained to the last event of the journal.
Chained(r) ==
  LET before == OfRun(r)
      last   == CHOOSE n \in {0} \cup {journal[i].sequence : i \in before} :
                  \A i \in before : journal[i].sequence <= n
  IN [run |-> r, sequence |-> last + 1, previous |-> Len(journal)]

\* Bug: the chain is not verified.
ReadUnverified(p) ==
  /\ At(p, "read")
  /\ event' = [event EXCEPT ![p] = Chained(@.run)] /\ Goes(p, "line")
  /\ UNCHANGED <<disk, locks, live, acked>>

ReadVerified(p) ==
  /\ At(p, "read")
  /\ \/ Verifies /\ event' = [event EXCEPT ![p] = Chained(@.run)] /\ Goes(p, "line")
     \/ ~Verifies /\ event' = event /\ Goes(p, "failed")           \* INVALID_EVENT
  /\ UNCHANGED <<disk, locks, live, acked>>

AppendLine(p) ==
  /\ At(p, "line")
  /\ journal' = Append(journal, event[p])
  /\ Goes(p, "head")
  /\ UNCHANGED <<cut, head, leftover, locks, live, event, acked>>

\* What the process read, and its own event.
Covered(p) == Append(SubSeq(journal, 1, event[p].previous), event[p])

\* Bug: a head that could not be written is ignored.
WriteHeadAnyway(p) ==
  /\ At(p, "head")
  /\ head' = IF leftover THEN head ELSE Covered(p)
  /\ Goes(p, "appended")
  /\ UNCHANGED <<journal, cut, leftover, locks, live, event, acked>>

WriteHead(p) ==
  /\ At(p, "head")
  /\ \/ ~leftover /\ head' = Covered(p) /\ Goes(p, "appended")
     \/ leftover /\ head' = head /\ Goes(p, "failed")              \* EEXIST
  /\ UNCHANGED <<journal, cut, leftover, locks, live, event, acked>>

\* finally: rm(path, force), without a look at the owner; then return or rethrow.
Release(p) ==
  /\ p \in live /\ appender[p] \in {"appended", "failed"}
  /\ lock' = Nobody /\ unsigned' = FALSE
  /\ acked' = IF appender[p] = "appended" THEN acked \cup {event[p]} ELSE acked
  /\ Goes(p, "idle")
  /\ UNCHANGED <<disk, live, event>>

\* recoverAtomicWrites at the start of a command.  Init and reset run it at any time: an
\* append that is writing its head then throws, before its rename or after it.
Sweep(p) ==
  /\ At(p, "idle")
  /\ leftover' = FALSE
  /\ \/ leftover /\ UNCHANGED <<head, appender>>
     \/ \E q \in live :
          /\ appender[q] = "head" /\ Goes(q, "failed")
          /\ head' \in {head, Covered(q)}
  /\ UNCHANGED <<journal, cut, locks, live, event, acked>>

\* Killed with the lock file just created, within its line, or within its head.
KillAppender(p) ==
  /\ Crashes /\ p \in live
  /\ live' = live \ {p}
  /\ \/ UNCHANGED <<disk, locks>>
     \/ /\ appender[p] = "read" /\ lock = p
        /\ lock' = Nobody /\ unsigned' = TRUE
        /\ UNCHANGED disk
     \/ appender[p] = "line" /\ cut' = TRUE /\ UNCHANGED <<journal, head, leftover, locks>>
     \/ /\ appender[p] = "head"
        /\ leftover' = TRUE /\ head' \in {head, Covered(p)}
        /\ UNCHANGED <<journal, cut, locks>>
  /\ UNCHANGED <<appender, event, acked>>

JournalInit ==
  /\ journal = <<>> /\ cut = FALSE /\ head = <<>> /\ leftover = FALSE
  /\ lock = Nobody /\ unsigned = FALSE
  /\ live = Proc
  /\ appender = [p \in Proc |-> "idle"]
  /\ event = [p \in Proc |-> [run |-> CHOOSE r \in Run : TRUE, sequence |-> 0, previous |-> 0]]
  /\ acked = {}

JournalNext ==
  \E p \in Proc :
    \/ BeginAppend(p) \/ TakeLock(p) \/ SeeDeadOwner(p) \/ BreakLock(p) \/ GiveUp(p)
    \/ ReadVerified(p) \/ AppendLine(p) \/ WriteHead(p) \/ Release(p) \/ Sweep(p) \/ KillAppender(p)

JournalSpec == JournalInit /\ [][JournalNext]_journalVars

(***************************************************************************)
(* Properties.                                                             *)
(***************************************************************************)
AppendSteps == {"idle", "lock", "break", "read", "line", "head", "appended", "failed"}
Event == [run : Run, sequence : Nat, previous : Nat]
Events == Seq(Event)

JournalTypeOK ==
  /\ journal \in Events /\ head \in Events
  /\ {cut, leftover, unsigned} \subseteq BOOLEAN
  /\ lock \in Proc \cup {Nobody}
  /\ live \subseteq Proc
  /\ appender \in [Proc -> AppendSteps]
  /\ event \in [Proc -> Event]
  /\ acked \subseteq Event

\* The journal is one chain: every event names the one before it as its predecessor, and the
\* sequence numbers of a run are 1, 2, 3, ... whatever other runs append in between.
OneChain ==
  \A i \in DOMAIN journal :
    /\ journal[i].previous = i - 1
    /\ journal[i].sequence = Cardinality({j \in 1..i : journal[j].run = journal[i].run})

\* An event whose append returned is covered by the head, through crashes and sweeps: the
\* verifier would notice its loss.
AcknowledgedIsCovered == \A e \in acked : \E i \in DOMAIN head : head[i] = e

\* Verification fails closed: a journal that does not verify, and that nobody is about to
\* finish, is never extended again.
NothingAfterABreak ==
  [][~Verifies /\ (\A p \in live : appender[p] # "head") => journal' = journal]_journalVars

\* As long as no process is killed, a journal at rest verifies.
IntactUnlessKilled ==
  live = Proc /\ (\A p \in Proc : appender[p] \in {"idle", "lock"}) => Verifies
=============================================================================
