------------------------------ MODULE FileLock ------------------------------
(***************************************************************************)
(* packages/storage/src/lock.ts: acquireLock and release for one key.      *)
(*                                                                         *)
(* Two files matter.  `lock` is <key>.lock, created by an atomic link of a *)
(* finished record; `mutex` is <key>.lock.reclaim-mutex, which should      *)
(* serialise the decision to clear a stale lock.  A file's content is the  *)
(* process that linked it, or Leftover for what a process that died before *)
(* the run left behind: a record past its TTL, or an unparseable one, which*)
(* readLockRecord turns into null and every caller treats as stale.        *)
(*                                                                         *)
(* Every file-system call is one step; staged payloads (<path>.<uuid>.tmp) *)
(* are private to their process and are left out.  Time shows only as the  *)
(* moment a file's record becomes stale.                                   *)
(***************************************************************************)
EXTENDS Naturals

CONSTANTS
  Procs,         \* processes that call acquireLock for the key
  MaxAttempts,   \* MAX_ATTEMPTS, of both retry loops
  MaxGrants,     \* bound on the grants each process gets
  Releases,      \* TRUE when holders release
  Expires,       \* TRUE when a record may go stale while its writer lives
  MaxCrashes,    \* bound on crashes
  Leftovers      \* the files an earlier process may have left behind

ASSUME LockAssumption ==
  /\ MaxAttempts \in Nat \ {0} /\ MaxGrants \in Nat /\ MaxCrashes \in Nat
  /\ Releases \in BOOLEAN /\ Expires \in BOOLEAN
  /\ Leftovers \subseteq {"lock", "mutex"}

Vacant == "vacant"
Leftover == "leftover"

ASSUME NameAssumption == Vacant \notin Procs /\ Leftover \notin Procs

VARIABLES
  lock, lockStale,     \* the lock file, and whether its record is stale
  mutex, mutexStale,   \* the reclaim mutex, likewise (RECLAIM_MUTEX_STALE_MS)
  pc,                  \* the next file-system call of each process
  tries,               \* acquireWithStagedRecord's attempt counter
  mutexTries,          \* withReclaimMutex's attempt counter
  outcome,             \* what the critical section decided
  existing,            \* the record it is about to clear the lock for
  grants, crashes

vars == <<lock, lockStale, mutex, mutexStale, pc, tries, mutexTries, outcome,
          existing, grants, crashes>>

Files == Procs \cup {Vacant, Leftover}
Record(file, stale) == [file |-> file, stale |-> stale]
Unread == Record(Vacant, FALSE)
Steps == {"idle", "link", "mutexLink", "mutexRead", "mutexClear", "decide",
          "clear", "mutexRelease", "held"}

Init ==
  /\ lock = IF "lock" \in Leftovers THEN Leftover ELSE Vacant
  /\ lockStale = ("lock" \in Leftovers)
  /\ mutex = IF "mutex" \in Leftovers THEN Leftover ELSE Vacant
  /\ mutexStale = ("mutex" \in Leftovers)
  /\ pc = [p \in Procs |-> "idle"]
  /\ tries = [p \in Procs |-> 0]
  /\ mutexTries = [p \in Procs |-> 0]
  /\ outcome = [p \in Procs |-> "live"]
  /\ existing = [p \in Procs |-> Unread]
  /\ grants = [p \in Procs |-> 0]
  /\ crashes = 0

Goto(p, step) == pc' = [pc EXCEPT ![p] = step]

\* acquireLock: the record is staged before the loop begins.  A refused caller
\* may call again, as run-store and narration-journal do.
Acquire(p) ==
  /\ pc[p] = "idle" /\ grants[p] < MaxGrants
  /\ tries' = [tries EXCEPT ![p] = 0]
  /\ Goto(p, "link")
  /\ UNCHANGED <<lock, lockStale, mutex, mutexStale, mutexTries, outcome, existing, grants, crashes>>

\* The loop's exclusive create: granted, or on to the reclaim mutex.
Link(p) ==
  /\ pc[p] = "link" /\ tries[p] < MaxAttempts
  /\ \/ /\ lock = Vacant
        /\ lock' = p /\ lockStale' = FALSE
        /\ grants' = [grants EXCEPT ![p] = @ + 1]
        /\ Goto(p, "held")
        /\ UNCHANGED mutexTries
     \/ /\ lock # Vacant
        /\ mutexTries' = [mutexTries EXCEPT ![p] = 0]
        /\ Goto(p, "mutexLink")
        /\ UNCHANGED <<lock, lockStale, grants>>
  /\ UNCHANGED <<mutex, mutexStale, tries, outcome, existing, crashes>>

\* acquireWithStagedRecord: null after MAX_ATTEMPTS.
GiveUp(p) ==
  /\ pc[p] = "link" /\ tries[p] >= MaxAttempts
  /\ Goto(p, "idle")
  /\ UNCHANGED <<lock, lockStale, mutex, mutexStale, tries, mutexTries, outcome,
                 existing, grants, crashes>>

\* The next iteration of acquireWithStagedRecord, after 'contended' or 'cleared'.
Retry(p) == tries' = [tries EXCEPT ![p] = @ + 1] /\ Goto(p, "link")

\* withReclaimMutex: the exclusive create of the mutex.
MutexLink(p) ==
  /\ pc[p] = "mutexLink" /\ mutexTries[p] < MaxAttempts
  /\ \/ /\ mutex = Vacant
        /\ mutex' = p /\ mutexStale' = FALSE
        /\ Goto(p, "decide")
     \/ /\ mutex # Vacant
        /\ Goto(p, "mutexRead")
        /\ UNCHANGED <<mutex, mutexStale>>
  /\ UNCHANGED <<lock, lockStale, tries, mutexTries, outcome, existing, grants, crashes>>

\* withReclaimMutex: 'contended' after MAX_ATTEMPTS.
MutexGiveUp(p) ==
  /\ pc[p] = "mutexLink" /\ mutexTries[p] >= MaxAttempts
  /\ Retry(p)
  /\ UNCHANGED <<lock, lockStale, mutex, mutexStale, mutexTries, outcome, existing, grants, crashes>>

\* Mutant: an abandoned mutex is never old enough to be cleared.
MutexRead_NoAge(p) ==
  /\ pc[p] = "mutexRead"
  /\ IF mutex = Vacant
       THEN Goto(p, "mutexClear") /\ UNCHANGED tries
       ELSE Retry(p)
  /\ UNCHANGED <<lock, lockStale, mutex, mutexStale, mutexTries, outcome, existing, grants, crashes>>

\* withReclaimMutex: a mutex that is gone by now reads as null, which counts
\* as abandoned exactly like one whose timestamp is too old.
MutexRead(p) ==
  /\ pc[p] = "mutexRead"
  /\ IF mutex = Vacant \/ mutexStale
       THEN Goto(p, "mutexClear") /\ UNCHANGED tries
       ELSE Retry(p)
  /\ UNCHANGED <<lock, lockStale, mutex, mutexStale, mutexTries, outcome, existing, grants, crashes>>

\* withReclaimMutex: the rm of the abandoned mutex, whatever is there now.
MutexClear(p) ==
  /\ pc[p] = "mutexClear"
  /\ mutex' = Vacant /\ mutexStale' = FALSE
  /\ mutexTries' = [mutexTries EXCEPT ![p] = @ + 1]
  /\ Goto(p, "mutexLink")
  /\ UNCHANGED <<lock, lockStale, tries, outcome, existing, grants, crashes>>

\* Mutant: the record's age is not compared with its TTL.
Decide_NoAge(p) ==
  /\ pc[p] = "decide"
  /\ Goto(p, "clear") /\ outcome' = [outcome EXCEPT ![p] = "cleared"]
  /\ existing' = [existing EXCEPT ![p] = Record(lock, lockStale)]
  /\ UNCHANGED <<lock, lockStale, mutex, mutexStale, tries, mutexTries, grants, crashes>>

\* The critical section's read: no record, or one past its TTL, is stale.
Decide(p) ==
  /\ pc[p] = "decide"
  /\ IF lock = Vacant \/ lockStale
       THEN /\ Goto(p, "clear") /\ outcome' = [outcome EXCEPT ![p] = "cleared"]
            /\ existing' = [existing EXCEPT ![p] = Record(lock, lockStale)]
       ELSE /\ Goto(p, "mutexRelease") /\ outcome' = [outcome EXCEPT ![p] = "live"]
            /\ UNCHANGED existing
  /\ UNCHANGED <<lock, lockStale, mutex, mutexStale, tries, mutexTries, grants, crashes>>

\* The critical section's rm of the lock, whatever is there now.
Clear(p) ==
  /\ pc[p] = "clear"
  /\ lock' = Vacant /\ lockStale' = FALSE
  /\ existing' = [existing EXCEPT ![p] = Unread]
  /\ Goto(p, "mutexRelease")
  /\ UNCHANGED <<mutex, mutexStale, tries, mutexTries, outcome, grants, crashes>>

\* withReclaimMutex's finally: rm the mutex, whoever holds it by now; then
\* 'live' is the caller's null and 'cleared' another iteration.
MutexRelease(p) ==
  /\ pc[p] = "mutexRelease"
  /\ mutex' = Vacant /\ mutexStale' = FALSE
  /\ \/ outcome[p] = "live" /\ Goto(p, "idle") /\ UNCHANGED tries
     \/ outcome[p] = "cleared" /\ Retry(p)
  /\ UNCHANGED <<lock, lockStale, mutexTries, outcome, existing, grants, crashes>>

\* makeLock's release: rm the lock, whoever holds it by now.
Release(p) ==
  /\ Releases /\ pc[p] = "held"
  /\ lock' = Vacant /\ lockStale' = FALSE
  /\ Goto(p, "idle")
  /\ UNCHANGED <<mutex, mutexStale, tries, mutexTries, outcome, existing, grants, crashes>>

\* The record in the lock file passes its TTL, or the mutex its five seconds.
LockExpires ==
  /\ Expires /\ lock \in Procs /\ ~lockStale
  /\ lockStale' = TRUE
  /\ UNCHANGED <<lock, mutex, mutexStale, pc, tries, mutexTries, outcome, existing, grants, crashes>>

MutexExpires ==
  /\ Expires /\ mutex \in Procs /\ ~mutexStale
  /\ mutexStale' = TRUE
  /\ UNCHANGED <<lock, lockStale, mutex, pc, tries, mutexTries, outcome, existing, grants, crashes>>

Crash(p) ==
  /\ pc[p] # "idle" /\ crashes < MaxCrashes
  /\ crashes' = crashes + 1
  /\ existing' = [existing EXCEPT ![p] = Unread]
  /\ Goto(p, "idle")
  /\ UNCHANGED <<lock, lockStale, mutex, mutexStale, tries, mutexTries, outcome,
                 grants>>

CallStep(p) ==
  \/ Link(p) \/ GiveUp(p) \/ MutexLink(p) \/ MutexGiveUp(p) \/ MutexRead(p)
  \/ MutexClear(p) \/ Decide(p) \/ Clear(p) \/ MutexRelease(p)

Next ==
  \/ \E p \in Procs : Acquire(p) \/ CallStep(p) \/ Release(p) \/ Crash(p)
  \/ LockExpires \/ MutexExpires

Spec == Init /\ [][Next]_vars

\* A call in progress runs to its end, a refused caller calls again and time
\* passes; nobody is obliged to release.
Fairness ==
  /\ \A p \in Procs : WF_vars(CallStep(p)) /\ WF_vars(Acquire(p))
  /\ WF_vars(MutexExpires) /\ WF_vars(LockExpires)

FairSpec == Spec /\ Fairness
-----------------------------------------------------------------------------
(* Properties *)

TypeOK ==
  /\ lock \in Files /\ lockStale \in BOOLEAN
  /\ mutex \in Files /\ mutexStale \in BOOLEAN
  /\ pc \in [Procs -> Steps]
  /\ tries \in [Procs -> 0..MaxAttempts]
  /\ mutexTries \in [Procs -> 0..MaxAttempts]
  /\ outcome \in [Procs -> {"live", "cleared"}]
  /\ existing \in [Procs -> [file : Files, stale : BOOLEAN]]
  /\ grants \in [Procs -> 0..MaxGrants]
  /\ crashes \in 0..MaxCrashes

Holders == {p \in Procs : pc[p] = "held"}

\* The key is never granted to two callers at once.
MutualExclusion == \A p, q \in Holders : p = q

\* The removals that act on something else than the lock file they hit: that of a
\* reclaimer that read another record, or none, and that of a holder whose own lock
\* file is gone by then.
Outdated(q) ==
  \/ pc[q] = "clear" /\ existing[q] # Record(lock, lockStale)
  \/ pc[q] = "held" /\ lock # q

\* lock.ts, withReclaimMutex and release: a holder's lock file that is not past its TTL
\* goes by the holder's own release, or because somebody acts on what it knew of the
\* key earlier; no contender judges it stale and nothing else removes it, whatever
\* expires, crashes or is left behind on the way.
LiveLockStays ==
  [][\A p \in Holders :
       lock = p /\ ~lockStale /\ lock' # p =>
         \/ pc'[p] = "idle"
         \/ \E q \in Procs \ {p} : Outdated(q) /\ pc'[q] # pc[q]]_vars

\* A crash cannot deadlock the key: whatever died before or dies on the way,
\* in the reclaim mutex or holding the lock, and even if no holder ever
\* releases, every caller that keeps asking is granted the key in the end.
EveryCallerServed == \A p \in Procs : <>(grants[p] # 0)
=============================================================================
