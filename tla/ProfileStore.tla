------------------------------ MODULE ProfileStore ------------------------------
(***************************************************************************)
(* FileProfileStore of packages/storage/src/profile-store.ts under the     *)
(* commands of apps/cli/src/commands/profile.ts, with the credential store *)
(* of packages/security beside it.                                         *)
(*                                                                         *)
(* A profile is its id and the OAuth client it names; a secret is the      *)
(* client it belongs to.  The write lock is the grants of FileLock.  The   *)
(* two renames of promote are two steps here, because reads do not take    *)
(* the lock and nothing ever runs the recovery of AtomicPromotion for the  *)
(* configuration directory.                                                *)
(***************************************************************************)
EXTENDS Integers, FiniteSets

CONSTANTS
  Procs, Ids,
  Files,
  FileOf,      \* safeSegment(profileId).json
  Clients,
  None,
  MaxCommands, MaxFaults    \* bounds

VARIABLES
  dir,       \* <configRoot>/profiles: [there, files]
  aside,     \* the directory promote has moved out of the way
  secrets,   \* the credential store: each profile's client secret
  keys,      \* and those that have a narration key
  lock, pc,
  cmd,       \* per process: the command it runs
  snap,      \* per process: the directory it is about to write
  reported,  \* history: the ids a command gave up on, with a message, a throw or a crash
  lost,      \* history: the files a snapshot could not read or a crash left aside
  crossed,   \* history: the ids given a credential by one command while another removed them
  commands, faults

vars == <<dir, aside, secrets, keys, lock, pc, cmd, snap, reported, lost, crossed, commands, faults>>
history == <<reported, lost, crossed>>
bounds == <<commands, faults>>

Corrupt == [id |-> None, client |-> None]
Kinds == {"add", "remove", "set-secret", "set-narration-key", "show"}
NoCommand == [kind |-> "show", id |-> None, client |-> None]
Waiting == {"get", "secret", "key", "lock", "snapshot", "archive", "swap"}

Init ==
  /\ \E known \in [Ids -> {"absent", "corrupt", "stored"}] :
       LET present == {i \in Ids : known[i] # "absent"}
           c == CHOOSE client \in Clients : TRUE
       IN  /\ \A i, j \in present : FileOf[i] = FileOf[j] => i = j
           /\ dir = [there |-> TRUE, files |->
                [f \in {FileOf[i] : i \in present} |->
                   LET i == CHOOSE j \in present : FileOf[j] = f
                   IN  IF known[i] = "stored" THEN [id |-> i, client |-> c] ELSE Corrupt]]
           /\ secrets = [i \in Ids |-> IF i \in present THEN c ELSE None]
  /\ aside = None /\ keys = {} /\ lock = None
  /\ pc = [p \in Procs |-> "idle"]
  /\ cmd = [p \in Procs |-> NoCommand]
  /\ snap = [p \in Procs |-> <<>>]
  /\ reported = {} /\ lost = {} /\ crossed = {}
  /\ commands = 0 /\ faults = 0

At(p, step) == pc[p] = step
Goto(p, step) == pc' = [pc EXCEPT ![p] = step]
Of(p) == cmd[p].id
Fault == faults < MaxFaults /\ faults' = faults + 1
\* The command returns or throws; a lock it holds is released.
End(p) ==
  /\ Goto(p, "idle")
  /\ cmd' = [cmd EXCEPT ![p] = NoCommand] /\ snap' = [snap EXCEPT ![p] = <<>>]
  /\ lock' = IF lock = p THEN None ELSE lock
GiveUp(p) == End(p) /\ reported' = reported \cup {Of(p)} /\ UNCHANGED <<lost, crossed>>

-----------------------------------------------------------------------------
(* The commands *)

Gives == {"add", "set-secret", "set-narration-key"}
\* Two commands on one id, of which one gives it a credential that the other removes.
Cross(kind, other) ==
  \/ kind = "remove" /\ other \in Gives
  \/ kind \in Gives /\ other = "remove"
Crosses(kind, i) == \E q \in Procs : pc[q] # "idle" /\ Of(q) = i /\ Cross(kind, cmd[q].kind)

\* parseProfileArgs has accepted the command; "add" has parsed its metadata and
\* read a secret, and what fails there ends without an effect.
Start(p) ==
  /\ At(p, "idle") /\ commands < MaxCommands /\ commands' = commands + 1
  /\ \E kind \in Kinds, i \in Ids, c \in Clients :
       /\ cmd' = [cmd EXCEPT ![p] = [kind |-> kind, id |-> i, client |-> c]]
       /\ Goto(p, IF kind = "add" THEN "secret" ELSE "get")
       /\ crossed' = IF Crosses(kind, i) THEN crossed \cup {i} ELSE crossed
  /\ UNCHANGED <<dir, aside, secrets, keys, lock, snap, reported, lost, faults>>

\* #profilesDir makes the directory anew if promote has it aside.
Opened == [dir EXCEPT !.there = TRUE]
Found(p) == FileOf[Of(p)] \in DOMAIN dir.files /\ dir.files[FileOf[Of(p)]] # Corrupt

\* Mutant: remove leaves the credentials to somebody else.
Get_RemoveMetadataOnly(p) ==
  /\ At(p, "get") /\ dir' = Opened
  /\ \/ End(p)
     \/ /\ Found(p) /\ cmd[p].kind # "show"
        /\ Goto(p, CASE cmd[p].kind = "set-narration-key" -> "key"
                     [] cmd[p].kind = "remove" -> "lock" [] OTHER -> "secret")
        /\ UNCHANGED <<lock, cmd, snap>>
  /\ UNCHANGED <<aside, secrets, keys, history, bounds>>

\* get, without the lock: null for a file that is not there, a throw for one that
\* does not parse.  Both end the command, "remove" even as a success; so do an
\* empty secret and a "no" at the prompt.  The secret commands go on with the id
\* the file holds.
Get(p) ==
  /\ At(p, "get") /\ dir' = Opened
  /\ \/ End(p)
     \/ /\ Found(p) /\ cmd[p].kind # "show"
        /\ Goto(p, IF cmd[p].kind = "set-narration-key" THEN "key" ELSE "secret")
        /\ cmd' = [cmd EXCEPT ![p].id =
             IF cmd[p].kind = "remove" THEN @ ELSE dir.files[FileOf[Of(p)]].id]
        /\ UNCHANGED <<lock, snap>>
  /\ UNCHANGED <<aside, secrets, keys, history, bounds>>

\* secretStore.set, or a remove of what may not be there.
Secret(p) ==
  /\ At(p, "secret")
  /\ \/ /\ cmd[p].kind = "remove"
        /\ secrets' = [secrets EXCEPT ![Of(p)] = None]
        /\ Goto(p, "key") /\ UNCHANGED <<lock, cmd, snap>>
     \/ /\ cmd[p].kind = "add"
        /\ secrets' = [secrets EXCEPT ![Of(p)] = cmd[p].client]
        /\ Goto(p, "lock") /\ UNCHANGED <<lock, cmd, snap>>
     \/ /\ cmd[p].kind = "set-secret"
        /\ secrets' = [secrets EXCEPT ![Of(p)] = cmd[p].client]
        /\ End(p)
  /\ UNCHANGED <<dir, aside, keys, history, bounds>>

\* CredentialStoreError: add has written nothing yet, remove refuses.
SecretFails(p) ==
  /\ At(p, "secret") /\ Fault
  /\ End(p)
  /\ UNCHANGED <<dir, aside, secrets, keys, history, commands>>

Key(p) ==
  /\ At(p, "key")
  /\ \/ /\ cmd[p].kind = "set-narration-key" /\ keys' = keys \cup {Of(p)} /\ End(p)
     \/ /\ cmd[p].kind = "remove" /\ keys' = keys \ {Of(p)}
        /\ Goto(p, "lock") /\ UNCHANGED <<lock, cmd, snap>>
  /\ UNCHANGED <<dir, aside, secrets, history, bounds>>

\* A key that cannot be removed is a warning, and the profile goes all the same.
KeyFails(p) ==
  /\ At(p, "key") /\ Fault
  /\ \/ cmd[p].kind = "set-narration-key" /\ End(p) /\ UNCHANGED history
     \/ /\ cmd[p].kind = "remove" /\ Goto(p, "lock") /\ UNCHANGED <<lock, cmd, snap, lost, crossed>>
        /\ reported' = reported \cup {Of(p)}
  /\ UNCHANGED <<dir, aside, secrets, keys, commands>>

-----------------------------------------------------------------------------
(* put and remove: #withWriteLock, #readRawSnapshot, #replaceDirectory *)

\* Mutant: no write lock.
Lock_Free(p) ==
  /\ At(p, "lock")
  /\ lock' = p /\ Goto(p, "snapshot")
  /\ UNCHANGED <<dir, aside, secrets, keys, cmd, snap, history, bounds>>

Lock(p) ==
  /\ At(p, "lock") /\ lock = None
  /\ lock' = p /\ Goto(p, "snapshot")
  /\ UNCHANGED <<dir, aside, secrets, keys, cmd, snap, history, bounds>>

\* WRITE_LOCK_WAIT_MS is over.
LockTimesOut(p) ==
  /\ At(p, "lock") /\ lock # None
  /\ GiveUp(p)
  /\ UNCHANGED <<dir, aside, secrets, keys, bounds>>

Without(files, gone) == [f \in DOMAIN files \ gone |-> files[f]]
Stored(p) == [id |-> Of(p), client |-> cmd[p].client]
With(files, own, profile) == [f \in DOMAIN files \cup {own} |-> IF f = own THEN profile ELSE files[f]]

\* Every file as it is, with the one change; a file that cannot be read is left
\* out of what is to replace the directory, and a directory that cannot be listed
\* counts as an empty one.
Snapshot(p) ==
  /\ At(p, "snapshot") /\ dir' = Opened
  /\ \E unread \in SUBSET DOMAIN dir.files :
       /\ \/ unread = {} /\ UNCHANGED faults
          \/ (Cardinality(unread) = 1 \/ unread = DOMAIN dir.files) /\ Fault
       /\ LET files == Without(dir.files, unread)
              own == FileOf[Of(p)]
          IN  IF cmd[p].kind = "remove" /\ own \notin DOMAIN files
                THEN End(p) /\ UNCHANGED history
                ELSE /\ snap' = [snap EXCEPT ![p] =
                          IF cmd[p].kind = "add" THEN With(files, own, Stored(p))
                                                ELSE Without(files, {own})]
                     /\ lost' = lost \cup unread
                     /\ Goto(p, "archive") /\ UNCHANGED <<lock, cmd, reported, crossed>>
  /\ UNCHANGED <<aside, secrets, keys, commands>>

\* Staging is written, and promote's first rename.
Archive(p) ==
  /\ At(p, "archive")
  /\ aside' = dir.files /\ dir' = [there |-> FALSE, files |-> <<>>]
  /\ Goto(p, "swap")
  /\ UNCHANGED <<secrets, keys, lock, cmd, snap, history, bounds>>

\* Writing the staging directory fails, or the first rename: the second then finds
\* the old directory in its place, and the staging directory is discarded.
ArchiveFails(p) ==
  /\ At(p, "archive") /\ Fault
  /\ GiveUp(p)
  /\ UNCHANGED <<dir, aside, secrets, keys, commands>>

\* promote's second rename, over the empty directory a reader may have made.
Swap(p) ==
  /\ At(p, "swap")
  /\ dir' = [there |-> TRUE, files |-> snap[p]] /\ aside' = None
  /\ End(p)
  /\ UNCHANGED <<secrets, keys, history, bounds>>

\* The second rename fails, and the old directory is put back.
SwapFails(p) ==
  /\ At(p, "swap") /\ Fault
  /\ dir' = [there |-> TRUE, files |-> aside] /\ aside' = None
  /\ GiveUp(p)
  /\ UNCHANGED <<secrets, keys, commands>>

-----------------------------------------------------------------------------
\* The process is killed; what promote had moved aside stays there.
Crash(p) ==
  /\ pc[p] \in Waiting /\ Fault
  /\ Goto(p, "idle")
  /\ cmd' = [cmd EXCEPT ![p] = NoCommand] /\ snap' = [snap EXCEPT ![p] = <<>>]
  /\ reported' = reported \cup {Of(p)}
  /\ lost' = lost \cup (IF At(p, "swap") THEN DOMAIN aside ELSE {})
  /\ aside' = IF At(p, "swap") THEN None ELSE aside
  /\ UNCHANGED <<dir, secrets, keys, lock, crossed, commands>>

\* A dead holder's lock goes stale and is removed.
LockReclaimed ==
  /\ lock # None /\ pc[lock] \notin {"snapshot", "archive", "swap"}
  /\ lock' = None
  /\ UNCHANGED <<dir, aside, secrets, keys, pc, cmd, snap, history, bounds>>

Step(p) ==
  \/ Get(p) \/ Secret(p) \/ Key(p) \/ Lock(p) \/ LockTimesOut(p) \/ Snapshot(p)
  \/ Archive(p) \/ Swap(p)

Next ==
  \/ \E p \in Procs : \/ Start(p) \/ Step(p) \/ SecretFails(p) \/ KeyFails(p)
                      \/ ArchiveFails(p) \/ SwapFails(p) \/ Crash(p)
  \/ LockReclaimed

Spec == Init /\ [][Next]_vars

-----------------------------------------------------------------------------
(* Properties *)

\* What the store holds: with promote half done, what it has moved aside.
Held == IF aside # None THEN aside ELSE dir.files

\* No write forgets another's profile, readable or corrupt: a file goes only when
\* its own profile is being removed, unless a snapshot could not read it or a
\* crash came between the two renames.
NothingForgotten ==
  [][\A f \in DOMAIN Held \ (DOMAIN Held)' :
       f \in lost' \/ \E p \in Procs : cmd[p].kind = "remove" /\ FileOf[Of(p)] = f]_vars

\* No orphaned credential: while no command is about it, an id that has a secret
\* or a narration key has a profile file, unless a command on it was reported to
\* have failed, a snapshot or a crash lost the file, or one command gave the
\* credential while another removed the profile: set-secret stores it after its
\* look at the profile (profile.ts:497-516), with nothing to keep a removal out.
NoOrphanedSecret ==
  \A i \in Ids :
    (secrets[i] # None \/ i \in keys) /\ (\A p \in Procs : pc[p] # "idle" => Of(p) # i)
    => FileOf[i] \in DOMAIN Held \/ i \in reported \/ FileOf[i] \in lost \/ i \in crossed

=============================================================================
