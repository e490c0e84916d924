------------------------------- MODULE Profile -------------------------------
(***************************************************************************)
(* Opening and deleting a profile: Profile::open and Profile::delete of    *)
(* crates/fandhe-browser-profile/src/profile.rs, with the advisory lock of *)
(* lock.rs, as several processes run them on the same root path (unix).    *)
(*                                                                         *)
(* The file system is what they share: directories that have the profile's *)
(* name, another name next to it, or none; in each at most one entry       *)
(* `profile.lock' and the data directories (one stands for the four); and  *)
(* a lock per file.  One action is one system call that changes or reads   *)
(* what another process may change.                                        *)
(***************************************************************************)
EXTENDS Naturals, FiniteSets

CONSTANTS
  Procs,      \* processes (or instances within one: the lock is per open file)
  Deleters,   \* those that call Profile::delete
  Dirs,       \* bound: root directories that exist or are in use at one time
  Files,      \* bound: lock files that exist or are in use at one time
  MaxPasses,  \* MAX_DELETE_PASSES
  NoProc, NoDir, NoFile

ASSUME DeletersAssumption == Deleters \subseteq Procs
ASSUME PassesAssumption   == MaxPasses \in Nat \ {0}
ASSUME NoProcAssumption   == NoProc \notin Procs
ASSUME NoDirAssumption    == NoDir \notin Dirs
ASSUME NoFileAssumption   == NoFile \notin Files

VARIABLES
  place,    \* the name a directory has: "none", "root", "tomb" or "rm"
  mover,    \* who gave it the name "tomb" or "rm", which nobody else knows
  lockFile, \* its entry profile.lock
  data,     \* the directories that have data directories in them
  owner,    \* who holds the lock of a file
  \* --- one process -----------------------------------------------------
  pc,
  dir,      \* Profile::root_fd
  file,     \* the opened lock file
  todo,     \* what remove_dir_contents_at has listed and not removed yet
  pass,     \* how often it has listed the directory
  retry,    \* the deletion is tried a second time
  failed    \* history: some deletion has failed half-way

fsVars   == <<place, mover, lockFile, data>>
procVars == <<pc, dir, file, todo, pass, retry>>
vars     == <<fsVars, owner, procVars, failed>>

-----------------------------------------------------------------------------
AtRoot == {d \in Dirs : place[d] = "root"}

\* Nobody can reach or hold it: the number may be given to a new one.
FreeDirs  == {d \in Dirs : place[d] = "none" /\ \A p \in Procs : dir[p] # d}
FreeFiles == {f \in Files : /\ \A d \in Dirs : lockFile[d] # f
                            /\ \A p \in Procs : file[p] # f}

Entries(d) ==
  (IF lockFile[d] # NoFile THEN {"lock"} ELSE {}) \cup
  (IF d \in data THEN {"data"} ELSE {})

Goto(p, l) == pc' = [pc EXCEPT ![p] = l]

\* The process has nothing open any more; closing unlocks.
CloseAt(p, l) ==
  /\ Goto(p, l)
  /\ dir'   = [dir EXCEPT ![p] = NoDir]
  /\ file'  = [file EXCEPT ![p] = NoFile]
  /\ todo'  = [todo EXCEPT ![p] = {}]
  /\ pass'  = [pass EXCEPT ![p] = 0]
  /\ retry' = [retry EXCEPT ![p] = FALSE]
  /\ owner' = [f \in Files |-> IF owner[f] = p THEN NoProc ELSE owner[f]]

Close(p) == CloseAt(p, "idle")

Init ==
  /\ place = [d \in Dirs |-> "none"]
  /\ mover = [d \in Dirs |-> NoProc]
  /\ lockFile = [d \in Dirs |-> NoFile]
  /\ data = {}
  /\ owner = [f \in Files |-> NoProc]
  /\ pc = [p \in Procs |-> "idle"]
  /\ dir = [p \in Procs |-> NoDir]
  /\ file = [p \in Procs |-> NoFile]
  /\ todo = [p \in Procs |-> {}]
  /\ pass = [p \in Procs |-> 0]
  /\ retry = [p \in Procs |-> FALSE]
  /\ failed = FALSE

-----------------------------------------------------------------------------
(* Profile::open                                                           *)

\* open_or_create_child_dir for the last component of the root.
OpenDir(p) ==
  /\ pc[p] = "idle"
  /\ \/ \E d \in AtRoot : dir' = [dir EXCEPT ![p] = d] /\ Goto(p, "lockfile")
     \/ AtRoot = {} /\ Goto(p, "mkdir") /\ UNCHANGED dir
  /\ UNCHANGED <<fsVars, owner, file, todo, pass, retry>>

\* mkdirat; that somebody else was faster is no error.
MakeDir(p) ==
  /\ pc[p] = "mkdir"
  /\ \/ AtRoot # {} /\ UNCHANGED place
     \/ AtRoot = {} /\ \E d \in FreeDirs : place' = [place EXCEPT ![d] = "root"]
  /\ Goto(p, "reopen")
  /\ UNCHANGED <<mover, lockFile, data, owner, dir, file, todo, pass, retry>>

Reopen(p) ==
  /\ pc[p] = "reopen"
  /\ \/ /\ \E d \in AtRoot : dir' = [dir EXCEPT ![p] = d]
        /\ Goto(p, "lockfile")
        /\ UNCHANGED <<owner, file, todo, pass, retry>>
     \/ AtRoot = {} /\ Close(p)
  /\ UNCHANGED fsVars

\* openat of profile.lock with O_CREAT, in the directory that was opened,
\* whatever its name is by now.
OpenLock(p) ==
  /\ pc[p] = "lockfile"
  /\ \/ place[dir[p]] = "none" /\ Close(p) /\ UNCHANGED lockFile
     \/ /\ place[dir[p]] # "none"
        /\ \/ /\ lockFile[dir[p]] # NoFile
              /\ file' = [file EXCEPT ![p] = lockFile[dir[p]]]
              /\ UNCHANGED lockFile
           \/ /\ lockFile[dir[p]] = NoFile
              /\ \E f \in FreeFiles : /\ lockFile' = [lockFile EXCEPT ![dir[p]] = f]
                                      /\ file' = [file EXCEPT ![p] = f]
        /\ Goto(p, "verify")
        /\ UNCHANGED <<owner, dir, todo, pass, retry>>
  /\ UNCHANGED <<place, mover, data>>

\* open_verified_regular_file: the file must have one link.
Verify(p) ==
  /\ pc[p] = "verify"
  /\ \/ /\ lockFile[dir[p]] = file[p]
        /\ Goto(p, "trylock")
        /\ UNCHANGED <<owner, dir, file, todo, pass, retry>>
     \/ lockFile[dir[p]] # file[p] /\ Close(p)
  /\ UNCHANGED fsVars

\* lock::try_acquire: taken, or ProfileError::Locked.
TryLock(p) ==
  /\ pc[p] = "trylock"
  /\ \/ /\ owner[file[p]] = NoProc
        /\ owner' = [owner EXCEPT ![file[p]] = p]
        /\ Goto(p, "data")
        /\ UNCHANGED <<dir, file, todo, pass, retry>>
     \/ owner[file[p]] # NoProc /\ Close(p)
  /\ UNCHANGED fsVars

\* The data directories are opened or created, and the Profile is returned.
OpenData(p) ==
  /\ pc[p] = "data"
  /\ \/ place[dir[p]] = "none" /\ Close(p) /\ UNCHANGED data
     \/ /\ place[dir[p]] # "none"
        /\ data' = data \cup {dir[p]}
        /\ Goto(p, "open")
        /\ UNCHANGED <<owner, dir, file, todo, pass, retry>>
  /\ UNCHANGED <<place, mover, lockFile>>

\* Mutant of Drop: the lock file is unlinked with the Profile.
MutDrop(p) ==
  /\ pc[p] = "open"
  /\ lockFile' = [lockFile EXCEPT ![dir[p]] = NoFile]
  /\ Close(p)
  /\ UNCHANGED <<place, mover, data>>

\* The Profile is dropped; the lock file stays.
Drop(p) ==
  /\ pc[p] = "open"
  /\ Close(p)
  /\ UNCHANGED fsVars

-----------------------------------------------------------------------------
(* Profile::delete                                                         *)

\* verify_root_name: the name the process chose still is that of its directory.
Mine(p) == place[dir[p]] = "tomb" /\ mover[dir[p]] = p

Rename(d, n, p) ==
  /\ place' = [place EXCEPT ![d] = n]
  /\ mover' = [mover EXCEPT ![d] = p]

\* The root must still have its name; the tree is looked through.
BeginDelete(p) ==
  /\ pc[p] = "open" /\ p \in Deleters
  /\ \/ /\ dir[p] \in AtRoot
        /\ Goto(p, "aside")
        /\ UNCHANGED <<owner, dir, file, todo, pass, retry>>
     \/ dir[p] \notin AtRoot /\ Close(p)
  /\ UNCHANGED fsVars

\* rename_noreplace to a name of the process's own: it moves what has the
\* profile's name now.
Aside(p) ==
  /\ pc[p] = "aside"
  /\ \/ /\ \E d \in AtRoot : Rename(d, "tomb", p)
        /\ Goto(p, "moved")
        /\ UNCHANGED <<owner, dir, file, todo, pass, retry>>
     \/ AtRoot = {} /\ Close(p) /\ UNCHANGED <<place, mover>>
  /\ UNCHANGED <<lockFile, data>>

\* Was it the directory the process has open?  If not, or if that cannot be
\* said, it gets its name back, unless the name is taken.
Moved(p) ==
  /\ pc[p] = "moved"
  /\ \/ /\ Mine(p)
        /\ Goto(p, "list")
        /\ UNCHANGED <<place, mover, owner, dir, file, todo, pass, retry>>
     \/ /\ \E d \in Dirs :
             /\ mover[d] = p
             /\ \/ AtRoot = {} /\ Rename(d, "root", NoProc)
                \/ Rename(d, "tomb", NoProc)
        /\ Close(p)
  /\ UNCHANGED <<lockFile, data>>

\* One pass of remove_dir_contents_at: what is in the directory?
List(p) ==
  /\ pc[p] = "list"
  /\ todo' = [todo EXCEPT ![p] = Entries(dir[p])]
  /\ pass' = [pass EXCEPT ![p] = @ + 1]
  /\ Goto(p, IF Entries(dir[p]) = {} THEN "rmdir" ELSE "remove")
  /\ UNCHANGED <<fsVars, owner, dir, file, retry>>

\* A file that is gone already is no error, a directory is.
Remove(p) ==
  /\ pc[p] = "remove" /\ Mine(p)
  /\ \E e \in todo[p] :
       /\ todo' = [todo EXCEPT ![p] = @ \ {e}]
       /\ lockFile' = IF e = "lock" THEN [lockFile EXCEPT ![dir[p]] = NoFile] ELSE lockFile
       /\ data' = IF e = "data" THEN data \ {dir[p]} ELSE data
       /\ Goto(p, IF e = "data" /\ dir[p] \notin data THEN "failed" ELSE "remove")
  /\ UNCHANGED <<place, mover, owner, dir, file, pass, retry>>

\* Mutant of PassEnds: one pass more than the bound.
MutPassEnds(p) ==
  /\ pc[p] = "remove" /\ todo[p] = {}
  /\ Goto(p, IF pass[p] <= MaxPasses THEN "list" ELSE "failed")
  /\ UNCHANGED <<fsVars, owner, dir, file, todo, pass, retry>>

PassEnds(p) ==
  /\ pc[p] = "remove" /\ todo[p] = {}
  /\ Goto(p, IF pass[p] < MaxPasses THEN "list" ELSE "failed")
  /\ UNCHANGED <<fsVars, owner, dir, file, todo, pass, retry>>

\* remove_verified_dir_at: a name nobody can guess, then rmdir.
Hide(p) ==
  /\ pc[p] = "rmdir" /\ Mine(p)
  /\ Rename(dir[p], "rm", p)
  /\ Goto(p, "hidden")
  /\ UNCHANGED <<lockFile, data, owner, dir, file, todo, pass, retry>>

\* Whatever rmdir fails for (a new entry, an input/output error), the name the
\* directory had before is restored.
RemoveRoot(p) ==
  /\ pc[p] = "hidden"
  /\ \/ /\ Entries(dir[p]) = {}
        /\ Rename(dir[p], "none", NoProc)
        /\ Close(p)
     \/ /\ Rename(dir[p], "tomb", p)
        /\ Goto(p, "failed")
        /\ UNCHANGED <<owner, dir, file, todo, pass, retry>>
  /\ UNCHANGED <<lockFile, data>>

\* An input/output error.
DeleteFails(p) ==
  /\ pc[p] \in {"list", "remove", "rmdir"}
  /\ Goto(p, "failed")
  /\ UNCHANGED <<fsVars, owner, dir, file, todo, pass, retry>>

\* Mutant of Restore: the name is taken whether it is free or not.
MutRestore(p) ==
  /\ pc[p] = "failed" /\ ~ retry[p] /\ Mine(p)
  /\ Rename(dir[p], "root", NoProc)
  /\ Close(p)
  /\ UNCHANGED <<lockFile, data>>

\* After a failure the tree gets its name back if that is free.
Restore(p) ==
  /\ pc[p] = "failed" /\ ~ retry[p] /\ Mine(p) /\ AtRoot = {}
  /\ Rename(dir[p], "root", NoProc)
  /\ Close(p)
  /\ UNCHANGED <<lockFile, data>>

\* Mutant of Retry: there is always another try.
MutRetry(p) ==
  /\ pc[p] = "failed" /\ Mine(p)
  /\ pass' = [pass EXCEPT ![p] = 0]
  /\ Goto(p, "list")
  /\ UNCHANGED <<fsVars, owner, dir, file, todo, retry>>

\* It is taken by a new profile, or cannot be given: delete again, once.
Retry(p) ==
  /\ pc[p] = "failed" /\ ~ retry[p] /\ Mine(p)
  /\ retry' = [retry EXCEPT ![p] = TRUE]
  /\ pass' = [pass EXCEPT ![p] = 0]
  /\ Goto(p, "list")
  /\ UNCHANGED <<fsVars, owner, dir, file, todo>>

\* The remains stay where they are, and the error says where.
GiveUp(p) ==
  /\ pc[p] = "failed" /\ (retry[p] \/ ~ Mine(p))
  /\ mover' = [d \in Dirs |-> IF mover[d] = p THEN NoProc ELSE mover[d]]
  /\ Close(p)
  /\ UNCHANGED <<place, lockFile, data>>

-----------------------------------------------------------------------------
\* The process dies (or its open fails and returns): the kernel closes and
\* unlocks its files.
Crash(p) ==
  /\ pc[p] \notin {"idle", "crashed"}
  /\ CloseAt(p, "crashed")
  /\ UNCHANGED fsVars

Restart(p) ==
  /\ pc[p] = "crashed"
  /\ Goto(p, "idle")
  /\ mover' = [d \in Dirs |-> IF mover[d] = p THEN NoProc ELSE mover[d]]
  /\ UNCHANGED <<place, lockFile, data, owner, dir, file, todo, pass, retry>>

NoteFailure == failed' = (failed \/ \E p \in Procs : pc'[p] = "failed")

OpenStep(p) ==
  /\ \/ MakeDir(p) \/ Reopen(p) \/ OpenLock(p) \/ Verify(p) \/ TryLock(p) \/ OpenData(p)
  /\ NoteFailure

DeleteStep(p) ==
  /\ \/ Aside(p) \/ Moved(p) \/ List(p) \/ Remove(p) \/ PassEnds(p) \/ Hide(p)
     \/ RemoveRoot(p) \/ Restore(p) \/ Retry(p) \/ GiveUp(p)
  /\ NoteFailure

\* The rest: calls that begin, profiles that are dropped, errors, processes that
\* die.
Begin(p) ==
  /\ \/ OpenDir(p) \/ Drop(p) \/ BeginDelete(p) \/ DeleteFails(p)
     \/ Crash(p) \/ Restart(p)
  /\ NoteFailure

Next ==
  \E p \in Procs : Begin(p) \/ OpenStep(p) \/ DeleteStep(p)

Spec == Init /\ [][Next]_vars

\* A call that has begun goes on until it returns, or its process dies.
FairSpec == Spec /\ \A p \in Procs : WF_vars(OpenStep(p)) /\ WF_vars(DeleteStep(p))

-----------------------------------------------------------------------------
(* Properties.                                                             *)

Opening  == {"mkdir", "reopen", "lockfile", "verify", "trylock", "data"}
Deleting == {"aside", "moved", "list", "remove", "rmdir", "hidden", "failed"}

\* Every variable stays in its range.
TypeOK ==
  /\ place \in [Dirs -> {"none", "root", "tomb", "rm"}]
  /\ mover \in [Dirs -> Procs \cup {NoProc}]
  /\ lockFile \in [Dirs -> Files \cup {NoFile}]
  /\ data \subseteq Dirs
  /\ owner \in [Files -> Procs \cup {NoProc}]
  /\ pc \in [Procs -> Opening \cup Deleting \cup {"idle", "open", "crashed"}]
  /\ dir \in [Procs -> Dirs \cup {NoDir}]
  /\ file \in [Procs -> Files \cup {NoFile}]
  /\ todo \in [Procs -> SUBSET {"lock", "data"}]
  /\ pass \in [Procs -> 0 .. MaxPasses]
  /\ retry \in [Procs -> BOOLEAN]
  /\ failed \in BOOLEAN

\* PROF-1: no two processes have the directory open that has the profile's name,
\* and who has it open holds the lock of the file that the next process will
\* find there: lock.rs never unlinks it for that reason.  Only a deletion that
\* fails half-way breaks this (ExclusiveRoot).  A tree that is being deleted is
\* left out: of three processes two that had reached it by its name may each
\* lock a profile.lock of their own in it, the deleter having unlinked the first.
ExclusiveOpen ==
  ~ failed =>
    \A p \in Procs : pc[p] = "open" /\ dir[p] \in AtRoot =>
      /\ lockFile[dir[p]] = file[p] /\ owner[file[p]] = p
      /\ \A q \in Procs : pc[q] = "open" /\ dir[q] = dir[p] => q = p

\* The same with the deletions that fail included.
ExclusiveRoot ==
  \A p, q \in Procs :
    pc[p] = "open" /\ pc[q] = "open" /\ dir[p] = dir[q] /\ dir[p] \in AtRoot => p = q

\* A tree that gets its name back never replaces the profile that was made
\* under this name in the meantime (RENAME_NOREPLACE).
OneRoot == \A d, e \in AtRoot : d = e

\* Nothing is ever removed from a directory that has the profile's name: the
\* tree is moved aside first, and not moved back while it is being emptied.
RemovalIsHidden ==
  \A d \in Dirs : ~ (Entries(d) \subseteq Entries(d)') => place[d] = "tomb"

\* Whoever finds a profile under its name finds one whole profile.
NameIsSafe == [][OneRoot' /\ RemovalIsHidden]_vars

\* A deletion ends, whoever else puts files into the tree meanwhile: the
\* passes and the tries are counted.
DeletionEnds ==
  \A p \in Procs : pc[p] \in Deleting ~> pc[p] \notin Deleting

=============================================================================
