---------------------------- MODULE ProfileProofs ----------------------------
(***************************************************************************)
(* Proofs about Profile, for any number of processes, directories, lock    *)
(* files and passes: the types, who may have a profile open (PROF-1), and  *)
(* what can happen to the profile's name.                                  *)
(*                                                                         *)
(* The invariant says what a process holds at each place of the program    *)
(* (Handles, Passes, Locked), who has given a directory its private name   *)
(* and what for (Moves, Removals), and that in a tree nobody has begun to  *)
(* empty the lock file is the one that everybody in it has opened (Whole). *)
(***************************************************************************)
EXTENDS Profile, TLAPS

\* Where a process has no directory; where it has no lock file; where it empties a
\* tree; where it may have given a private name; where it holds the lock.
Outside   == {"idle", "crashed", "mkdir", "reopen"}
Unlocked  == Outside \cup {"lockfile"}
Emptying  == {"list", "remove", "rmdir", "hidden", "failed"}
Moving    == Emptying \cup {"moved", "crashed"}
HasLock   == {"data", "open"} \cup Deleting

\* A process has a directory, and a lock file in it, from the step that opens them
\* to the one that returns.
Handles ==
  \A p \in Procs : /\ dir[p] = NoDir <=> pc[p] \in Outside
                   /\ file[p] = NoFile <=> pc[p] \in Unlocked

\* The passes are counted while a tree is being emptied, and only then.
Passes ==
  \A p \in Procs : /\ pc[p] \notin Emptying => pass[p] = 0
                   /\ pc[p] = "list" => pass[p] < MaxPasses

\* From try_acquire on the process holds the lock of the file it has open.
Locked == \A p \in Procs : pc[p] \in HasLock => owner[file[p]] = p

\* A private name is known to one process, which has no other directory moved.
Moves ==
  /\ \A d \in Dirs : mover[d] # NoProc =>
       \/ place[d] = "tomb" /\ pc[mover[d]] \in Moving
       \/ place[d] = "rm" /\ pc[mover[d]] \in {"hidden", "crashed"}
  /\ \A d, e \in Dirs : mover[d] = mover[e] /\ mover[d] # NoProc => d = e

\* The tree a process empties has the name this process gave it.
Removals ==
  \A p \in Procs : pc[p] \in Emptying =>
    /\ mover[dir[p]] = p
    /\ place[dir[p]] = IF pc[p] = "hidden" THEN "rm" ELSE "tomb"

\* A deletion that failed half-way is on record.
Noted == \A p \in Procs : pc[p] = "failed" => failed

\* Nobody has begun to empty the directory.
Untouched(d) == place[d] = "root" \/ (place[d] = "tomb" /\ mover[d] # NoProc /\ pc[mover[d]] = "moved")

\* Everybody in such a directory has opened the lock file that is in it.
Whole ==
  ~ failed => \A p \in Procs :
    pc[p] \notin Unlocked /\ Untouched(dir[p]) => lockFile[dir[p]] = file[p]

\* The inductive invariant.
Inv == TypeOK /\ Handles /\ Passes /\ Locked /\ Moves /\ Removals /\ Noted /\ OneRoot /\ Whole

-----------------------------------------------------------------------------
\* A step of one process, whatever it is.
Step(p) == Begin(p) \/ OpenStep(p) \/ DeleteStep(p)

\* Only the place of this process in the program changes.
LEMMA OwnPlace ==
  ASSUME TypeOK, NEW p \in Procs, Step(p)
  PROVE  \E l \in Opening \cup Deleting \cup {"idle", "open", "crashed"} : pc' = [pc EXCEPT ![p] = l]
BY DEF TypeOK, Step, Begin, OpenStep, DeleteStep, OpenDir, MakeDir, Reopen, OpenLock, Verify, TryLock,
       OpenData, Drop, BeginDelete, Aside, Moved, List, Remove, PassEnds, Hide, RemoveRoot, DeleteFails,
       Restore, Retry, GiveUp, Crash, Restart, CloseAt, Close, Goto, Opening, Deleting

\* A process gets its directory when it opens it, its file with the lock file, and
\* loses both when it returns.
LEMMA HandlesKept ==
  ASSUME Inv, NEW p \in Procs, Step(p)
  PROVE  Handles'
<1> USE NoDirAssumption, NoFileAssumption DEF Handles, Outside, Unlocked
<1>t. TypeOK /\ Handles
  BY DEF Inv
<1>1. CASE OpenDir(p)
  BY <1>t, <1>1 DEF TypeOK, OpenDir, Goto, AtRoot
<1>2. CASE MakeDir(p) \/ Reopen(p)
  BY <1>t, <1>2 DEF TypeOK, MakeDir, Reopen, Goto, AtRoot, Close, CloseAt
<1>3. CASE OpenLock(p)
  BY <1>t, <1>3 DEF TypeOK, OpenLock, Goto, Close, CloseAt, FreeFiles
<1>4. CASE Verify(p) \/ TryLock(p) \/ OpenData(p) \/ Drop(p) \/ BeginDelete(p) \/ Crash(p)
  BY <1>t, <1>4 DEF TypeOK, Verify, TryLock, OpenData, Drop, BeginDelete, Crash, Goto, Close, CloseAt
<1>5. CASE Aside(p) \/ Moved(p) \/ RemoveRoot(p) \/ Restore(p) \/ GiveUp(p)
  BY <1>t, <1>5 DEF TypeOK, Aside, Moved, RemoveRoot, Restore, GiveUp, Goto, Close, CloseAt
<1>6. CASE List(p) \/ Remove(p) \/ PassEnds(p) \/ Hide(p) \/ DeleteFails(p) \/ Retry(p) \/ Restart(p)
  BY <1>t, <1>6 DEF TypeOK, List, Remove, PassEnds, Hide, DeleteFails, Retry, Restart, Goto
<1> QED
  BY <1>1, <1>2, <1>3, <1>4, <1>5, <1>6 DEF Step, Begin, OpenStep, DeleteStep

\* Only a deletion that lists counts, and it lists again only below the bound.
LEMMA PassesKept ==
  ASSUME Inv, NEW p \in Procs, Step(p)
  PROVE  Passes'
<1> USE PassesAssumption DEF Passes, Emptying
<1>t. TypeOK /\ Passes
  BY DEF Inv
<1>1. CASE OpenDir(p)
  BY <1>t, <1>1 DEF TypeOK, OpenDir, Goto, AtRoot
<1>2. CASE MakeDir(p) \/ Reopen(p)
  BY <1>t, <1>2 DEF TypeOK, MakeDir, Reopen, Goto, AtRoot, Close, CloseAt
<1>3. CASE OpenLock(p)
  BY <1>t, <1>3 DEF TypeOK, OpenLock, Goto, Close, CloseAt, FreeFiles
<1>4. CASE Verify(p) \/ TryLock(p) \/ OpenData(p) \/ Drop(p) \/ BeginDelete(p) \/ Crash(p)
  BY <1>t, <1>4 DEF TypeOK, Verify, TryLock, OpenData, Drop, BeginDelete, Crash, Goto, Close, CloseAt
<1>5. CASE Aside(p) \/ Moved(p) \/ RemoveRoot(p) \/ Restore(p) \/ GiveUp(p)
  BY <1>t, <1>5 DEF TypeOK, Aside, Moved, RemoveRoot, Restore, GiveUp, Goto, Close, CloseAt
<1>6. CASE List(p) \/ Remove(p) \/ PassEnds(p) \/ Hide(p) \/ DeleteFails(p) \/ Retry(p) \/ Restart(p)
  BY <1>t, <1>6 DEF TypeOK, List, Remove, PassEnds, Hide, DeleteFails, Retry, Restart, Goto
<1> QED
  BY <1>1, <1>2, <1>3, <1>4, <1>5, <1>6 DEF Step, Begin, OpenStep, DeleteStep

\* The lock of a file is taken while it is free and given back by who holds it.
LEMMA LockedKept ==
  ASSUME Inv, NEW p \in Procs, Step(p)
  PROVE  Locked'
<1> USE NoProcAssumption DEF Locked, HasLock, Deleting
<1>t. TypeOK /\ Locked /\ Handles
  BY DEF Inv
<1>h. \A q \in Procs : pc[q] \in HasLock => file[q] \in Files
  BY <1>t DEF TypeOK, Handles, Outside, Unlocked
<1>1. CASE OpenDir(p)
  BY <1>t, <1>1 DEF TypeOK, OpenDir, Goto, AtRoot
<1>2. CASE MakeDir(p) \/ Reopen(p)
  BY <1>t, <1>h, <1>2 DEF TypeOK, MakeDir, Reopen, Goto, AtRoot, Close, CloseAt
<1>3. CASE OpenLock(p)
  BY <1>t, <1>h, <1>3 DEF TypeOK, OpenLock, Goto, Close, CloseAt, FreeFiles
<1>4. CASE Verify(p) \/ OpenData(p) \/ Drop(p) \/ BeginDelete(p) \/ Crash(p)
  BY <1>t, <1>h, <1>4 DEF TypeOK, Verify, OpenData, Drop, BeginDelete, Crash, Goto, Close, CloseAt
<1>5. CASE TryLock(p)
  <2>1. file[p] \in Files
    BY <1>t, <1>5 DEF TypeOK, TryLock, Handles, Unlocked, Outside
  <2> QED
    BY <1>t, <1>h, <1>5, <2>1 DEF TypeOK, TryLock, Goto, Close, CloseAt
<1>6. CASE Aside(p) \/ Moved(p) \/ RemoveRoot(p) \/ Restore(p) \/ GiveUp(p)
  BY <1>t, <1>h, <1>6 DEF TypeOK, Aside, Moved, RemoveRoot, Restore, GiveUp, Goto, Close, CloseAt
<1>7. CASE List(p) \/ Remove(p) \/ PassEnds(p) \/ Hide(p) \/ DeleteFails(p) \/ Retry(p) \/ Restart(p)
  BY <1>t, <1>7 DEF TypeOK, List, Remove, PassEnds, Hide, DeleteFails, Retry, Restart, Goto
<1> QED
  BY <1>1, <1>2, <1>3, <1>4, <1>5, <1>6, <1>7 DEF Step, Begin, OpenStep, DeleteStep

\* A directory gets a private name from one process, which takes the next one only
\* after it has given back or given up the first.
LEMMA MovesKept ==
  ASSUME Inv, NEW p \in Procs, Step(p)
  PROVE  Moves'
<1> USE NoProcAssumption DEF Moves, Moving, Emptying
<1>t. TypeOK /\ Moves
  BY DEF Inv
<1>1. CASE OpenDir(p)
  BY <1>t, <1>1 DEF TypeOK, OpenDir, Goto, AtRoot, fsVars
<1>2. CASE MakeDir(p)
  BY <1>t, <1>2 DEF TypeOK, MakeDir, Goto, FreeDirs, fsVars
<1>3. CASE Reopen(p) \/ OpenLock(p)
  BY <1>t, <1>3 DEF TypeOK, Reopen, OpenLock, Goto, Close, CloseAt, fsVars
<1>4. CASE Verify(p) \/ TryLock(p) \/ OpenData(p) \/ Drop(p) \/ BeginDelete(p) \/ Crash(p)
  BY <1>t, <1>4 DEF TypeOK, Verify, TryLock, OpenData, Drop, BeginDelete, Crash, Goto, Close, CloseAt, fsVars
<1>5. CASE Aside(p)
  BY <1>t, <1>5 DEF TypeOK, Aside, Goto, Close, CloseAt, Rename, AtRoot
<1>6. CASE Moved(p)
  BY <1>t, <1>6 DEF TypeOK, Moved, Goto, Close, CloseAt, Rename
<1>7. CASE RemoveRoot(p) \/ Restore(p) \/ Hide(p)
  <2>1. dir[p] \in Dirs /\ mover[dir[p]] = p
    BY <1>t, <1>7, NoDirAssumption DEF Inv, Handles, Outside, Removals, RemoveRoot, Restore, Hide, TypeOK
  <2> QED
    BY <1>t, <1>7, <2>1 DEF TypeOK, RemoveRoot, Restore, Hide, Goto, Close, CloseAt, Rename
<1>8. CASE GiveUp(p) \/ Restart(p)
  BY <1>t, <1>8 DEF TypeOK, GiveUp, Restart, Goto, Close, CloseAt
<1>9. CASE List(p) \/ Remove(p) \/ PassEnds(p) \/ DeleteFails(p) \/ Retry(p)
  BY <1>t, <1>9 DEF TypeOK, List, Remove, PassEnds, DeleteFails, Retry, Goto, fsVars
<1> QED
  BY <1>1, <1>2, <1>3, <1>4, <1>5, <1>6, <1>7, <1>8, <1>9 DEF Step, Begin, OpenStep, DeleteStep

\* Nobody else renames the tree that a process empties: others know only the
\* profile's name, and it does not have that one.
LEMMA RemovalsKept ==
  ASSUME Inv, NEW p \in Procs, Step(p)
  PROVE  Removals'
<1> USE NoProcAssumption DEF Removals, Emptying
<1>t. TypeOK /\ Removals /\ Moves
  BY DEF Inv
<1>h. \A q \in Procs : pc[q] \in Emptying \cup {"open", "aside", "moved"} => dir[q] \in Dirs
  BY <1>t, NoDirAssumption DEF Inv, TypeOK, Handles, Outside
<1>1. CASE OpenDir(p)
  BY <1>t, <1>1 DEF TypeOK, OpenDir, Goto, AtRoot, fsVars
<1>2. CASE MakeDir(p)
  BY <1>t, <1>h, <1>2 DEF TypeOK, MakeDir, Goto, FreeDirs, fsVars
<1>3. CASE Reopen(p) \/ OpenLock(p)
  BY <1>t, <1>3 DEF TypeOK, Reopen, OpenLock, Goto, Close, CloseAt, fsVars
<1>4. CASE Verify(p) \/ TryLock(p) \/ OpenData(p) \/ Drop(p) \/ BeginDelete(p) \/ Crash(p)
  BY <1>t, <1>4 DEF TypeOK, Verify, TryLock, OpenData, Drop, BeginDelete, Crash, Goto, Close, CloseAt, fsVars
<1>5. CASE Aside(p)
  BY <1>t, <1>h, <1>5 DEF TypeOK, Aside, Goto, Close, CloseAt, Rename, AtRoot
<1>6. CASE Moved(p)
  BY <1>t, <1>h, <1>6 DEF TypeOK, Moved, Mine, Goto, Close, CloseAt, Rename
<1>7. CASE RemoveRoot(p) \/ Restore(p) \/ Hide(p)
  BY <1>t, <1>h, <1>7 DEF TypeOK, RemoveRoot, Restore, Hide, Goto, Close, CloseAt, Rename
<1>8. CASE GiveUp(p) \/ Restart(p)
  BY <1>t, <1>h, <1>8 DEF TypeOK, GiveUp, Restart, Goto, Close, CloseAt
<1>9. CASE List(p) \/ Remove(p) \/ PassEnds(p) \/ DeleteFails(p) \/ Retry(p)
  BY <1>t, <1>9 DEF TypeOK, List, Remove, PassEnds, DeleteFails, Retry, Goto, fsVars
<1> QED
  BY <1>1, <1>2, <1>3, <1>4, <1>5, <1>6, <1>7, <1>8, <1>9 DEF Step, Begin, OpenStep, DeleteStep

\* The history variable remembers every deletion that fails.
LEMMA NotedKept ==
  ASSUME Inv, NEW p \in Procs, Step(p)
  PROVE  Noted'
<1>1. NoteFailure
  BY DEF Step, Begin, OpenStep, DeleteStep
<1> QED
  BY <1>1 DEF NoteFailure, Noted

\* Every rename to the profile's name is to a name that is free.
LEMMA OneRootKept ==
  ASSUME Inv, NEW p \in Procs, Step(p)
  PROVE  OneRoot'
<1> USE DEF OneRoot, AtRoot
<1>t. TypeOK /\ OneRoot
  BY DEF Inv
<1>1. CASE MakeDir(p)
  BY <1>t, <1>1 DEF TypeOK, MakeDir, FreeDirs
<1>2. CASE Aside(p) \/ Moved(p)
  BY <1>t, <1>2 DEF TypeOK, Aside, Moved, Rename
<1>3. CASE RemoveRoot(p) \/ Restore(p) \/ Hide(p)
  BY <1>t, <1>3 DEF TypeOK, RemoveRoot, Restore, Hide, Rename
<1>4. CASE UNCHANGED place
  BY <1>t, <1>4
<1> QED
  BY <1>1, <1>2, <1>3, <1>4 DEF Step, Begin, OpenStep, DeleteStep, OpenDir, Reopen, OpenLock, Verify,
     TryLock, OpenData, Drop, BeginDelete, List, Remove, PassEnds, DeleteFails, Retry, GiveUp, Crash,
     Restart, fsVars

\* A directory that has been emptied in part, or whose name is a remainder's, never
\* gets the profile's name again, but for a new one that nobody has opened.
LEMMA UntouchedStays ==
  ASSUME Inv, NEW p \in Procs, Step(p), ~ failed', NEW d \in Dirs, Untouched(d)'
  PROVE  Untouched(d) \/ \A q \in Procs : dir[q] # d
<1> USE NoProcAssumption DEF Untouched
<1>t. TypeOK /\ Moves
  BY DEF Inv
<1>n. pc'[p] # "failed" /\ pc[p] # "failed"
  BY DEF Inv, Noted, Step, Begin, OpenStep, DeleteStep, NoteFailure
<1>1. CASE MakeDir(p)
  BY <1>t, <1>1 DEF TypeOK, MakeDir, Goto, FreeDirs
<1>2. CASE Aside(p)
  BY <1>t, <1>2 DEF TypeOK, Aside, Goto, Close, CloseAt, Rename, AtRoot, Moves, Moving, Emptying
<1>3. CASE Moved(p)
  BY <1>t, <1>3 DEF TypeOK, Moved, Goto, Close, CloseAt, Rename, Moves
<1>4. CASE RemoveRoot(p) \/ Hide(p)
  BY <1>t, <1>n, <1>4 DEF TypeOK, RemoveRoot, Hide, Goto, Close, CloseAt, Rename
<1>5. CASE Restore(p) \/ GiveUp(p) \/ Retry(p)
  BY <1>n, <1>5 DEF Restore, GiveUp, Retry
<1>6. CASE Restart(p)
  BY <1>t, <1>6 DEF TypeOK, Restart, Goto
<1>7. CASE OpenDir(p) \/ Reopen(p) \/ OpenLock(p) \/ Verify(p) \/ TryLock(p) \/ OpenData(p) \/ Drop(p)
           \/ BeginDelete(p) \/ List(p) \/ Remove(p) \/ PassEnds(p) \/ DeleteFails(p) \/ Crash(p)
  <2>1. UNCHANGED <<place, mover>>
    BY <1>7 DEF OpenDir, Reopen, OpenLock, Verify, TryLock, OpenData, Drop, BeginDelete, List, Remove,
                PassEnds, DeleteFails, Crash, fsVars
  <2>2. pc'[p] # "moved" /\ \A q \in Procs \ {p} : pc'[q] = pc[q]
    BY <1>t, <1>7 DEF TypeOK, OpenDir, Reopen, OpenLock, Verify, TryLock, OpenData, Drop, BeginDelete,
                List, Remove, PassEnds, DeleteFails, Crash, Goto, Close, CloseAt
  <2>3. mover[d] \in Procs \cup {NoProc}
    BY <1>t DEF TypeOK
  <2> QED
    BY <2>1, <2>2, <2>3
<1> QED
  BY <1>1, <1>2, <1>3, <1>4, <1>5, <1>6, <1>7 DEF Step, Begin, OpenStep, DeleteStep

\* Every variable stays in its range.
LEMMA TypesKept ==
  ASSUME Inv, NEW p \in Procs, Step(p)
  PROVE  TypeOK'
<1> USE NoProcAssumption DEF TypeOK
<1>t. TypeOK /\ Handles /\ Passes
  BY DEF Inv
<1>p. pc' \in [Procs -> Opening \cup Deleting \cup {"idle", "open", "crashed"}]
  BY <1>t, OwnPlace
<1>n. failed' \in BOOLEAN
  BY DEF Step, Begin, OpenStep, DeleteStep, NoteFailure
<1>h. pc[p] \notin Outside => dir[p] \in Dirs
  BY <1>t DEF Handles
<1>1. place' \in [Dirs -> {"none", "root", "tomb", "rm"}] /\ mover' \in [Dirs -> Procs \cup {NoProc}]
  BY <1>t DEF Step, Begin, OpenStep, DeleteStep, OpenDir, MakeDir, Reopen, OpenLock, Verify, TryLock,
     OpenData, Drop, BeginDelete, Aside, Moved, List, Remove, PassEnds, Hide, RemoveRoot, DeleteFails,
     Restore, Retry, GiveUp, Crash, Restart, CloseAt, Close, fsVars, Rename
<1>2. lockFile' \in [Dirs -> Files \cup {NoFile}] /\ data' \subseteq Dirs
  BY <1>t, <1>h DEF Step, Begin, OpenStep, DeleteStep, OpenDir, MakeDir, Reopen, OpenLock, Verify, TryLock,
     OpenData, Drop, BeginDelete, Aside, Moved, List, Remove, PassEnds, Hide, RemoveRoot, DeleteFails,
     Restore, Retry, GiveUp, Crash, Restart, CloseAt, Close, fsVars,
     FreeFiles, Outside
<1>3. owner' \in [Files -> Procs \cup {NoProc}]
  BY <1>t DEF Step, Begin, OpenStep, DeleteStep, OpenDir, MakeDir, Reopen, OpenLock, Verify, TryLock,
     OpenData, Drop, BeginDelete, Aside, Moved, List, Remove, PassEnds, Hide, RemoveRoot, DeleteFails,
     Restore, Retry, GiveUp, Crash, Restart, CloseAt, Close, fsVars
<1>4. dir' \in [Procs -> Dirs \cup {NoDir}]
  BY <1>t DEF Step, Begin, OpenStep, DeleteStep, OpenDir, MakeDir, Reopen, OpenLock, Verify, TryLock,
     OpenData, Drop, BeginDelete, Aside, Moved, List, Remove, PassEnds, Hide, RemoveRoot, DeleteFails,
     Restore, Retry, GiveUp, Crash, Restart, CloseAt, Close, fsVars, AtRoot
<1>5. file' \in [Procs -> Files \cup {NoFile}]
  BY <1>t, <1>h DEF Step, Begin, OpenStep, DeleteStep, OpenDir, MakeDir, Reopen, OpenLock, Verify, TryLock,
     OpenData, Drop, BeginDelete, Aside, Moved, List, Remove, PassEnds, Hide, RemoveRoot, DeleteFails,
     Restore, Retry, GiveUp, Crash, Restart, CloseAt, Close, fsVars,
     FreeFiles, Outside
<1>6. todo' \in [Procs -> SUBSET {"lock", "data"}]
  BY <1>t DEF Step, Begin, OpenStep, DeleteStep, OpenDir, MakeDir, Reopen, OpenLock, Verify, TryLock,
     OpenData, Drop, BeginDelete, Aside, Moved, List, Remove, PassEnds, Hide, RemoveRoot, DeleteFails,
     Restore, Retry, GiveUp, Crash, Restart, CloseAt, Close, fsVars, Entries
<1>7. pass' \in [Procs -> 0 .. MaxPasses]
  <2>1. pc[p] = "list" => pass[p] + 1 \in 0 .. MaxPasses
    BY <1>t, PassesAssumption DEF Passes
  <2>2. 0 \in 0 .. MaxPasses
    BY PassesAssumption
  <2> QED
    BY <1>t, <2>1, <2>2 DEF Step, Begin, OpenStep, DeleteStep, OpenDir, MakeDir, Reopen, OpenLock, Verify, TryLock,
     OpenData, Drop, BeginDelete, Aside, Moved, List, Remove, PassEnds, Hide, RemoveRoot, DeleteFails,
     Restore, Retry, GiveUp, Crash, Restart, CloseAt, Close, fsVars
<1>8. retry' \in [Procs -> BOOLEAN]
  BY <1>t DEF Step, Begin, OpenStep, DeleteStep, OpenDir, MakeDir, Reopen, OpenLock, Verify, TryLock,
     OpenData, Drop, BeginDelete, Aside, Moved, List, Remove, PassEnds, Hide, RemoveRoot, DeleteFails,
     Restore, Retry, GiveUp, Crash, Restart, CloseAt, Close, fsVars
<1> QED
  BY <1>p, <1>n, <1>1, <1>2, <1>3, <1>4, <1>5, <1>6, <1>7, <1>8

\* Who makes a lock file is the first one in the directory; and only a tree that
\* has been moved aside loses its lock file.
LEMMA WholeKept ==
  ASSUME Inv, NEW p \in Procs, Step(p)
  PROVE  Whole'
<1> SUFFICES ASSUME ~ failed', NEW q \in Procs, pc'[q] \notin Unlocked, Untouched(dir[q])'
             PROVE  lockFile'[dir'[q]] = file'[q]
  BY DEF Whole
<1>t. TypeOK /\ Handles /\ ~ failed
  BY DEF Inv, Step, Begin, OpenStep, DeleteStep, NoteFailure
<1>d. dir'[q] \in Dirs
  BY HandlesKept, TypesKept DEF Handles, TypeOK, Unlocked
<1>u. Untouched(dir'[q]) \/ dir[q] # dir'[q]
  BY <1>d, UntouchedStays DEF Untouched
<1>1. CASE OpenLock(p) /\ p = q
  BY <1>t, <1>d, <1>1 DEF OpenLock, TypeOK, Close, CloseAt, Goto, Unlocked, Outside
<1>2. CASE OpenLock(p) /\ p # q
  <2>1. pc'[q] = pc[q] /\ dir'[q] = dir[q] /\ file'[q] = file[q]
    BY <1>t, <1>2 DEF OpenLock, TypeOK, Close, CloseAt, Goto
  <2>2. lockFile[dir[q]] = file[q] /\ file[q] # NoFile
    BY <1>t, <1>u, <2>1 DEF Inv, Whole, Handles
  <2> QED
    BY <1>t, <1>d, <1>2, <2>1, <2>2 DEF OpenLock, TypeOK, Close, CloseAt
<1>3. CASE Remove(p)
  <2>1. pc[q] \notin Unlocked /\ dir'[q] = dir[q] /\ file'[q] = file[q]
    BY <1>t, <1>3 DEF Remove, TypeOK, Goto, Unlocked, Outside
  <2>2. lockFile[dir[q]] = file[q]
    BY <1>t, <1>u, <2>1 DEF Inv, Whole
  <2>3. dir[p] # dir[q]
    BY <1>u, <1>3, <2>1 DEF Remove, Mine, Untouched
  <2> QED
    BY <1>t, <1>3, <2>1, <2>2, <2>3 DEF Remove, TypeOK
<1>4. CASE ~ OpenLock(p) /\ ~ Remove(p)
  <2>1. lockFile' = lockFile
    BY <1>4 DEF Step, Begin, OpenStep, DeleteStep, OpenDir, MakeDir, Reopen, Verify, TryLock, OpenData, Drop,
       BeginDelete, Aside, Moved, List, PassEnds, Hide, RemoveRoot, DeleteFails, Restore, Retry, GiveUp,
       Crash, Restart, fsVars
  <2>2. pc[q] \notin Unlocked /\ dir'[q] = dir[q] /\ file'[q] = file[q]
    BY <1>t, <1>4 DEF TypeOK, Step, Begin, OpenStep, DeleteStep, OpenDir, MakeDir, Reopen, Verify, TryLock,
       OpenData, Drop, BeginDelete, Aside, Moved, List, PassEnds, Hide, RemoveRoot, DeleteFails, Restore,
       Retry, GiveUp, Crash, Restart, CloseAt, Close, Goto, Unlocked, Outside
  <2> QED
    BY <1>t, <1>u, <2>1, <2>2 DEF Inv, Whole
<1> QED
  BY <1>1, <1>2, <1>3, <1>4

\* Nothing is open, and nothing exists.
LEMMA InitInv == Init => Inv
<1> SUFFICES ASSUME Init PROVE Inv
  OBVIOUS
<1>1. TypeOK
  <2>1. 0 \in 0 .. MaxPasses
    BY PassesAssumption
  <2> QED
    BY <2>1 DEF Init, TypeOK
<1>2. Handles /\ Passes /\ Locked
  BY DEF Init, Handles, Passes, Locked, Outside, Unlocked, Emptying, HasLock, Deleting
<1>3. Moves /\ Removals /\ Noted /\ OneRoot
  BY DEF Init, Moves, Removals, Noted, OneRoot, AtRoot, Emptying
<1>4. Whole
  BY DEF Init, Whole, Unlocked, Outside
<1> QED
  BY <1>1, <1>2, <1>3, <1>4 DEF Inv

\* The invariant is inductive.
LEMMA InvKept == Inv /\ [Next]_vars => Inv'
<1> SUFFICES ASSUME Inv, [Next]_vars PROVE Inv'
  OBVIOUS
<1>1. CASE Next
  <2>1. PICK p \in Procs : Step(p)
    BY <1>1 DEF Next, Step
  <2> QED
    BY <2>1, HandlesKept, PassesKept, LockedKept, MovesKept, RemovalsKept, NotedKept, OneRootKept,
       TypesKept, WholeKept DEF Inv
<1>2. CASE UNCHANGED vars
  BY <1>2 DEF vars, fsVars, procVars, Inv, TypeOK, Handles, Passes, Locked, Moves, Removals, Noted,
     OneRoot, AtRoot, Whole, Untouched
<1> QED
  BY <1>1, <1>2

\* The invariant holds in every reachable state.
LEMMA AlwaysInv == Spec => []Inv
BY InitInv, InvKept, PTL DEF Spec

-----------------------------------------------------------------------------
\* Every variable of Profile::open and Profile::delete stays in its range; the
\* passes of a deletion stay within MAX_DELETE_PASSES.
THEOREM TypeCorrect == Spec => []TypeOK
<1>1. Inv => TypeOK
  BY DEF Inv
<1> QED
  BY AlwaysInv, <1>1, PTL

\* PROF-1: as long as no deletion has failed half-way, who has the profile open
\* under its name holds the lock of the file that is there, and is the only one;
\* however many processes open, delete, die and come back.
THEOREM OpenIsExclusive == Spec => []ExclusiveOpen
<1>1. Inv => ExclusiveOpen
  <2> SUFFICES ASSUME Inv, ~ failed, NEW p \in Procs, pc[p] = "open", dir[p] \in AtRoot
               PROVE  /\ lockFile[dir[p]] = file[p] /\ owner[file[p]] = p
                      /\ \A q \in Procs : pc[q] = "open" /\ dir[q] = dir[p] => q = p
    BY DEF ExclusiveOpen
  <2>1. \A q \in Procs : pc[q] = "open" /\ dir[q] = dir[p] => lockFile[dir[p]] = file[q] /\ owner[file[q]] = q
    BY DEF Inv, Whole, Untouched, AtRoot, Locked, HasLock, Unlocked, Outside
  <2> QED
    BY <2>1
<1> QED
  BY AlwaysInv, <1>1, PTL

\* Only Remove takes an entry away, and it has checked the name of the directory.
LEMMA EmptiedAside ==
  ASSUME Inv, NEW p \in Procs, Step(p)
  PROVE  RemovalIsHidden
<1> USE DEF RemovalIsHidden, Entries
<1>t. TypeOK
  BY DEF Inv
<1>1. CASE Remove(p)
  BY <1>t, <1>1 DEF TypeOK, Remove, Mine
<1>2. CASE OpenLock(p)
  BY <1>t, <1>2, NoFileAssumption DEF TypeOK, OpenLock, FreeFiles
<1>3. CASE OpenData(p)
  BY <1>t, <1>3 DEF TypeOK, OpenData
<1>4. CASE UNCHANGED <<lockFile, data>>
  BY <1>4
<1> QED
  BY <1>1, <1>2, <1>3, <1>4 DEF Step, Begin, OpenStep, DeleteStep, OpenDir, MakeDir, Reopen, Verify, TryLock,
     Drop, BeginDelete, Aside, Moved, List, PassEnds, Hide, RemoveRoot, DeleteFails, Restore, Retry,
     GiveUp, Crash, Restart, fsVars

\* At no step do two directories have the profile's name, and no step takes an
\* entry out of the directory that has it, failed deletions included.
THEOREM NameStaysSafe == Spec => NameIsSafe
<1>1. Inv /\ [Next]_vars => [OneRoot' /\ RemovalIsHidden]_vars
  BY InvKept, EmptiedAside DEF Inv, Next, Step
<1> QED
  BY AlwaysInv, <1>1, PTL DEF Spec, NameIsSafe

=============================================================================
