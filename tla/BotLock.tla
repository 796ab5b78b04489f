-------------------------------- MODULE BotLock --------------------------------
(***************************************************************************)
(* The single-instance lock of one segment: processes started by `cli run` *)
(* acquire and release an flock on .bot.lock.<segment> (bot/lock.py,       *)
(* cli.py).  A lock belongs to a file, not to its name: a process keeps    *)
(* the lock of a file another process has unlinked.                        *)
(***************************************************************************)
EXTENDS Naturals, FiniteSets

CONSTANTS
    Procs,          \* starts of the bot: every one is a process of its own
    Files,          \* inodes
    Forcing,        \* some starts pass --force-lock
    Deleting,       \* the operator deletes what the preflight calls an orphan
    None            \* no file, no process

ASSUME LockAssumption ==
    /\ Forcing \in BOOLEAN /\ Deleting \in BOOLEAN
    /\ None \notin Procs \cup Files

VARIABLES
    path,       \* the file the lock's name leads to
    pid,        \* the process id written in each file
    fd,         \* the lock file each process has open
    pc,         \* where each process is
    force,      \* its --force-lock flag
    stolen      \* history: its open file was unlinked by somebody else

vars == <<path, pid, fd, pc, force, stolen>>

\* new: not yet started;  ready: about to open;  opened: about to flock;  breaking: about to unlink
\* for --force-lock;  locked: flock taken, process id not yet written;
\* running;  exiting: jobs over, about to release;  hangup: the signal
\* handler of lock.py releases while the jobs go on;  unlinking, cutting:
\* unlocked, about to unlink, from exiting and from hangup;  dying: about to
\* re-raise the signal.
Places == {"new", "gone", "refused", "ready", "opened", "breaking", "locked", "running",
           "exiting", "hangup", "unlinking", "cutting", "dying"}

\* From the open to the close of the lock file.
HasOpen == {"opened", "locked", "running", "exiting", "hangup"}

TypeOK ==
    /\ path \in Files \cup {None}
    /\ pid \in [Files -> Procs \cup {None}]
    /\ fd \in [Procs -> Files \cup {None}]
    /\ pc \in [Procs -> Places]
    /\ force \in [Procs -> BOOLEAN]
    /\ stolen \in [Procs -> BOOLEAN]
    /\ \A p \in Procs : fd[p] # None <=> pc[p] \in HasOpen

Init ==
    /\ path = None
    /\ pid = [f \in Files |-> None]
    /\ fd = [p \in Procs |-> None]
    /\ pc = [p \in Procs |-> "new"]
    /\ force = [p \in Procs |-> FALSE]
    /\ stolen = [p \in Procs |-> FALSE]

\* p's file carries p's flock.
Holds(p) == pc[p] \in {"locked", "running", "exiting", "hangup"}

\* The scheduler's jobs, or the sweep of its signal handler, may be running.
Active(p) == pc[p] \in {"running", "exiting", "hangup", "cutting", "dying"}

Alive(p) == pc[p] \notin {"new", "gone", "refused"}

Goto(p, l) == pc' = [pc EXCEPT ![p] = l]

\* The name is removed by a process, or by nobody of Procs (None).
Remove(by) ==
    /\ path' = None
    /\ stolen' = [q \in Procs |-> stolen[q] \/ (q # by /\ path # None /\ fd[q] = path)]

-------------------------------------------------------------------------------
\* `cli run`.
Launch(p) ==
    /\ pc[p] = "new"
    /\ Goto(p, "ready")
    /\ \E f \in {FALSE, Forcing} : force' = [force EXCEPT ![p] = f]
    /\ UNCHANGED <<path, pid, fd, stolen>>

\* A file nobody has open; which one does not matter.
Fresh == LET free == {f \in Files : \A q \in Procs : fd[q] # f}
         IN  {f \in free : f = CHOOSE g \in free : TRUE}

\* open(path, "a+") creates the file when the name is free.
Open(p) ==
    /\ pc[p] = "ready"
    /\ \/ /\ path # None
          /\ fd' = [fd EXCEPT ![p] = path]
          /\ UNCHANGED <<path, pid>>
       \/ \E f \in Fresh :
             /\ path = None
             /\ path' = f
             /\ pid' = [pid EXCEPT ![f] = None]
             /\ fd' = [fd EXCEPT ![p] = f]
    /\ Goto(p, "opened")
    /\ UNCHANGED <<force, stolen>>

\* flock(LOCK_EX | LOCK_NB).
Blocked(p) == \E q \in Procs \ {p} : Holds(q) /\ fd[q] = fd[p]

FlockShared(p) ==  \* mutant: LOCK_SH
    /\ pc[p] = "opened"
    /\ Goto(p, "locked")
    /\ UNCHANGED <<path, pid, fd, force, stolen>>

Flock(p) ==
    /\ pc[p] = "opened" /\ ~Blocked(p)
    /\ Goto(p, "locked")
    /\ UNCHANGED <<path, pid, fd, force, stolen>>

RefuseWaits(p) ==  \* mutant: without LOCK_NB
    /\ pc[p] = "opened" /\ Blocked(p) /\ force[p]
    /\ Goto(p, "refused")
    /\ fd' = [fd EXCEPT ![p] = None]
    /\ UNCHANGED <<path, pid, force, stolen>>

Refuse(p) ==
    /\ pc[p] = "opened" /\ Blocked(p) /\ ~force[p]
    /\ Goto(p, "refused")
    /\ fd' = [fd EXCEPT ![p] = None]
    /\ UNCHANGED <<path, pid, force, stolen>>

\* --force-lock unlinks the name, whatever it leads to by now, and tries
\* once more without the flag.
ForceOpen(p) ==
    /\ pc[p] = "opened" /\ Blocked(p) /\ force[p]
    /\ Goto(p, "breaking")
    /\ fd' = [fd EXCEPT ![p] = None]
    /\ UNCHANGED <<path, pid, force, stolen>>

Break(p) ==
    /\ pc[p] = "breaking"
    /\ Remove(p)
    /\ Goto(p, "ready")
    /\ force' = [force EXCEPT ![p] = FALSE]
    /\ UNCHANGED <<pid, fd>>

\* The process id replaces what an earlier holder left in the file.
WritePidUnflushed(p) ==  \* mutant: truncated, and the text never flushed
    /\ pc[p] = "locked"
    /\ pid' = [pid EXCEPT ![fd[p]] = None]
    /\ Goto(p, "running")
    /\ UNCHANGED <<path, fd, force, stolen>>

WritePid(p) ==
    /\ pc[p] = "locked"
    /\ pid' = [pid EXCEPT ![fd[p]] = p]
    /\ Goto(p, "running")
    /\ UNCHANGED <<path, fd, force, stolen>>

Acquire(p) ==
    Open(p) \/ Flock(p) \/ Refuse(p) \/ ForceOpen(p) \/ Break(p) \/ WritePid(p)

-------------------------------------------------------------------------------
\* SIGTERM or SIGINT under the scheduler: jobs end, then atexit releases.
Exit(p) ==
    /\ pc[p] = "running"
    /\ Goto(p, "exiting")
    /\ UNCHANGED <<path, pid, fd, force, stolen>>

\* SIGHUP, or an earlier SIGTERM: lock.py's handler releases first.
Hangup(p) ==
    /\ pc[p] = "running"
    /\ Goto(p, "hangup")
    /\ UNCHANGED <<path, pid, fd, force, stolen>>

\* release: unlock and close, and only then unlink.
Unlock(p) ==
    /\ pc[p] \in {"exiting", "hangup"}
    /\ Goto(p, IF pc[p] = "exiting" THEN "unlinking" ELSE "cutting")
    /\ fd' = [fd EXCEPT ![p] = None]
    /\ UNCHANGED <<path, pid, force, stolen>>

Unlink(p) ==
    /\ pc[p] \in {"unlinking", "cutting"}
    /\ Remove(p)
    /\ Goto(p, IF pc[p] = "unlinking" THEN "gone" ELSE "dying")
    /\ UNCHANGED <<pid, fd, force>>

Die(p) ==
    /\ pc[p] = "dying"
    /\ Goto(p, "gone")
    /\ UNCHANGED <<path, pid, fd, force, stolen>>

Release(p) == Unlock(p) \/ Unlink(p) \/ Die(p)

\* SIGKILL or power loss: the kernel drops the flock, the file stays.
Crash(p) ==
    /\ Alive(p)
    /\ Goto(p, "gone")
    /\ fd' = [fd EXCEPT ![p] = None]
    /\ UNCHANGED <<path, pid, force, stolen>>

\* check_no_orphan_lock_files reports a file that names no live process, and
\* its reader deletes it.
DeleteOrphan ==
    /\ Deleting /\ path # None
    /\ pid[path] \notin {q \in Procs : Alive(q)}
    /\ Remove(None)
    /\ UNCHANGED <<pid, fd, pc, force>>

Next ==
    \/ \E p \in Procs : Launch(p) \/ Acquire(p) \/ Exit(p) \/ Hangup(p)
                           \/ Release(p) \/ Crash(p)
    \/ DeleteOrphan

Spec == Init /\ [][Next]_vars

\* A process that is starting or stopping is scheduled.
FairSpec == Spec /\ \A p \in Procs : WF_vars(Acquire(p)) /\ WF_vars(Release(p))

-------------------------------------------------------------------------------
(* Properties.                                                             *)

\* Two bots of a segment run at once only if the file of one of them was
\* unlinked by somebody else while it had it open (a release after its
\* unlock, --force-lock, the deletion of a supposed orphan), or while one of
\* them is past its own unlock in lock.py's signal handler.
TwoNeedTheft ==
    \A p, q \in Procs : Active(p) /\ Active(q) /\ p # q =>
        \/ stolen[p] \/ stolen[q]
        \/ {pc[p], pc[q]} \cap {"cutting", "dying"} # {}

\* The process id that a refusal and the preflight read in the lock file is
\* that of the bot that holds the file.
PidNamesHolder ==
    \A p \in Procs : Active(p) /\ Holds(p) /\ fd[p] = path => pid[path] = p

\* An operator who deletes what the preflight calls an orphan takes the file
\* from a process that is just acquiring it, never from a running bot.
OrphanHasNoBot ==
    [][\A p \in Procs : DeleteOrphan /\ Active(p) => stolen'[p] = stolen[p]]_vars

\* A start ends: the bot runs, is refused or dies; it does not wait for a
\* lock, neither a running bot's nor one that a crashed holder left behind.
StartEnds == \A p \in Procs : pc[p] = "ready" ~> pc[p] \in {"running", "refused", "gone"}
===============================================================================
