---------------------------------- MODULE Adbd ----------------------------------
(***************************************************************************)
(* adbd while multirom runs (trampoline/adb.c): a thread sets it up and    *)
(* starts it again whenever it ends; adb_quit kills it and joins the       *)
(* thread.  run_thread and adb_pid are shared without a lock.              *)
(***************************************************************************)
VARIABLES
    run_thread,
    adb_pid,        \* "unset" (-1), "child" (the last one forked) or "past" (one already waited for)
    adb_thread,     \* where the thread is
    child,          \* the last adbd: "none", "runs", "dead" or "reaped"
    any,            \* waitpid was called with -1
    set_up,         \* what adb_cleanup must take away again; "folder" is /sdcard with nothing mounted on it
    missed,         \* history: adb_quit's kill came between the thread's test and its note of the pid
    users,          \* the mounts a process of some shell has in use
    kept            \* history: the mounts that were in use when they were to be unmounted

shellVars == <<users, kept>>
adbVars == <<run_thread, adb_pid, adb_thread, child, any, set_up, missed, shellVars>>

Base == {"usb-ffs", "mrom_bin", "pts"}
Mounts == {"usb-ffs", "pts", "sdcard"}
\* What an adb_thread_work that gives up early leaves.
BrokenOff == {{}, {"usb-ffs", "mrom_bin"}, Base}

AdbInit ==
    /\ run_thread = FALSE /\ adb_pid = "unset" /\ adb_thread = "none"
    /\ child = "none" /\ any = FALSE /\ set_up = {} /\ missed = FALSE
    /\ users = {} /\ kept = {}

adb_init ==
    /\ ~run_thread
    /\ run_thread' = TRUE /\ adb_thread' = "starts"
    /\ UNCHANGED <<adb_pid, child, any, set_up, missed, shellVars>>

\* adb_is_enabled, adb_init_usb, adb_init_busybox and adb_init_fs: an error leaves behind what
\* was there by then, and a mount of /sdcard that fails is passed over.
adb_thread_Starts ==
    /\ adb_thread = "starts"
    /\ \/ adb_thread' = "ended" /\ UNCHANGED set_up
       \/ adb_thread' = "ended" /\ set_up' \in BrokenOff \ {{}}
       \/ adb_thread' = "loop" /\ set_up' \in {Base \cup {"sdcard"}, Base \cup {"folder"}}
    /\ UNCHANGED <<run_thread, adb_pid, child, any, missed, shellVars>>

adb_thread_Tests ==
    /\ adb_thread = "loop"
    /\ adb_thread' = IF run_thread THEN "fork" ELSE "cleanup"
    /\ UNCHANGED <<run_thread, adb_pid, child, any, set_up, missed, shellVars>>

adb_thread_Forks ==
    /\ adb_thread = "fork"
    /\ child' = "runs" /\ adb_thread' = "forked"
    /\ UNCHANGED <<run_thread, adb_pid, any, set_up, missed, shellVars>>

adb_thread_Notes ==
    /\ adb_thread = "forked"
    /\ adb_pid' = "child" /\ adb_thread' = "noted"
    /\ UNCHANGED <<run_thread, child, any, set_up, missed, shellVars>>

\* waitpid reads adb_pid again.
adb_thread_Waits ==
    /\ adb_thread = "noted"
    /\ any' = (adb_pid = "unset") /\ adb_thread' = "waits"
    /\ UNCHANGED <<run_thread, adb_pid, child, set_up, missed, shellVars>>

adb_thread_Reaps ==
    /\ adb_thread = "waits" /\ child = "dead"
    /\ child' = "reaped" /\ adb_thread' = "loop"
    /\ adb_pid' = IF adb_pid = "child" THEN "past" ELSE adb_pid
    /\ UNCHANGED <<run_thread, any, set_up, missed, shellVars>>

\* adbd ends by itself: it cannot be executed, or its transport is gone.
AdbdEnds ==
    /\ child = "runs" /\ child' = "dead"
    /\ UNCHANGED <<run_thread, adb_pid, adb_thread, any, set_up, missed, shellVars>>

\* What is run from a shell, external, may outlive adbd.
ShellUses(mount) ==
    /\ child = "runs" /\ mount \in Mounts \cup {"realdata"}
    /\ users' = users \cup {mount}
    /\ UNCHANGED <<run_thread, adb_pid, adb_thread, child, any, set_up, missed, kept>>

ShellsEnd ==
    /\ users # {} /\ users' = {}
    /\ UNCHANGED <<run_thread, adb_pid, adb_thread, child, any, set_up, missed, kept>>

\* A mount in use stays, and so does /sdcard's folder if nothing could be unmounted from it.
adb_cleanup ==
    /\ adb_thread = "cleanup" /\ adb_thread' = "ended"
    /\ set_up' = (set_up \cap Mounts \cap users) \cup (set_up \cap {"folder"})
    /\ kept' = kept \cup (set_up \cap Mounts \cap users)
    /\ UNCHANGED <<run_thread, adb_pid, child, any, missed, users>>

AdbThread ==
    \/ adb_thread_Starts \/ adb_thread_Tests \/ adb_thread_Forks \/ adb_thread_Notes
    \/ adb_thread_Waits \/ adb_thread_Reaps \/ AdbdEnds \/ adb_cleanup
    \/ ShellsEnd \/ \E mount \in Mounts \cup {"realdata"} : ShellUses(mount)

-----------------------------------------------------------------------------
\* adb_quit, in main's steps.

adb_quit_Stops ==
    /\ run_thread' = FALSE
    /\ UNCHANGED <<adb_pid, adb_thread, child, any, set_up, missed, shellVars>>

\* Nobody is killed once the thread has been told to stop.
adb_quit_Kills_Running ==
    /\ child' = IF adb_pid = "child" /\ child = "runs" /\ run_thread THEN "dead" ELSE child
    /\ missed' = (adb_thread \in {"fork", "forked"})
    /\ UNCHANGED <<run_thread, adb_pid, adb_thread, any, set_up, shellVars>>

\* A pid that has been waited for may be anybody's by now.
adb_quit_Kills ==
    /\ child' = IF adb_pid = "child" /\ child = "runs" THEN "dead" ELSE child
    /\ missed' = (adb_thread \in {"fork", "forked"})
    /\ UNCHANGED <<run_thread, adb_pid, adb_thread, any, set_up, shellVars>>

adb_quit_Forgets ==
    /\ adb_pid' = "unset"
    /\ UNCHANGED <<run_thread, adb_thread, child, any, set_up, missed, shellVars>>

Joinable == adb_thread \in {"none", "ended"}
===============================================================================
