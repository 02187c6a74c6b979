------------------------------ MODULE PkgCache ------------------------------
(* The object-file cache of the native back end. Processes that run programs *)
(* of one root compile every package to an object file in the cache          *)
(* directory, or take the one that is there when the md5 of the sources is   *)
(* the recorded one, and link the objects. One file lock per package, one    *)
(* for the info file and, in build_program, one for the whole build.         *)
EXTENDS Naturals, FiniteSets

CONSTANTS
    Procs,      \* processes
    Pkgs,       \* imported packages (the main package is never cached)
    External,   \* those of them that are in another place than the program's root
    Versions,   \* contents of a package's sources
    None,
    Partial,    \* an object file that is not completely written
    MaxRuns,    \* runs of the processes, together
    MaxEdits,   \* changes of the sources
    MaxStops    \* processes that crash or fail

ASSUME PkgCacheAssumption ==
    /\ {None, Partial} \cap (Versions \cup Procs) = {} /\ None # Partial
    /\ External \subseteq Pkgs /\ {MaxRuns, MaxEdits, MaxStops} \subseteq Nat

VARIABLES
    source,     \* the sources on disk, None when the package is removed
    object,     \* the object files: None, Partial or the version compiled
    info,       \* the info file: the md5 of each package, or None
    entries,    \* the packages with a cache file that holds the object's path
    lock,       \* the holder of each package's lock file
    info_lock,  \* the holder of info.lock
    build_lock, \* the holder of pkg.lock
    proc,       \* the processes
    runs, edits, stops,     \* counters for the bounds
    spoiled,    \* history: packages whose object was replaced without their md5
    calm        \* history: the sources changed only between complete runs

vars == <<source, object, info, entries, lock, info_lock, build_lock, proc, runs, edits, stops,
          spoiled, calm>>

disk == <<source, object, info, entries>>
locks == <<lock, info_lock, build_lock>>
history == <<edits, stops, spoiled, calm>>

Nothing == [k \in Pkgs |-> None]

(* A process: where it is, whether it calls build_program or exec_program,   *)
(* the packages it has parsed, those still to do, the one it works on, the   *)
(* info file it read, the md5 it computed and what it linked.                *)
Idle == [pc |-> "idle", build |-> FALSE, ast |-> Nothing, todo |-> Pkgs, pkg |-> None, cache |-> Nothing,
         hash |-> None, out |-> Nothing]

Init ==
    /\ source \in [Pkgs -> Versions]
    /\ object = Nothing /\ info = Nothing /\ entries = {}
    /\ lock = Nothing /\ info_lock = None /\ build_lock = None
    /\ proc = [p \in Procs |-> Idle]
    /\ runs = 0 /\ edits = 0 /\ stops = 0
    /\ spoiled = {} /\ calm = TRUE

At(p, pc) == proc[p].pc = pc
Goto(p, pc) == proc' = [proc EXCEPT ![p].pc = pc]
Pkg(p) == proc[p].pkg
-----------------------------------------------------------------------------
(* load_program: the packages are read one by one. *)
Start(p) ==
    /\ At(p, "idle") \/ At(p, "done")
    /\ runs < MaxRuns
    /\ runs' = runs + 1
    /\ \E build \in BOOLEAN :
          proc' = [proc EXCEPT ![p] = [Idle EXCEPT !.pc = "parse", !.build = build]]
    /\ UNCHANGED <<disk, locks, history>>

ParsePkg(p, k) ==
    /\ At(p, "parse") /\ proc[p].ast[k] = None /\ source[k] # None
    /\ proc' = [proc EXCEPT ![p].ast[k] = source[k],
                            ![p].pc = IF \E j \in Pkgs \ {k} : proc[p].ast[j] = None THEN "parse"
                                      ELSE IF proc[p].build THEN "build" ELSE "gen"]
    /\ UNCHANGED <<disk, locks, runs, history>>

ParseFails(p) ==
    /\ At(p, "parse") /\ \E k \in Pkgs : proc[p].ast[k] = None /\ source[k] = None
    /\ proc' = [proc EXCEPT ![p] = Idle]
    /\ UNCHANGED <<disk, locks, runs, history>>

(* build_program takes pkg.lock until the link is done. *)
build_with_lock(p) ==
    /\ At(p, "build") /\ build_lock = None
    /\ build_lock' = p
    /\ Goto(p, "gen")
    /\ UNCHANGED <<disk, lock, info_lock, runs, history>>
-----------------------------------------------------------------------------
(* gen_libs: for each package, in any order, under its lock. *)
LockPkg(p, k) ==
    /\ At(p, "gen") /\ k \in proc[p].todo /\ lock[k] = None
    /\ lock' = [lock EXCEPT ![k] = p]
    /\ proc' = [proc EXCEPT ![p].pc = "load", ![p].pkg = k]
    /\ UNCHANGED <<disk, info_lock, build_lock, runs, history>>

(* Mutant: the object is taken whenever there is one. *)
IsHitIfPresent(k) == k \in entries /\ source[k] # None /\ info[k] # None /\ object[k] # None

(* The cache file exists, the sources exist and have the recorded md5, and   *)
(* there is an object file.                                                  *)
IsHit(k) ==
    k \in entries /\ source[k] # None /\ info[k] = source[k] /\ object[k] # None

load_pkg_cache(p) ==
    /\ At(p, "load")
    /\ Goto(p, IF IsHit(Pkg(p)) THEN "unlock" ELSE "clean")
    /\ UNCHANGED <<disk, locks, runs, history>>

clean_path(p) ==
    /\ At(p, "clean")
    /\ object' = [object EXCEPT ![Pkg(p)] = None]
    /\ Goto(p, "emit")
    /\ UNCHANGED <<source, info, entries, locks, runs, history>>

(* The object file is written in place. *)
emit_code(p) ==
    /\ At(p, "emit")
    /\ object' = [object EXCEPT ![Pkg(p)] = Partial]
    /\ Goto(p, "emitting")
    /\ UNCHANGED <<source, info, entries, locks, runs, history>>

emit_done(p) ==
    /\ At(p, "emitting")
    /\ object' = [object EXCEPT ![Pkg(p)] = proc[p].ast[Pkg(p)]]
    /\ Goto(p, "save")
    /\ UNCHANGED <<source, info, entries, locks, runs, history>>

(* save_pkg_cache: the md5 is the one of the sources as they are now.  Of a  *)
(* package that is gone none is recorded: an external one gets its cache     *)
(* file all the same, for another one this is an error, which is dropped.    *)
save_pkg_cache(p) ==
    /\ At(p, "save")
    /\ \/ /\ source[Pkg(p)] # None
          /\ proc' = [proc EXCEPT ![p].hash = source[Pkg(p)], ![p].pc = "info_lock"]
          /\ UNCHANGED spoiled
       \/ /\ source[Pkg(p)] = None
          /\ Goto(p, IF Pkg(p) \in External THEN "data" ELSE "unlock")
          /\ spoiled' = spoiled \cup {Pkg(p)}
    /\ UNCHANGED <<disk, locks, runs, edits, stops, calm>>

(* write_info_cache: under info.lock the whole file is read and replaced.    *)
LockInfo(p) ==
    /\ At(p, "info_lock") /\ info_lock = None
    /\ info_lock' = p
    /\ Goto(p, "info_read")
    /\ UNCHANGED <<disk, lock, build_lock, runs, history>>

read_info_cache(p) ==
    /\ At(p, "info_read")
    /\ proc' = [proc EXCEPT ![p].cache = info, ![p].pc = "info_write"]
    /\ UNCHANGED <<disk, locks, runs, history>>

(* Mutant: the md5 is not recorded again once there is one. *)
WriteInfoOnce(p) ==
    /\ At(p, "info_write")
    /\ info' = [proc[p].cache EXCEPT ![Pkg(p)] = IF @ = None THEN proc[p].hash ELSE @]
    /\ info_lock' = None
    /\ spoiled' = IF proc[p].hash = proc[p].ast[Pkg(p)] THEN spoiled \ {Pkg(p)}
                  ELSE spoiled \cup {Pkg(p)}
    /\ Goto(p, "data")
    /\ UNCHANGED <<source, object, entries, lock, build_lock, runs, edits, stops, calm>>

(* Mutant: info.lock is not released. *)
WriteInfoKeepsLock(p) ==
    /\ At(p, "info_write")
    /\ info' = [proc[p].cache EXCEPT ![Pkg(p)] = proc[p].hash]
    /\ spoiled' = IF proc[p].hash = proc[p].ast[Pkg(p)] THEN spoiled \ {Pkg(p)}
                  ELSE spoiled \cup {Pkg(p)}
    /\ Goto(p, "data")
    /\ UNCHANGED <<source, object, entries, locks, runs, edits, stops, calm>>

write_info_cache(p) ==
    /\ At(p, "info_write")
    /\ info' = [proc[p].cache EXCEPT ![Pkg(p)] = proc[p].hash]
    /\ info_lock' = None
    /\ spoiled' = IF proc[p].hash = proc[p].ast[Pkg(p)] THEN spoiled \ {Pkg(p)}
                  ELSE spoiled \cup {Pkg(p)}
    /\ Goto(p, "data")
    /\ UNCHANGED <<source, object, entries, lock, build_lock, runs, edits, stops, calm>>

(* The cache file comes last. *)
save_data_to_file(p) ==
    /\ At(p, "data")
    /\ entries' = entries \cup {Pkg(p)}
    /\ Goto(p, "unlock")
    /\ UNCHANGED <<source, object, info, locks, runs, history>>

UnlockPkg(p) ==
    /\ At(p, "unlock")
    /\ lock' = [lock EXCEPT ![Pkg(p)] = None]
    /\ proc' = [proc EXCEPT ![p].todo = @ \ {Pkg(p)}, ![p].pkg = None, ![p].hash = None,
                            ![p].cache = Nothing,
                            ![p].pc = IF proc[p].todo = {Pkg(p)} THEN "link" ELSE "gen"]
    /\ UNCHANGED <<disk, info_lock, build_lock, runs, history>>

(* link_all_libs reads the objects after their locks are released; one that  *)
(* is missing or incomplete fails the link.                                  *)
link_all_libs(p) ==
    /\ At(p, "link")
    /\ proc' = [proc EXCEPT ![p].out = object, ![p].pc = "done"]
    /\ build_lock' = IF build_lock = p THEN None ELSE build_lock
    /\ UNCHANGED <<disk, lock, info_lock, runs, history>>
-----------------------------------------------------------------------------
(* External: a process crashes, or fails and returns early; its locks are    *)
(* released, its files stay.                                                 *)
Replacing == {"emit", "emitting", "save", "info_lock", "info_read", "info_write"}

Stop(p) ==
    /\ proc[p].pc \notin {"idle", "done"} /\ stops < MaxStops
    /\ stops' = stops + 1
    /\ proc' = [proc EXCEPT ![p] = Idle]
    /\ lock' = [k \in Pkgs |-> IF lock[k] = p THEN None ELSE lock[k]]
    /\ info_lock' = IF info_lock = p THEN None ELSE info_lock
    /\ build_lock' = IF build_lock = p THEN None ELSE build_lock
    /\ spoiled' = IF proc[p].pc \in Replacing THEN spoiled \cup {Pkg(p)} ELSE spoiled
    /\ UNCHANGED <<disk, runs, edits, calm>>

(* External: somebody edits, reverts, removes or restores a package.         *)
Edit(k) ==
    /\ edits < MaxEdits
    /\ edits' = edits + 1
    /\ \E v \in (Versions \cup {None}) \ {source[k]} : source' = [source EXCEPT ![k] = v]
    /\ calm' = (calm /\ spoiled = {} /\ \A p \in Procs : proc[p].pc \in {"idle", "done"})
    /\ UNCHANGED <<object, info, entries, locks, proc, runs, stops, spoiled>>
-----------------------------------------------------------------------------
Step(p) ==
    \/ \E k \in Pkgs : ParsePkg(p, k) \/ LockPkg(p, k)
    \/ ParseFails(p) \/ build_with_lock(p) \/ load_pkg_cache(p) \/ clean_path(p) \/ emit_code(p) \/ emit_done(p)
    \/ save_pkg_cache(p) \/ LockInfo(p) \/ read_info_cache(p) \/ write_info_cache(p)
    \/ save_data_to_file(p) \/ UnlockPkg(p) \/ link_all_libs(p)

Next ==
    \/ \E p \in Procs : Start(p) \/ Step(p) \/ Stop(p)
    \/ \E k \in Pkgs : Edit(k)

Spec == Init /\ [][Next]_vars

(* A process that is not stopped goes on; a lock is taken by finitely many. *)
FairSpec == Spec /\ \A p \in Procs : WF_vars(Step(p))
-----------------------------------------------------------------------------
TypeOK ==
    /\ source \in [Pkgs -> Versions \cup {None}]
    /\ object \in [Pkgs -> Versions \cup {None, Partial}]
    /\ info \in [Pkgs -> Versions \cup {None}] /\ entries \subseteq Pkgs
    /\ lock \in [Pkgs -> Procs \cup {None}] /\ {info_lock, build_lock} \subseteq Procs \cup {None}

(* The md5 that the info file has for a package is the one of the sources of *)
(* its object file, unless a process was stopped after it removed the object *)
(* or the sources changed while they were compiled (save_pkg_cache takes the *)
(* md5 of the files, not of what was parsed).                                *)
Coherent ==
    \A k \in Pkgs \ spoiled :
        (lock[k] = None /\ info[k] # None) => object[k] = info[k]

(* No update of the info file is lost: what it has for a package changes     *)
(* only when a process that holds the package's lock saves it.               *)
InfoKept ==
    [][\A k \in Pkgs : info'[k] # info[k] =>
           \E p \in Procs : lock[k] = p /\ At(p, "info_write") /\ Pkg(p) = k]_vars

(* As long as the sources only change between complete runs, every run links *)
(* what it parsed, however the runs overlap and wherever others are stopped. *)
LinksWhatItParsed ==
    calm => \A p \in Procs : At(p, "done") => proc[p].out = proc[p].ast

(* Every run ends: no two processes wait for each other's lock files.        *)
RunsEnd == \A p \in Procs : At(p, "parse") ~> (At(p, "idle") \/ At(p, "done"))

=============================================================================
