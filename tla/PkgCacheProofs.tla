--------------------------- MODULE PkgCacheProofs ---------------------------
(* What the object cache of the native back end keeps for any number of      *)
(* processes, packages, versions, runs, edits and crashes.                   *)
EXTENDS PkgCache, TLAPS

(* Where a process is between taking a package's lock and releasing it, and  *)
(* the places where the object is the one the info file knows.               *)
Settled == {"load", "clean", "data", "unlock"}
Working == Settled \cup Replacing

Process ==
    [pc : {"idle", "parse", "build", "gen", "link", "done"} \cup Working, build : BOOLEAN,
     ast : [Pkgs -> Versions \cup {None}], todo : SUBSET Pkgs, pkg : Pkgs \cup {None},
     cache : [Pkgs -> Versions \cup {None}], hash : Versions \cup {None},
     out : [Pkgs -> Versions \cup {None, Partial}]]

Typed ==
    /\ TypeOK
    /\ proc \in [Procs -> Process]
    /\ spoiled \subseteq Pkgs /\ calm \in BOOLEAN

(* A process that works on a package is the one that holds its lock.         *)
LocksHeld ==
    /\ \A p \in Procs : proc[p].pc \in Working => Pkg(p) \in proc[p].todo /\ lock[Pkg(p)] = p
    /\ \A k \in Pkgs : lock[k] # None => proc[lock[k]].pc \in Working /\ Pkg(lock[k]) = k

(* A process that has info.lock is reading or replacing the info file, and   *)
(* what it has read is still what the file has.                              *)
InfoHeld ==
    \A p \in Procs :
        /\ proc[p].pc \in {"info_read", "info_write"} => info_lock = p
        /\ At(p, "info_write") => proc[p].cache = info

(* Coherent, with what holds of a package while its lock is held.            *)
Kept ==
    /\ \A k \in Pkgs \ spoiled :
          (info[k] # None /\ (lock[k] = None \/ proc[lock[k]].pc \in Settled)) => object[k] = info[k]
    /\ \A p \in Procs :
          proc[p].pc \in Replacing \ {"emit", "emitting"} => object[Pkg(p)] = proc[p].ast[Pkg(p)]

(* What a run has in hand is what the sources are.                           *)
Active(p) == proc[p].pc \notin {"idle", "done"}
ParsedBy(p) ==
    Active(p) => \A k \in Pkgs :
        /\ proc[p].ast[k] = source[k] \/ (proc[p].ast[k] = None /\ At(p, "parse"))
        /\ At(p, "parse") \/ source[k] # None
        /\ At(p, "parse") => k \in proc[p].todo
        /\ proc[p].pc \in {"info_lock", "info_read", "info_write"} => proc[p].hash = source[Pkg(p)]
Parsed == \A p \in Procs : ParsedBy(p)

(* A package that is recorded is a hit as long as it has an object, and then *)
(* the object is the one of its sources. While an object is replaced its     *)
(* package is not recorded; those that a run is done with are.               *)
Recorded(k) == k \in entries /\ info[k] = source[k] /\ source[k] # None
FinishedBy(p) ==
    /\ proc[p].pc \in {"clean"} \cup Replacing => ~Recorded(Pkg(p))
    /\ At(p, "data") => info[Pkg(p)] = source[Pkg(p)] /\ object[Pkg(p)] = source[Pkg(p)]
    /\ At(p, "unlock") => Recorded(Pkg(p))
    /\ Active(p) => \A k \in Pkgs \ proc[p].todo : Recorded(k)
    /\ At(p, "link") => proc[p].todo = {}
Finished ==
    /\ \A k \in Pkgs : Recorded(k) => object[k] = source[k]
    /\ \A p \in Procs : FinishedBy(p)

Calm == (calm => Parsed /\ Finished) /\ LinksWhatItParsed
-----------------------------------------------------------------------------
Pcs == {"idle", "parse", "build", "gen", "link", "done"} \cup Working

(* Only p moves. *)
Moves(p) ==
    /\ proc' \in [Procs -> Process]
    /\ \A q \in Procs \ {p} : proc'[q] = proc[q]

LEMMA ProcessFields ==
    ASSUME Typed, NEW p \in Procs
    PROVE  /\ proc[p] \in Process
           /\ proc[p].pc \in Pcs /\ proc[p].build \in BOOLEAN
           /\ proc[p].ast \in [Pkgs -> Versions \cup {None}] /\ proc[p].todo \in SUBSET Pkgs
           /\ proc[p].pkg \in Pkgs \cup {None} /\ proc[p].cache \in [Pkgs -> Versions \cup {None}]
           /\ proc[p].hash \in Versions \cup {None}
           /\ proc[p].out \in [Pkgs -> Versions \cup {None, Partial}]
<1>1. proc[p] \in Process
  BY Zenon DEF Typed
<1> QED
  BY <1>1, Zenon DEF Process, Pcs

(* A process is replaced as a whole. *)
LEMMA Replaced ==
    ASSUME Typed, NEW p \in Procs, NEW r \in Process, proc' = [proc EXCEPT ![p] = r]
    PROVE  Moves(p) /\ proc'[p] = r
BY Zenon DEF Typed, Moves

LEMMA Goes ==
    ASSUME Typed, NEW p \in Procs, NEW pc \in Pcs, Goto(p, pc)
    PROVE  /\ Moves(p) /\ proc'[p].pc = pc
           /\ proc'[p].ast = proc[p].ast /\ proc'[p].todo = proc[p].todo
           /\ proc'[p].pkg = proc[p].pkg /\ proc'[p].cache = proc[p].cache
           /\ proc'[p].hash = proc[p].hash /\ proc'[p].out = proc[p].out
<1> DEFINE r == [proc[p] EXCEPT !.pc = pc]
<1>1. proc[p] \in Process
  BY ProcessFields, Zenon
<1>2. r \in Process
  BY <1>1, Zenon DEF Process, Pcs
<1>3. proc' = [proc EXCEPT ![p] = r]
  BY Zenon DEF Goto
<1>4. /\ r.pc = pc /\ r.ast = proc[p].ast /\ r.todo = proc[p].todo /\ r.pkg = proc[p].pkg
      /\ r.cache = proc[p].cache /\ r.hash = proc[p].hash /\ r.out = proc[p].out
  BY <1>1, Zenon DEF Process
<1> HIDE DEF r
<1> QED
  BY <1>2, <1>3, <1>4, Replaced, Zenon

LEMMA AfterStart ==
    ASSUME Typed, NEW p \in Procs, Start(p)
    PROVE  Moves(p) /\ proc'[p].pc = "parse" /\ proc'[p].ast = Nothing /\ proc'[p].todo = Pkgs
<1>1. PICK build \in BOOLEAN : proc' = [proc EXCEPT ![p] = [Idle EXCEPT !.pc = "parse", !.build = build]]
  BY Zenon DEF Start
<1> DEFINE r == [Idle EXCEPT !.pc = "parse", !.build = build]
<1>2. r \in Process /\ r.pc = "parse" /\ r.ast = Nothing /\ r.todo = Pkgs
  BY Zenon DEF Process, Idle, Nothing
<1>3. proc' = [proc EXCEPT ![p] = r]
  BY <1>1, Zenon
<1> HIDE DEF r
<1> QED
  BY <1>2, <1>3, Replaced, Zenon

LEMMA AfterIdle ==
    ASSUME Typed, NEW p \in Procs, proc' = [proc EXCEPT ![p] = Idle]
    PROVE  Moves(p) /\ proc'[p].pc = "idle"
<1>1. Idle \in Process /\ Idle.pc = "idle"
  BY Zenon DEF Process, Idle, Nothing
<1> QED
  BY <1>1, Replaced, Zenon DEF Idle

LEMMA AfterParse ==
    ASSUME Typed, NEW p \in Procs, NEW k \in Pkgs, ParsePkg(p, k)
    PROVE  /\ Moves(p) /\ proc'[p].todo = proc[p].todo
           /\ proc'[p].ast = [proc[p].ast EXCEPT ![k] = source[k]]
           /\ proc'[p].pc \in {"parse", "build", "gen"}
           /\ proc'[p].pc # "parse" => \A j \in Pkgs \ {k} : proc[p].ast[j] # None
<1> DEFINE pc == IF \E j \in Pkgs \ {k} : proc[p].ast[j] = None THEN "parse"
                 ELSE IF proc[p].build THEN "build" ELSE "gen"
           ast == [proc[p].ast EXCEPT ![k] = source[k]]
           r == [proc[p] EXCEPT !.pc = pc, !.ast = ast]
<1>0. /\ pc \in {"parse", "build", "gen"}
      /\ pc # "parse" => \A j \in Pkgs \ {k} : proc[p].ast[j] # None
  BY Zenon
<1>1. proc' = [proc EXCEPT ![p].ast[k] = source[k], ![p].pc = pc]
  BY Zenon DEF ParsePkg
<1>2. proc[p] \in Process /\ proc[p].ast \in [Pkgs -> Versions \cup {None}]
  BY ProcessFields, Zenon
<1>3. source[k] \in Versions \cup {None}
  BY Zenon DEF Typed, TypeOK
<1>4. ast \in [Pkgs -> Versions \cup {None}]
  BY <1>2, <1>3, Zenon
<1> HIDE DEF pc
<1>5. proc' = [proc EXCEPT ![p] = r]
  BY <1>1, <1>2, Zenon DEF Process, Typed
<1> HIDE DEF ast
<1>6. r \in Process /\ r.pc = pc /\ r.ast = ast /\ r.todo = proc[p].todo
  BY <1>0, <1>2, <1>4, Zenon DEF Process
<1> HIDE DEF r
<1> QED
  BY <1>0, <1>5, <1>6, Replaced, Zenon DEF ast

LEMMA AfterLock ==
    ASSUME Typed, NEW p \in Procs, NEW k \in Pkgs, LockPkg(p, k)
    PROVE  /\ Moves(p) /\ proc'[p].pc = "load" /\ proc'[p].pkg = k
           /\ proc'[p].todo = proc[p].todo /\ proc'[p].ast = proc[p].ast
<1> DEFINE r == [proc[p] EXCEPT !.pc = "load", !.pkg = k]
<1>1. proc[p] \in Process
  BY ProcessFields, Zenon
<1>2. r \in Process /\ r.pc = "load" /\ r.pkg = k /\ r.todo = proc[p].todo /\ r.ast = proc[p].ast
  BY <1>1, Zenon DEF Process, Working, Settled
<1>3. proc' = [proc EXCEPT ![p] = r]
  BY Zenon DEF LockPkg
<1> HIDE DEF r
<1> QED
  BY <1>2, <1>3, Replaced, Zenon

(* The package is gone, or the md5 is taken. *)
LEMMA AfterSave ==
    ASSUME Typed, NEW p \in Procs, Pkg(p) \in Pkgs, save_pkg_cache(p)
    PROVE  /\ Moves(p) /\ proc'[p].pkg = proc[p].pkg
           /\ proc'[p].todo = proc[p].todo /\ proc'[p].ast = proc[p].ast
           /\ \/ /\ source[Pkg(p)] # None /\ proc'[p].hash = source[Pkg(p)]
                 /\ proc'[p].pc = "info_lock" /\ UNCHANGED spoiled
              \/ /\ source[Pkg(p)] = None /\ proc'[p].pc \in {"data", "unlock"}
                 /\ spoiled' = spoiled \cup {Pkg(p)}
<1>1. CASE source[Pkg(p)] = None
  <2>1. (Goto(p, "data") \/ Goto(p, "unlock")) /\ spoiled' = spoiled \cup {Pkg(p)}
    BY <1>1, Zenon DEF save_pkg_cache
  <2> QED
    BY <1>1, <2>1, Goes, Zenon DEF Pcs, Working, Settled
<1>2. CASE source[Pkg(p)] # None
  <2> DEFINE r == [proc[p] EXCEPT !.hash = source[Pkg(p)], !.pc = "info_lock"]
  <2>1. proc' = [proc EXCEPT ![p].hash = source[Pkg(p)], ![p].pc = "info_lock"] /\ UNCHANGED spoiled
    BY <1>2, Zenon DEF save_pkg_cache
  <2>2. proc[p] \in Process
    BY ProcessFields, Zenon
  <2>3. source[Pkg(p)] \in Versions \cup {None}
    BY Zenon DEF Typed, TypeOK
  <2>4. proc' = [proc EXCEPT ![p] = r]
    BY <2>1, <2>2, Zenon DEF Process
  <2> HIDE DEF Pkg
  <2>5. r \in Process /\ r.pc = "info_lock" /\ r.pkg = proc[p].pkg /\ r.hash = source[Pkg(p)]
        /\ r.todo = proc[p].todo /\ r.ast = proc[p].ast
    BY <2>2, <2>3, Zenon DEF Process, Working, Replacing
  <2> HIDE DEF r
  <2> QED
    BY <1>2, <2>1, <2>4, <2>5, Replaced, Zenon
<1> QED
  BY <1>1, <1>2, Zenon

LEMMA AfterRead ==
    ASSUME Typed, NEW p \in Procs, read_info_cache(p)
    PROVE  /\ Moves(p) /\ proc'[p].pc = "info_write" /\ proc'[p].cache = info
           /\ proc'[p].pkg = proc[p].pkg /\ proc'[p].hash = proc[p].hash
           /\ proc'[p].todo = proc[p].todo /\ proc'[p].ast = proc[p].ast
<1> DEFINE r == [proc[p] EXCEPT !.cache = info, !.pc = "info_write"]
<1>1. proc[p] \in Process
  BY ProcessFields, Zenon
<1>2. info \in [Pkgs -> Versions \cup {None}]
  BY Zenon DEF Typed, TypeOK
<1>3. /\ r \in Process /\ r.pc = "info_write" /\ r.cache = info /\ r.pkg = proc[p].pkg
      /\ r.hash = proc[p].hash /\ r.todo = proc[p].todo /\ r.ast = proc[p].ast
  BY <1>1, <1>2, Zenon DEF Process, Working, Replacing
<1>4. proc' = [proc EXCEPT ![p] = r]
  BY Zenon DEF read_info_cache
<1> HIDE DEF r
<1> QED
  BY <1>3, <1>4, Replaced, Zenon

LEMMA AfterUnlock ==
    ASSUME Typed, NEW p \in Procs, UnlockPkg(p)
    PROVE  /\ Moves(p) /\ proc'[p].todo = proc[p].todo \ {Pkg(p)} /\ proc'[p].ast = proc[p].ast
           /\ proc'[p].pc = IF proc[p].todo = {Pkg(p)} THEN "link" ELSE "gen"
<1> DEFINE pc == IF proc[p].todo = {Pkg(p)} THEN "link" ELSE "gen"
           todo == proc[p].todo \ {Pkg(p)}
           r == [proc[p] EXCEPT !.todo = todo, !.pkg = None, !.hash = None, !.cache = Nothing, !.pc = pc]
<1>1. proc[p] \in Process /\ todo \in SUBSET Pkgs
  BY ProcessFields, Zenon
<1>2. proc' = [proc EXCEPT ![p] = r]
  BY Zenon DEF UnlockPkg
<1>3. pc \in {"link", "gen"} /\ Nothing \in [Pkgs -> Versions \cup {None}]
  BY Zenon DEF Nothing
<1> HIDE DEF pc, todo
<1>4. r \in Process /\ r.pc = pc /\ r.todo = todo /\ r.ast = proc[p].ast
  BY <1>1, <1>3, Zenon DEF Process
<1> HIDE DEF r
<1> QED
  BY <1>2, <1>4, Replaced, Zenon DEF todo, pc

LEMMA AfterLink ==
    ASSUME Typed, NEW p \in Procs, link_all_libs(p)
    PROVE  Moves(p) /\ proc'[p].pc = "done" /\ proc'[p].out = object /\ proc'[p].ast = proc[p].ast
<1> DEFINE r == [proc[p] EXCEPT !.out = object, !.pc = "done"]
<1>1. proc[p] \in Process /\ object \in [Pkgs -> Versions \cup {None, Partial}]
  BY ProcessFields, Zenon DEF Typed, TypeOK
<1>2. r \in Process /\ r.pc = "done" /\ r.out = object /\ r.ast = proc[p].ast
  BY <1>1, Zenon DEF Process
<1>3. proc' = [proc EXCEPT ![p] = r]
  BY Zenon DEF link_all_libs
<1> HIDE DEF r
<1> QED
  BY <1>2, <1>3, Replaced, Zenon
-----------------------------------------------------------------------------
(* Who holds which lock file. *)
Locked == Typed /\ LocksHeld /\ InfoHeld

LEMMA WorksOn ==
    ASSUME Locked, NEW p \in Procs, proc[p].pc \in Working
    PROVE  /\ Pkg(p) \in Pkgs /\ Pkg(p) \in proc[p].todo /\ lock[Pkg(p)] = p
           /\ \A q \in Procs \ {p} : proc[q].pc \in Working => Pkg(q) # Pkg(p)
<1>1. Pkg(p) \in proc[p].todo /\ lock[Pkg(p)] = p
  BY Zenon DEF Locked, LocksHeld
<1>2. proc[p].todo \in SUBSET Pkgs
  BY ProcessFields, Zenon DEF Locked
<1> QED
  BY <1>1, <1>2, Zenon DEF Locked, LocksHeld

LEMMA LockedInit == Init => Locked
BY PkgCacheAssumption, SMT DEF Init, Locked, Typed, TypeOK, Process, Idle, Nothing, LocksHeld,
   InfoHeld, At,
   Working, Settled, Replacing

LEMMA LockedStep == Locked /\ [Next]_vars => Locked'
<1> SUFFICES ASSUME Locked, [Next]_vars PROVE Locked'
  BY Zenon
<1>0. Typed /\ LocksHeld /\ InfoHeld /\ None \notin Procs
  BY PkgCacheAssumption, Zenon DEF Locked
<1>1. ASSUME NEW p \in Procs, Start(p) PROVE Locked'
  <2>1. Moves(p) /\ proc'[p].pc = "parse"
    BY <1>0, <1>1, AfterStart, Zenon
  <2>2. Typed'
    BY <1>0, <1>1, <2>1, Zenon DEF Start, Typed, TypeOK, Moves, disk, locks, history
  <2>3. LocksHeld'
    BY <1>0, <1>1, <2>1, SMT DEF Start, Typed, TypeOK, Moves, LocksHeld, At, Pkg, Working, Settled,
       Replacing, disk, locks
  <2>4. InfoHeld'
    BY <1>0, <1>1, <2>1, Zenon DEF Start, Typed, TypeOK, Moves, InfoHeld, At, Pkg, disk, locks
  <2> QED
    BY <2>2, <2>3, <2>4, Zenon DEF Locked
<1>2. ASSUME NEW p \in Procs, ParseFails(p) PROVE Locked'
  <2>1. Moves(p) /\ proc'[p].pc = "idle"
    BY <1>0, <1>2, AfterIdle, Zenon DEF ParseFails
  <2>2. Typed'
    BY <1>0, <1>2, <2>1, Zenon DEF ParseFails, Typed, TypeOK, Moves, disk, locks, history
  <2>3. LocksHeld'
    BY <1>0, <1>2, <2>1, SMT DEF ParseFails, Typed, TypeOK, Moves, LocksHeld, At, Pkg, Working,
       Settled, Replacing, disk, locks
  <2>4. InfoHeld'
    BY <1>0, <1>2, <2>1, Zenon DEF ParseFails, Typed, TypeOK, Moves, InfoHeld, At, Pkg, disk, locks
  <2> QED
    BY <2>2, <2>3, <2>4 DEF Locked
<1>3. ASSUME NEW p \in Procs, build_with_lock(p) PROVE Locked'
  <2>1. /\ Moves(p) /\ proc'[p].pc = "gen"
        /\ proc'[p].todo = proc[p].todo /\ proc'[p].pkg = proc[p].pkg /\ proc'[p].cache = proc[p].cache
    BY <1>0, <1>3, Goes, Zenon DEF build_with_lock, Pcs
  <2>2. Typed'
    BY <1>0, <1>3, <2>1, Zenon DEF build_with_lock, Typed, TypeOK, Moves, disk, locks, history
  <2>3. LocksHeld'
    BY <1>0, <1>3, <2>1, SMT DEF build_with_lock, Typed, TypeOK, Moves, LocksHeld, At, Pkg, Working,
       Settled, Replacing, disk, locks
  <2>4. InfoHeld'
    BY <1>0, <1>3, <2>1, Zenon DEF build_with_lock, Typed, TypeOK, Moves, InfoHeld, At, Pkg, disk, locks
  <2> QED
    BY <2>2, <2>3, <2>4 DEF Locked
<1>4. ASSUME NEW p \in Procs, load_pkg_cache(p) PROVE Locked'
  <2>0. proc[p].pc \in Working /\ Pkg(p) \in Pkgs /\ Pkg(p) \in proc[p].todo /\ lock[Pkg(p)] = p
    BY <1>4, WorksOn, Zenon DEF load_pkg_cache, At, Working, Settled, Replacing
  <2>1. /\ Moves(p) /\ proc'[p].pc = IF IsHit(Pkg(p)) THEN "unlock" ELSE "clean"
        /\ proc'[p].todo = proc[p].todo /\ proc'[p].pkg = proc[p].pkg /\ proc'[p].cache = proc[p].cache
    BY <1>0, <1>4, Goes, Zenon DEF load_pkg_cache, Pcs, Working, Settled
  <2>2. Typed'
    BY <1>0, <1>4, <2>0, <2>1, Zenon DEF load_pkg_cache, Typed, TypeOK, Moves, disk, locks, history
  <2>3. LocksHeld'
    BY <1>0, <1>4, <2>0, <2>1, SMT DEF load_pkg_cache, Typed, TypeOK, Moves, LocksHeld, At, Pkg,
       Working, Settled, Replacing, disk, locks
  <2>4. InfoHeld'
    BY <1>0, <1>4, <2>0, <2>1, Zenon DEF load_pkg_cache, Typed, TypeOK, Moves, InfoHeld, At, Pkg, disk,
       locks
  <2> QED
    BY <2>2, <2>3, <2>4 DEF Locked
<1>5. ASSUME NEW p \in Procs, clean_path(p) PROVE Locked'
  <2>0. proc[p].pc \in Working /\ Pkg(p) \in Pkgs /\ Pkg(p) \in proc[p].todo /\ lock[Pkg(p)] = p
    BY <1>5, WorksOn, Zenon DEF clean_path, At, Working, Settled, Replacing
  <2>1. /\ Moves(p) /\ proc'[p].pc = "emit"
        /\ proc'[p].todo = proc[p].todo /\ proc'[p].pkg = proc[p].pkg /\ proc'[p].cache = proc[p].cache
    BY <1>0, <1>5, Goes, Zenon DEF clean_path, Pcs, Working, Replacing
  <2>2. Typed'
    BY <1>0, <1>5, <2>0, <2>1, Zenon DEF clean_path, Typed, TypeOK, Moves, disk, locks, history
  <2>3. LocksHeld'
    BY <1>0, <1>5, <2>0, <2>1, SMT DEF clean_path, Typed, TypeOK, Moves, LocksHeld, At, Pkg, Working,
       Settled, Replacing, disk, locks
  <2>4. InfoHeld'
    BY <1>0, <1>5, <2>0, <2>1, Zenon DEF clean_path, Typed, TypeOK, Moves, InfoHeld, At, Pkg, disk, locks
  <2> QED
    BY <2>2, <2>3, <2>4 DEF Locked
<1>6. ASSUME NEW p \in Procs, emit_code(p) PROVE Locked'
  <2>0. proc[p].pc \in Working /\ Pkg(p) \in Pkgs /\ Pkg(p) \in proc[p].todo /\ lock[Pkg(p)] = p
    BY <1>6, WorksOn, Zenon DEF emit_code, At, Working, Settled, Replacing
  <2>1. /\ Moves(p) /\ proc'[p].pc = "emitting"
        /\ proc'[p].todo = proc[p].todo /\ proc'[p].pkg = proc[p].pkg /\ proc'[p].cache = proc[p].cache
    BY <1>0, <1>6, Goes, Zenon DEF emit_code, Pcs, Working, Replacing
  <2>2. Typed'
    BY <1>0, <1>6, <2>0, <2>1, Zenon DEF emit_code, Typed, TypeOK, Moves, disk, locks, history
  <2>3. LocksHeld'
    BY <1>0, <1>6, <2>0, <2>1, SMT DEF emit_code, Typed, TypeOK, Moves, LocksHeld, At, Pkg, Working,
       Settled, Replacing, disk, locks
  <2>4. InfoHeld'
    BY <1>0, <1>6, <2>0, <2>1, Zenon DEF emit_code, Typed, TypeOK, Moves, InfoHeld, At, Pkg, disk, locks
  <2> QED
    BY <2>2, <2>3, <2>4 DEF Locked
<1>7. ASSUME NEW p \in Procs, emit_done(p) PROVE Locked'
  <2>0. proc[p].pc \in Working /\ Pkg(p) \in Pkgs /\ Pkg(p) \in proc[p].todo /\ lock[Pkg(p)] = p
    BY <1>7, WorksOn, Zenon DEF emit_done, At, Working, Settled, Replacing
  <2>1. /\ Moves(p) /\ proc'[p].pc = "save"
        /\ proc'[p].todo = proc[p].todo /\ proc'[p].pkg = proc[p].pkg /\ proc'[p].cache = proc[p].cache
    BY <1>0, <1>7, Goes, Zenon DEF emit_done, Pcs, Working, Replacing
  <2>2. Typed'
    <3>1. proc[p].ast[Pkg(p)] \in Versions \cup {None}
      BY <1>0, <2>0, ProcessFields, Zenon
    <3> QED
      BY <1>0, <1>7, <2>0, <2>1, <3>1, Zenon DEF emit_done, Typed, TypeOK, Moves, locks, history
  <2>3. LocksHeld'
    BY <1>0, <1>7, <2>0, <2>1, SMT DEF emit_done, Typed, TypeOK, Moves, LocksHeld, At, Pkg, Working,
       Settled, Replacing, disk, locks
  <2>4. InfoHeld'
    BY <1>0, <1>7, <2>0, <2>1, Zenon DEF emit_done, Typed, TypeOK, Moves, InfoHeld, At, Pkg, disk, locks
  <2> QED
    BY <2>2, <2>3, <2>4 DEF Locked
<1>8. ASSUME NEW p \in Procs, save_pkg_cache(p) PROVE Locked'
  <2>0. proc[p].pc \in Working /\ Pkg(p) \in Pkgs /\ Pkg(p) \in proc[p].todo /\ lock[Pkg(p)] = p
    BY <1>8, WorksOn, Zenon DEF save_pkg_cache, At, Working, Settled, Replacing
  <2>1. /\ Moves(p) /\ proc'[p].pc \in {"info_lock", "data", "unlock"} /\ proc'[p].pkg = proc[p].pkg
        /\ proc'[p].todo = proc[p].todo /\ spoiled' \in {spoiled, spoiled \cup {Pkg(p)}}
    BY <1>0, <1>8, <2>0, AfterSave, Zenon
  <2>2. Typed'
    BY <1>0, <1>8, <2>0, <2>1, Zenon DEF save_pkg_cache, Typed, TypeOK, Moves, disk, locks, history
  <2>3. LocksHeld'
    BY <1>0, <1>8, <2>0, <2>1, SMT DEF save_pkg_cache, Typed, TypeOK, Moves, LocksHeld, At, Pkg,
       Working, Settled, Replacing, disk, locks
  <2>4. InfoHeld'
    BY <1>0, <1>8, <2>0, <2>1, Zenon DEF save_pkg_cache, Typed, TypeOK, Moves, InfoHeld, At, Pkg, disk,
       locks
  <2> QED
    BY <2>2, <2>3, <2>4 DEF Locked
<1>9. ASSUME NEW p \in Procs, LockInfo(p) PROVE Locked'
  <2>0. proc[p].pc \in Working /\ Pkg(p) \in Pkgs /\ Pkg(p) \in proc[p].todo /\ lock[Pkg(p)] = p
    BY <1>9, WorksOn, Zenon DEF LockInfo, At, Working, Settled, Replacing
  <2>1. /\ Moves(p) /\ proc'[p].pc = "info_read"
        /\ proc'[p].todo = proc[p].todo /\ proc'[p].pkg = proc[p].pkg /\ proc'[p].cache = proc[p].cache
    BY <1>0, <1>9, Goes, Zenon DEF LockInfo, Pcs, Working, Replacing
  <2>2. Typed'
    BY <1>0, <1>9, <2>0, <2>1, Zenon DEF LockInfo, Typed, TypeOK, Moves, disk, locks, history
  <2>3. LocksHeld'
    BY <1>0, <1>9, <2>0, <2>1, SMT DEF LockInfo, Typed, TypeOK, Moves, LocksHeld, At, Pkg, Working,
       Settled, Replacing, disk, locks
  <2>4. InfoHeld'
    BY <1>0, <1>9, <2>0, <2>1, Zenon DEF LockInfo, Typed, TypeOK, Moves, InfoHeld, At, Pkg, disk, locks
  <2> QED
    BY <2>2, <2>3, <2>4 DEF Locked
<1>10. ASSUME NEW p \in Procs, read_info_cache(p) PROVE Locked'
  <2>0. proc[p].pc \in Working /\ Pkg(p) \in Pkgs /\ Pkg(p) \in proc[p].todo /\ lock[Pkg(p)] = p
    BY <1>10, WorksOn, Zenon DEF read_info_cache, At, Working, Settled, Replacing
  <2>1. /\ Moves(p) /\ proc'[p].pc = "info_write" /\ proc'[p].cache = info
        /\ proc'[p].todo = proc[p].todo /\ proc'[p].pkg = proc[p].pkg
    BY <1>0, <1>10, <2>0, AfterRead, Zenon
  <2>2. Typed'
    BY <1>0, <1>10, <2>0, <2>1, Zenon DEF read_info_cache, Typed, TypeOK, Moves, disk, locks, history
  <2>3. LocksHeld'
    BY <1>0, <1>10, <2>0, <2>1, SMT DEF read_info_cache, Typed, TypeOK, Moves, LocksHeld, At, Pkg,
       Working, Settled, Replacing, disk, locks
  <2>4. InfoHeld'
    BY <1>0, <1>10, <2>0, <2>1, Zenon DEF read_info_cache, Typed, TypeOK, Moves, InfoHeld, At, Pkg, disk,
       locks
  <2> QED
    BY <2>2, <2>3, <2>4 DEF Locked
<1>11. ASSUME NEW p \in Procs, write_info_cache(p) PROVE Locked'
  <2>0. proc[p].pc \in Working /\ Pkg(p) \in Pkgs /\ Pkg(p) \in proc[p].todo /\ lock[Pkg(p)] = p
    BY <1>11, WorksOn, Zenon DEF write_info_cache, At, Working, Settled, Replacing
  <2>1. /\ Moves(p) /\ proc'[p].pc = "data"
        /\ proc'[p].todo = proc[p].todo /\ proc'[p].pkg = proc[p].pkg /\ proc'[p].cache = proc[p].cache
    BY <1>0, <1>11, Goes, Zenon DEF write_info_cache, Pcs, Working, Settled
  <2>2. Typed'
    <3>1. proc[p].cache = info /\ proc[p].hash \in Versions \cup {None}
      BY <1>0, <1>11, ProcessFields, Zenon DEF InfoHeld, write_info_cache, At
    <3>2. info' \in [Pkgs -> Versions \cup {None}]
      BY <1>0, <1>11, <3>1, Zenon DEF write_info_cache, Typed, TypeOK
    <3>3. spoiled' \subseteq Pkgs
      BY <1>0, <1>11, <2>0, Zenon DEF write_info_cache, Typed
    <3> QED
      BY <1>0, <1>11, <2>1, <3>2, <3>3, Zenon DEF write_info_cache, Typed, TypeOK, Moves
  <2>3. LocksHeld'
    BY <1>0, <1>11, <2>0, <2>1, SMT DEF write_info_cache, Typed, TypeOK, Moves, LocksHeld, At, Pkg,
       Working, Settled, Replacing, disk, locks
  <2>4. InfoHeld'
    BY <1>0, <1>11, <2>0, <2>1, ZenonT(30) DEF write_info_cache, Typed, TypeOK, Moves, InfoHeld, At, Pkg,
       disk, locks
  <2> QED
    BY <2>2, <2>3, <2>4 DEF Locked
<1>12. ASSUME NEW p \in Procs, save_data_to_file(p) PROVE Locked'
  <2>0. proc[p].pc \in Working /\ Pkg(p) \in Pkgs /\ Pkg(p) \in proc[p].todo /\ lock[Pkg(p)] = p
    BY <1>12, WorksOn, Zenon DEF save_data_to_file, At, Working, Settled, Replacing
  <2>1. /\ Moves(p) /\ proc'[p].pc = "unlock"
        /\ proc'[p].todo = proc[p].todo /\ proc'[p].pkg = proc[p].pkg /\ proc'[p].cache = proc[p].cache
    BY <1>0, <1>12, Goes, Zenon DEF save_data_to_file, Pcs, Working, Settled
  <2>2. Typed'
    BY <1>0, <1>12, <2>0, <2>1, Zenon DEF save_data_to_file, Typed, TypeOK, Moves, disk, locks, history
  <2>3. LocksHeld'
    BY <1>0, <1>12, <2>0, <2>1, SMT DEF save_data_to_file, Typed, TypeOK, Moves, LocksHeld, At, Pkg,
       Working, Settled, Replacing, disk, locks
  <2>4. InfoHeld'
    BY <1>0, <1>12, <2>0, <2>1, Zenon DEF save_data_to_file, Typed, TypeOK, Moves, InfoHeld, At, Pkg,
       disk, locks
  <2> QED
    BY <2>2, <2>3, <2>4 DEF Locked
<1>13. ASSUME NEW p \in Procs, UnlockPkg(p) PROVE Locked'
  <2>0. proc[p].pc \in Working /\ Pkg(p) \in Pkgs /\ Pkg(p) \in proc[p].todo /\ lock[Pkg(p)] = p
    BY <1>13, WorksOn, Zenon DEF UnlockPkg, At, Working, Settled, Replacing
  <2>1. Moves(p) /\ proc'[p].pc \in {"link", "gen"}
    BY <1>0, <1>13, <2>0, AfterUnlock, Zenon
  <2>2. Typed'
    BY <1>0, <1>13, <2>0, <2>1, Zenon DEF UnlockPkg, Typed, TypeOK, Moves, disk, locks, history
  <2>3. LocksHeld'
    <3>1. lock' = [lock EXCEPT ![Pkg(p)] = None] /\ lock \in [Pkgs -> Procs \cup {None}]
      BY <1>0, <1>13, Zenon DEF UnlockPkg, Typed, TypeOK
    <3>2. ASSUME NEW q \in Procs, proc'[q].pc \in Working
          PROVE  proc'[q].pkg \in proc'[q].todo /\ lock'[proc'[q].pkg] = q
      <4>1. q # p
        BY <2>1, <3>2, Zenon DEF Working, Settled, Replacing
      <4>2. proc'[q] = proc[q]
        BY <2>1, <4>1, Zenon DEF Moves
      <4> QED
        BY <2>0, <3>1, <3>2, <4>1, <4>2, WorksOn, Zenon DEF Pkg
    <3>3. ASSUME NEW k \in Pkgs, lock'[k] # None
          PROVE  proc'[lock'[k]].pc \in Working /\ proc'[lock'[k]].pkg = k
      <4>1. k # Pkg(p) /\ lock'[k] = lock[k]
        BY <2>0, <3>1, <3>3, Zenon
      <4>2. proc[lock[k]].pc \in Working /\ proc[lock[k]].pkg = k /\ lock[k] \in Procs
        BY <1>0, <3>1, <3>3, <4>1, ZenonT(30) DEF LocksHeld, Pkg
      <4> QED
        BY <2>1, <4>1, <4>2, Zenon DEF Moves, Pkg
    <3> QED
      BY <3>2, <3>3, Zenon DEF LocksHeld, Pkg
  <2>4. InfoHeld'
    BY <1>0, <1>13, <2>0, <2>1, Zenon DEF UnlockPkg, Typed, TypeOK, Moves, InfoHeld, At, Pkg, disk, locks
  <2> QED
    BY <2>2, <2>3, <2>4 DEF Locked
<1>14. ASSUME NEW p \in Procs, link_all_libs(p) PROVE Locked'
  <2>1. Moves(p) /\ proc'[p].pc = "done"
    BY <1>0, <1>14, AfterLink, Zenon
  <2>2. Typed'
    BY <1>0, <1>14, <2>1, Zenon DEF link_all_libs, Typed, TypeOK, Moves, disk, locks, history
  <2>3. LocksHeld'
    BY <1>0, <1>14, <2>1, SMT DEF link_all_libs, Typed, TypeOK, Moves, LocksHeld, At, Pkg, Working,
       Settled, Replacing, disk, locks
  <2>4. InfoHeld'
    BY <1>0, <1>14, <2>1, Zenon DEF link_all_libs, Typed, TypeOK, Moves, InfoHeld, At, Pkg, disk, locks
  <2> QED
    BY <2>2, <2>3, <2>4 DEF Locked
<1>15. ASSUME NEW p \in Procs, Stop(p) PROVE Locked'
  <2>1. Moves(p) /\ proc'[p].pc = "idle"
    BY <1>0, <1>15, AfterIdle, Zenon DEF Stop
  <2>2. /\ lock \in [Pkgs -> Procs \cup {None}]
        /\ lock' = [k \in Pkgs |-> IF lock[k] = p THEN None ELSE lock[k]]
    BY <1>0, <1>15, Zenon DEF Stop, Typed, TypeOK
  <2>3. Typed' /\ LocksHeld'
    <3>1. spoiled' \subseteq Pkgs
      BY <1>0, <1>15, WorksOn, Zenon DEF Stop, Working, Typed
    <3>2. Typed'
      BY <1>0, <1>15, <2>1, <2>2, <3>1, ZenonT(30) DEF Stop, Typed, TypeOK, Moves, disk
    <3>3. ASSUME NEW q \in Procs, proc'[q].pc \in Working
          PROVE  proc'[q].pkg \in proc'[q].todo /\ lock'[proc'[q].pkg] = q
      <4>1. q # p
        BY <2>1, <3>3, Zenon DEF Working, Settled, Replacing
      <4>2. proc'[q] = proc[q]
        BY <2>1, <4>1, Zenon DEF Moves
      <4> QED
        BY <2>2, <3>3, <4>1, <4>2, WorksOn, Zenon DEF Pkg
    <3>4. ASSUME NEW k \in Pkgs, lock'[k] # None
          PROVE  proc'[lock'[k]].pc \in Working /\ proc'[lock'[k]].pkg = k
      <4>1. lock[k] # p /\ lock'[k] = lock[k]
        BY <2>2, <3>4, Zenon
      <4>2. proc[lock[k]].pc \in Working /\ proc[lock[k]].pkg = k /\ lock[k] \in Procs
        BY <1>0, <2>2, <3>4, <4>1, Zenon DEF LocksHeld, Pkg
      <4> QED
        BY <2>1, <4>1, <4>2, Zenon DEF Moves
    <3> QED
      BY <3>2, <3>3, <3>4, Zenon DEF LocksHeld, Pkg
  <2>4. InfoHeld'
    BY <1>0, <1>15, <2>1, Zenon DEF Stop, Typed, TypeOK, Moves, InfoHeld, At, Pkg, disk, locks
  <2> QED
    BY <2>3, <2>4, Zenon DEF Locked
<1>16. ASSUME NEW p \in Procs, NEW k \in Pkgs, ParsePkg(p, k) PROVE Locked'
  <2>1. Moves(p) /\ proc'[p].pc \in {"parse", "build", "gen"}
    BY <1>0, <1>16, AfterParse, Zenon
  <2>2. Typed'
    BY <1>0, <1>16, <2>1, Zenon DEF ParsePkg, Typed, TypeOK, Moves, disk, locks, history
  <2>3. LocksHeld'
    BY <1>0, <1>16, <2>1, SMT DEF ParsePkg, Typed, TypeOK, Moves, LocksHeld, At, Pkg, Working, Settled,
       Replacing, disk, locks
  <2>4. InfoHeld'
    BY <1>0, <1>16, <2>1, Zenon DEF ParsePkg, Typed, TypeOK, Moves, InfoHeld, At, Pkg, disk, locks
  <2> QED
    BY <2>2, <2>3, <2>4, Zenon DEF Locked
<1>17. ASSUME NEW p \in Procs, NEW k \in Pkgs, LockPkg(p, k) PROVE Locked'
  <2>1. Moves(p) /\ proc'[p].pc = "load" /\ proc'[p].pkg = k /\ proc'[p].todo = proc[p].todo
    BY <1>0, <1>17, AfterLock, Zenon
  <2>2. Typed'
    BY <1>0, <1>17, <2>1, Zenon DEF LockPkg, Typed, TypeOK, Moves, disk, locks, history
  <2>3. LocksHeld'
    BY <1>0, <1>17, <2>1, SMT DEF LockPkg, Typed, TypeOK, Moves, LocksHeld, At, Pkg, Working, Settled,
       Replacing, disk, locks
  <2>4. InfoHeld'
    BY <1>0, <1>17, <2>1, Zenon DEF LockPkg, Typed, TypeOK, Moves, InfoHeld, At, Pkg, disk, locks
  <2> QED
    BY <2>2, <2>3, <2>4 DEF Locked
<1>18. ASSUME NEW k \in Pkgs, Edit(k) PROVE Locked'
  <2>1. Typed'
    BY <1>0, <1>18, SMT DEF Edit, Typed, TypeOK, locks
  <2> QED
    BY <1>0, <1>18, <2>1, Zenon DEF Edit, Locked, LocksHeld, InfoHeld, At, Pkg, locks
<1>19. CASE UNCHANGED vars
  BY <1>0, <1>19, Zenon DEF vars, Locked, Typed, TypeOK, LocksHeld, InfoHeld, At, Pkg
<1> QED
  BY <1>1, <1>2, <1>3, <1>4, <1>5, <1>6, <1>7, <1>8, <1>9, <1>10, <1>11, <1>12, <1>13, <1>14,
     <1>15, <1>16, <1>17, <1>18, <1>19, Zenon DEF Next, Step
-----------------------------------------------------------------------------
LEMMA KeptInit == Init => Kept
BY SMT DEF Init, Kept, Idle, Nothing, Replacing

LEMMA KeptStep == Locked /\ Kept /\ [Next]_vars => Kept'
<1> SUFFICES ASSUME Locked, Kept, [Next]_vars PROVE Kept'
  BY Zenon
<1>0. Typed /\ LocksHeld /\ InfoHeld /\ None \notin Procs
  BY PkgCacheAssumption, Zenon DEF Locked
<1>1. ASSUME NEW p \in Procs, Start(p) PROVE Kept'
  <2>1. /\ Moves(p) /\ proc'[p].pc = "parse" /\ proc'[p].ast = Nothing
        /\ proc'[p].todo = Pkgs
    BY <1>0, <1>1, AfterStart, Zenon
  <2> QED
    BY <1>0, <1>1, <2>1, SMT DEF Start, Typed, TypeOK, Moves, Kept, LocksHeld, InfoHeld, At, Pkg,
       Working, Settled,
       Replacing, disk, locks, history
<1>2. ASSUME NEW p \in Procs, ParseFails(p) PROVE Kept'
  <2>1. Moves(p) /\ proc'[p].pc = "idle"
    BY <1>0, <1>2, AfterIdle, Zenon DEF ParseFails
  <2> QED
    BY <1>0, <1>2, <2>1, SMT DEF ParseFails, Typed, TypeOK, Moves, Kept, LocksHeld, InfoHeld, At, Pkg,
       Working, Settled,
       Replacing, disk, locks, history
<1>3. ASSUME NEW p \in Procs, build_with_lock(p) PROVE Kept'
  <2>1. /\ Moves(p) /\ proc'[p].pc = "gen"
        /\ proc'[p].ast = proc[p].ast /\ proc'[p].todo = proc[p].todo
        /\ proc'[p].pkg = proc[p].pkg /\ proc'[p].hash = proc[p].hash
    BY <1>0, <1>3, Goes, Zenon DEF build_with_lock, Pcs
  <2> QED
    BY <1>0, <1>3, <2>1, SMT DEF build_with_lock, Typed, TypeOK, Moves, Kept, LocksHeld, InfoHeld, At,
       Pkg, Working, Settled,
       Replacing, disk, locks, history
<1>4. ASSUME NEW p \in Procs, load_pkg_cache(p) PROVE Kept'
  <2>0. proc[p].pc \in Working /\ Pkg(p) \in Pkgs /\ Pkg(p) \in proc[p].todo /\ lock[Pkg(p)] = p
    BY <1>4, WorksOn, Zenon DEF load_pkg_cache, At, Working, Settled, Replacing
  <2>1. /\ Moves(p) /\ proc'[p].pc = IF IsHit(Pkg(p)) THEN "unlock" ELSE "clean"
        /\ proc'[p].ast = proc[p].ast /\ proc'[p].todo = proc[p].todo
        /\ proc'[p].pkg = proc[p].pkg /\ proc'[p].hash = proc[p].hash
    BY <1>0, <1>4, Goes, Zenon DEF load_pkg_cache, Pcs, Working, Settled
  <2> QED
    BY <1>0, <1>4, <2>0, <2>1, SMT DEF load_pkg_cache, Typed, TypeOK, Moves, Kept, LocksHeld, InfoHeld,
       At, Pkg, Working, Settled,
       Replacing, disk, locks, history
<1>5. ASSUME NEW p \in Procs, clean_path(p) PROVE Kept'
  <2>0. proc[p].pc \in Working /\ Pkg(p) \in Pkgs /\ Pkg(p) \in proc[p].todo /\ lock[Pkg(p)] = p
    BY <1>5, WorksOn, Zenon DEF clean_path, At, Working, Settled, Replacing
  <2>1. /\ Moves(p) /\ proc'[p].pc = "emit"
        /\ proc'[p].ast = proc[p].ast /\ proc'[p].todo = proc[p].todo
        /\ proc'[p].pkg = proc[p].pkg /\ proc'[p].hash = proc[p].hash
    BY <1>0, <1>5, Goes, Zenon DEF clean_path, Pcs, Working, Replacing
  <2> QED
    BY <1>0, <1>5, <2>0, <2>1, SMT DEF clean_path, Typed, TypeOK, Moves, Kept, LocksHeld, InfoHeld, At,
       Pkg, Working, Settled,
       Replacing, disk, locks, history
<1>6. ASSUME NEW p \in Procs, emit_code(p) PROVE Kept'
  <2>0. proc[p].pc \in Working /\ Pkg(p) \in Pkgs /\ Pkg(p) \in proc[p].todo /\ lock[Pkg(p)] = p
    BY <1>6, WorksOn, Zenon DEF emit_code, At, Working, Settled, Replacing
  <2>1. /\ Moves(p) /\ proc'[p].pc = "emitting"
        /\ proc'[p].ast = proc[p].ast /\ proc'[p].todo = proc[p].todo
        /\ proc'[p].pkg = proc[p].pkg /\ proc'[p].hash = proc[p].hash
    BY <1>0, <1>6, Goes, Zenon DEF emit_code, Pcs, Working, Replacing
  <2> QED
    BY <1>0, <1>6, <2>0, <2>1, SMT DEF emit_code, Typed, TypeOK, Moves, Kept, LocksHeld, InfoHeld, At,
       Pkg, Working, Settled,
       Replacing, disk, locks, history
<1>7. ASSUME NEW p \in Procs, emit_done(p) PROVE Kept'
  <2>0. proc[p].pc \in Working /\ Pkg(p) \in Pkgs /\ Pkg(p) \in proc[p].todo /\ lock[Pkg(p)] = p
    BY <1>7, WorksOn, Zenon DEF emit_done, At, Working, Settled, Replacing
  <2>1. /\ Moves(p) /\ proc'[p].pc = "save"
        /\ proc'[p].ast = proc[p].ast /\ proc'[p].todo = proc[p].todo
        /\ proc'[p].pkg = proc[p].pkg /\ proc'[p].hash = proc[p].hash
    BY <1>0, <1>7, Goes, Zenon DEF emit_done, Pcs, Working, Replacing
  <2> QED
    BY <1>0, <1>7, <2>0, <2>1, SMT DEF emit_done, Typed, TypeOK, Moves, Kept, LocksHeld, InfoHeld, At,
       Pkg, Working, Settled,
       Replacing, disk, locks, history
<1>8. ASSUME NEW p \in Procs, save_pkg_cache(p) PROVE Kept'
  <2>0. proc[p].pc \in Working /\ Pkg(p) \in Pkgs /\ Pkg(p) \in proc[p].todo /\ lock[Pkg(p)] = p
    BY <1>8, WorksOn, Zenon DEF save_pkg_cache, At, Working, Settled, Replacing
  <2>1. /\ Moves(p) /\ proc'[p].pkg = proc[p].pkg
        /\ proc'[p].todo = proc[p].todo /\ proc'[p].ast = proc[p].ast
        /\ \/ /\ source[Pkg(p)] # None /\ proc'[p].hash = source[Pkg(p)]
              /\ proc'[p].pc = "info_lock" /\ UNCHANGED spoiled
           \/ /\ source[Pkg(p)] = None /\ proc'[p].pc \in {"data", "unlock"}
              /\ spoiled' = spoiled \cup {Pkg(p)}
    BY <1>0, <1>8, <2>0, AfterSave, Zenon
  <2> QED
    BY <1>0, <1>8, <2>0, <2>1, SMT DEF save_pkg_cache, Typed, TypeOK, Moves, Kept, LocksHeld, InfoHeld,
       At, Pkg, Working, Settled,
       Replacing, disk, locks, history
<1>9. ASSUME NEW p \in Procs, LockInfo(p) PROVE Kept'
  <2>0. proc[p].pc \in Working /\ Pkg(p) \in Pkgs /\ Pkg(p) \in proc[p].todo /\ lock[Pkg(p)] = p
    BY <1>9, WorksOn, Zenon DEF LockInfo, At, Working, Settled, Replacing
  <2>1. /\ Moves(p) /\ proc'[p].pc = "info_read"
        /\ proc'[p].ast = proc[p].ast /\ proc'[p].todo = proc[p].todo
        /\ proc'[p].pkg = proc[p].pkg /\ proc'[p].hash = proc[p].hash
    BY <1>0, <1>9, Goes, Zenon DEF LockInfo, Pcs, Working, Replacing
  <2> QED
    BY <1>0, <1>9, <2>0, <2>1, SMT DEF LockInfo, Typed, TypeOK, Moves, Kept, LocksHeld, InfoHeld, At,
       Pkg, Working, Settled,
       Replacing, disk, locks, history
<1>10. ASSUME NEW p \in Procs, read_info_cache(p) PROVE Kept'
  <2>0. proc[p].pc \in Working /\ Pkg(p) \in Pkgs /\ Pkg(p) \in proc[p].todo /\ lock[Pkg(p)] = p
    BY <1>10, WorksOn, Zenon DEF read_info_cache, At, Working, Settled, Replacing
  <2>1. /\ Moves(p) /\ proc'[p].pc = "info_write" /\ proc'[p].cache = info
        /\ proc'[p].pkg = proc[p].pkg /\ proc'[p].hash = proc[p].hash
        /\ proc'[p].todo = proc[p].todo /\ proc'[p].ast = proc[p].ast
    BY <1>0, <1>10, <2>0, AfterRead, Zenon
  <2> QED
    BY <1>0, <1>10, <2>0, <2>1, SMT DEF read_info_cache, Typed, TypeOK, Moves, Kept, LocksHeld,
       InfoHeld, At, Pkg, Working, Settled,
       Replacing, disk, locks, history
<1>11. ASSUME NEW p \in Procs, write_info_cache(p) PROVE Kept'
  <2>0. proc[p].pc \in Working /\ Pkg(p) \in Pkgs /\ Pkg(p) \in proc[p].todo /\ lock[Pkg(p)] = p
    BY <1>11, WorksOn, Zenon DEF write_info_cache, At, Working, Settled, Replacing
  <2>1. /\ Moves(p) /\ proc'[p].pc = "data"
        /\ proc'[p].ast = proc[p].ast /\ proc'[p].todo = proc[p].todo
        /\ proc'[p].pkg = proc[p].pkg /\ proc'[p].hash = proc[p].hash
    BY <1>0, <1>11, Goes, Zenon DEF write_info_cache, Pcs, Working, Settled
  <2> QED
    BY <1>0, <1>11, <2>0, <2>1, SMT DEF write_info_cache, Typed, TypeOK, Moves, Kept, LocksHeld,
       InfoHeld, At, Pkg, Working, Settled,
       Replacing, disk, locks, history
<1>12. ASSUME NEW p \in Procs, save_data_to_file(p) PROVE Kept'
  <2>0. proc[p].pc \in Working /\ Pkg(p) \in Pkgs /\ Pkg(p) \in proc[p].todo /\ lock[Pkg(p)] = p
    BY <1>12, WorksOn, Zenon DEF save_data_to_file, At, Working, Settled, Replacing
  <2>1. /\ Moves(p) /\ proc'[p].pc = "unlock"
        /\ proc'[p].ast = proc[p].ast /\ proc'[p].todo = proc[p].todo
        /\ proc'[p].pkg = proc[p].pkg /\ proc'[p].hash = proc[p].hash
    BY <1>0, <1>12, Goes, Zenon DEF save_data_to_file, Pcs, Working, Settled
  <2> QED
    BY <1>0, <1>12, <2>0, <2>1, SMT DEF save_data_to_file, Typed, TypeOK, Moves, Kept, LocksHeld,
       InfoHeld, At, Pkg, Working, Settled,
       Replacing, disk, locks, history
<1>13. ASSUME NEW p \in Procs, UnlockPkg(p) PROVE Kept'
  <2>0. proc[p].pc \in Working /\ Pkg(p) \in Pkgs /\ Pkg(p) \in proc[p].todo /\ lock[Pkg(p)] = p
    BY <1>13, WorksOn, Zenon DEF UnlockPkg, At, Working, Settled, Replacing
  <2>1. /\ Moves(p) /\ proc'[p].todo = proc[p].todo \ {Pkg(p)} /\ proc'[p].ast = proc[p].ast
        /\ proc'[p].pc = IF proc[p].todo = {Pkg(p)} THEN "link" ELSE "gen"
    BY <1>0, <1>13, <2>0, AfterUnlock, Zenon
  <2>2. /\ lock \in [Pkgs -> Procs \cup {None}] /\ UNCHANGED <<object, info, spoiled>>
        /\ lock' = [lock EXCEPT ![Pkg(p)] = None] /\ At(p, "unlock")
    BY <1>0, <1>13, Zenon DEF UnlockPkg, Typed, TypeOK, disk, history
  <2>3. ASSUME NEW k \in Pkgs \ spoiled, info[k] # None,
               lock'[k] = None \/ proc'[lock'[k]].pc \in Settled
        PROVE  object[k] = info[k]
    <3>1. CASE k = Pkg(p)
      BY <2>0, <2>2, <2>3, <3>1, Zenon DEF Kept, At, Settled
    <3>2. CASE k # Pkg(p)
      <4>1. lock'[k] = lock[k] /\ (lock[k] # None => lock[k] # p)
        BY <1>0, <2>2, <3>2, Zenon DEF LocksHeld
      <4>2. lock[k] # None => proc'[lock[k]] = proc[lock[k]]
        BY <2>1, <2>2, <4>1, Zenon DEF Moves
      <4> QED
        BY <2>3, <4>1, <4>2, Zenon DEF Kept
    <3> QED
      BY <3>1, <3>2, Zenon
  <2>4. ASSUME NEW q \in Procs, proc'[q].pc \in Replacing \ {"emit", "emitting"}
        PROVE  object[proc'[q].pkg] = proc'[q].ast[proc'[q].pkg]
    BY <2>1, <2>4, Zenon DEF Moves, Kept, Pkg, Replacing
  <2> QED
    BY <2>2, <2>3, <2>4, Zenon DEF Kept, Pkg
<1>14. ASSUME NEW p \in Procs, link_all_libs(p) PROVE Kept'
  <2>1. Moves(p) /\ proc'[p].pc = "done" /\ proc'[p].out = object /\ proc'[p].ast = proc[p].ast
    BY <1>0, <1>14, AfterLink, Zenon
  <2> QED
    BY <1>0, <1>14, <2>1, SMT DEF link_all_libs, Typed, TypeOK, Moves, Kept, LocksHeld, InfoHeld, At,
       Pkg, Working, Settled,
       Replacing, disk, locks, history
<1>15. ASSUME NEW p \in Procs, Stop(p) PROVE Kept'
  <2>1. Moves(p) /\ proc'[p].pc = "idle"
    BY <1>0, <1>15, AfterIdle, ZenonT(30) DEF Stop
  <2> QED
    BY <1>0, <1>15, <2>1, SMT DEF Stop, Typed, TypeOK, Moves, Kept, LocksHeld, InfoHeld, At, Pkg,
       Working, Settled,
       Replacing, disk, locks, history
<1>16. ASSUME NEW p \in Procs, NEW k \in Pkgs, ParsePkg(p, k) PROVE Kept'
  <2>1. /\ Moves(p) /\ proc'[p].todo = proc[p].todo
        /\ proc'[p].ast = [proc[p].ast EXCEPT ![k] = source[k]]
        /\ proc'[p].pc \in {"parse", "build", "gen"}
        /\ proc'[p].pc # "parse" => \A j \in Pkgs \ {k} : proc[p].ast[j] # None
    BY <1>0, <1>16, AfterParse, Zenon
  <2> QED
    BY <1>0, <1>16, <2>1, SMT DEF ParsePkg, Typed, TypeOK, Moves, Kept, LocksHeld, InfoHeld, At, Pkg,
       Working, Settled,
       Replacing, disk, locks, history
<1>17. ASSUME NEW p \in Procs, NEW k \in Pkgs, LockPkg(p, k) PROVE Kept'
  <2>1. /\ Moves(p) /\ proc'[p].pc = "load" /\ proc'[p].pkg = k
        /\ proc'[p].todo = proc[p].todo /\ proc'[p].ast = proc[p].ast
    BY <1>0, <1>17, AfterLock, Zenon
  <2> QED
    BY <1>0, <1>17, <2>1, SMT DEF LockPkg, Typed, TypeOK, Moves, Kept, LocksHeld, InfoHeld, At, Pkg,
       Working, Settled,
       Replacing, disk, locks, history
<1>18. ASSUME NEW k \in Pkgs, Edit(k) PROVE Kept'
  BY <1>0, <1>18, Zenon DEF Edit, Kept, Pkg, locks
<1>19. CASE UNCHANGED vars
  BY <1>0, <1>19, Zenon DEF vars, Kept, Pkg
<1> QED
  BY <1>1, <1>2, <1>3, <1>4, <1>5, <1>6, <1>7, <1>8, <1>9, <1>10, <1>11, <1>12, <1>13, <1>14,
     <1>15, <1>16, <1>17, <1>18, <1>19, Zenon DEF Next, Step
-----------------------------------------------------------------------------
(* The others are where they were. *)
LEMMA OthersParsed ==
    ASSUME Parsed, NEW p \in Procs, Moves(p), UNCHANGED source, ParsedBy(p)'
    PROVE  Parsed'
<1>1. ASSUME NEW q \in Procs \ {p} PROVE ParsedBy(q)'
  <2>1. proc'[q] = proc[q] /\ ParsedBy(q)
    BY Zenon DEF Moves, Parsed
  <2> QED
    BY <2>1, Zenon DEF ParsedBy, Active, At, Pkg
<1> QED
  BY <1>1, Zenon DEF Parsed

LEMMA OthersFinished ==
    ASSUME Locked, Finished, NEW p \in Procs, Moves(p), UNCHANGED source, FinishedBy(p)',
           \A k \in Pkgs : Recorded(k) => Recorded(k)',
           \A k \in Pkgs : Recorded(k)' => object'[k] = source[k],
           \A k \in Pkgs : lock[k] \notin {None, p} =>
               (Recorded(k)' => Recorded(k)) /\ info'[k] = info[k] /\ object'[k] = object[k]
    PROVE  Finished'
<1>1. ASSUME NEW q \in Procs \ {p} PROVE FinishedBy(q)'
  <2>1. proc'[q] = proc[q] /\ FinishedBy(q)
    BY Zenon DEF Moves, Finished
  <2>2. CASE proc[q].pc \in Working
    <3>1. Pkg(q) \in Pkgs /\ lock[Pkg(q)] \notin {None, p}
      BY <2>2, WorksOn, PkgCacheAssumption, Zenon
    <3>2. proc[q].todo \subseteq Pkgs
      BY ProcessFields, Zenon DEF Locked
    <3>3. /\ Recorded(Pkg(q))' <=> Recorded(Pkg(q))
          /\ info'[Pkg(q)] = info[Pkg(q)] /\ object'[Pkg(q)] = object[Pkg(q)]
      <4>1. PICK k \in Pkgs : k = Pkg(q) /\ Pkg(q)' = k /\ lock[k] \notin {None, p}
        BY <2>1, <3>1, Zenon DEF Pkg
      <4>2. (Recorded(k)' <=> Recorded(k)) /\ info'[k] = info[k] /\ object'[k] = object[k]
        BY <4>1, Zenon
      <4> QED
        BY <4>1, <4>2, Zenon DEF Recorded
    <3> HIDE DEF Recorded
    <3> QED
      BY <2>1, <3>1, <3>3, Zenon DEF FinishedBy, Active, At, Pkg
  <2>3. CASE proc[q].pc \notin Working
    BY <2>1, <2>3, Zenon DEF FinishedBy, Active, At, Working, Settled
  <2> QED
    BY <2>2, <2>3, Zenon
<1> QED
  BY <1>1, Zenon DEF Finished

LEMMA CalmInit == Init => Calm
BY PkgCacheAssumption, SMT DEF Init, Calm, LinksWhatItParsed, Parsed, ParsedBy, Finished, FinishedBy,
   Recorded, Active, Idle, Nothing, At, Replacing

LEMMA CalmStep == Locked /\ Kept /\ Calm /\ [Next]_vars => Calm'
<1> SUFFICES ASSUME Locked, Kept, Calm, [Next]_vars, calm' PROVE Parsed' /\ Finished' /\ LinksWhatItParsed'
  BY Zenon DEF Calm, LinksWhatItParsed
<1>0. Typed /\ LocksHeld /\ InfoHeld /\ None \notin Procs
  BY PkgCacheAssumption, Zenon DEF Locked
<1>1. ASSUME NEW p \in Procs, Start(p) PROVE Parsed' /\ Finished' /\ LinksWhatItParsed'
  <2>1. /\ Moves(p) /\ proc'[p].pc = "parse" /\ proc'[p].ast = Nothing
        /\ proc'[p].todo = Pkgs
    BY <1>0, <1>1, AfterStart, Zenon
  <2>2. calm /\ Parsed /\ Finished /\ \A q \in Procs : At(q, "done") => proc[q].out = proc[q].ast
    BY <1>1, Zenon DEF Start, Calm, LinksWhatItParsed, history
  <2>3. Parsed'
    BY <1>0, <1>1, <2>1, <2>2, SMT DEF Start, Typed, TypeOK, Moves, Parsed, ParsedBy, Active, At, Pkg,
       Nothing, disk
  <2>4. Finished'
    BY <1>0, <1>1, <2>1, <2>2, SMT DEF Start, Typed, TypeOK, Moves, Parsed, ParsedBy, Finished,
       FinishedBy, Recorded, IsHit, Kept, LocksHeld, InfoHeld,
       Active, At, Pkg, Working, Settled, Replacing, disk, locks, history
  <2>5. LinksWhatItParsed'
    BY <1>0, <1>1, <2>1, <2>2, Zenon DEF Start, Moves, LinksWhatItParsed, At
  <2> QED
    BY <2>3, <2>4, <2>5, Zenon
<1>2. ASSUME NEW p \in Procs, ParseFails(p) PROVE Parsed' /\ Finished' /\ LinksWhatItParsed'
  <2>1. Moves(p) /\ proc'[p].pc = "idle"
    BY <1>0, <1>2, AfterIdle, Zenon DEF ParseFails
  <2>2. calm /\ Parsed /\ Finished /\ \A q \in Procs : At(q, "done") => proc[q].out = proc[q].ast
    BY <1>2, Zenon DEF ParseFails, Calm, LinksWhatItParsed, history
  <2>3. Parsed'
    BY <1>0, <1>2, <2>1, <2>2, SMT DEF ParseFails, Typed, TypeOK, Moves, Parsed, ParsedBy, Active, At,
       Pkg, Nothing, disk
  <2>4. Finished'
    BY <1>0, <1>2, <2>1, <2>2, SMT DEF ParseFails, Typed, TypeOK, Moves, Parsed, ParsedBy, Finished,
       FinishedBy, Recorded, IsHit, Kept, LocksHeld, InfoHeld,
       Active, At, Pkg, Working, Settled, Replacing, disk, locks, history
  <2>5. LinksWhatItParsed'
    BY <1>0, <1>2, <2>1, <2>2, Zenon DEF ParseFails, Moves, LinksWhatItParsed, At
  <2> QED
    BY <2>3, <2>4, <2>5
<1>3. ASSUME NEW p \in Procs, build_with_lock(p) PROVE Parsed' /\ Finished' /\ LinksWhatItParsed'
  <2>1. /\ Moves(p) /\ proc'[p].pc = "gen"
        /\ proc'[p].ast = proc[p].ast /\ proc'[p].todo = proc[p].todo
        /\ proc'[p].pkg = proc[p].pkg /\ proc'[p].hash = proc[p].hash
    BY <1>0, <1>3, Goes, Zenon DEF build_with_lock, Pcs
  <2>2. calm /\ Parsed /\ Finished /\ \A q \in Procs : At(q, "done") => proc[q].out = proc[q].ast
    BY <1>3, Zenon DEF build_with_lock, Calm, LinksWhatItParsed, history
  <2>3. Parsed'
    BY <1>0, <1>3, <2>1, <2>2, SMT DEF build_with_lock, Typed, TypeOK, Moves, Parsed, ParsedBy, Active,
       At, Pkg, Nothing, disk
  <2>4. Finished'
    BY <1>0, <1>3, <2>1, <2>2, SMT DEF build_with_lock, Typed, TypeOK, Moves, Parsed, ParsedBy,
       Finished, FinishedBy, Recorded, IsHit, Kept, LocksHeld, InfoHeld,
       Active, At, Pkg, Working, Settled, Replacing, disk, locks, history
  <2>5. LinksWhatItParsed'
    BY <1>0, <1>3, <2>1, <2>2, Zenon DEF build_with_lock, Moves, LinksWhatItParsed, At
  <2> QED
    BY <2>3, <2>4, <2>5
<1>4. ASSUME NEW p \in Procs, load_pkg_cache(p) PROVE Parsed' /\ Finished' /\ LinksWhatItParsed'
  <2>0. proc[p].pc \in Working /\ Pkg(p) \in Pkgs /\ Pkg(p) \in proc[p].todo /\ lock[Pkg(p)] = p
    BY <1>4, WorksOn, Zenon DEF load_pkg_cache, At, Working, Settled, Replacing
  <2>1. /\ Moves(p) /\ proc'[p].pc = IF IsHit(Pkg(p)) THEN "unlock" ELSE "clean"
        /\ proc'[p].ast = proc[p].ast /\ proc'[p].todo = proc[p].todo
        /\ proc'[p].pkg = proc[p].pkg /\ proc'[p].hash = proc[p].hash
    BY <1>0, <1>4, Goes, Zenon DEF load_pkg_cache, Pcs, Working, Settled
  <2>2. calm /\ Parsed /\ Finished /\ \A q \in Procs : At(q, "done") => proc[q].out = proc[q].ast
    BY <1>4, Zenon DEF load_pkg_cache, Calm, LinksWhatItParsed, history
  <2>3. Parsed'
    BY <1>0, <1>4, <2>0, <2>1, <2>2, SMTT(30) DEF load_pkg_cache, Typed, TypeOK, Moves, Parsed, ParsedBy,
       Active, At, Pkg, Nothing, disk
  <2>4. Finished'
    BY <1>0, <1>4, <2>0, <2>1, <2>2, SMT DEF load_pkg_cache, Typed, TypeOK, Moves, Parsed, ParsedBy,
       Finished, FinishedBy, Recorded, IsHit, Kept, LocksHeld, InfoHeld,
       Active, At, Pkg, Working, Settled, Replacing, disk, locks, history
  <2>5. LinksWhatItParsed'
    BY <1>0, <1>4, <2>0, <2>1, <2>2, Zenon DEF load_pkg_cache, Moves, LinksWhatItParsed, At
  <2> QED
    BY <2>3, <2>4, <2>5
<1>5. ASSUME NEW p \in Procs, clean_path(p) PROVE Parsed' /\ Finished' /\ LinksWhatItParsed'
  <2>0. proc[p].pc \in Working /\ Pkg(p) \in Pkgs /\ Pkg(p) \in proc[p].todo /\ lock[Pkg(p)] = p
    BY <1>5, WorksOn, Zenon DEF clean_path, At, Working, Settled, Replacing
  <2>1. /\ Moves(p) /\ proc'[p].pc = "emit"
        /\ proc'[p].ast = proc[p].ast /\ proc'[p].todo = proc[p].todo
        /\ proc'[p].pkg = proc[p].pkg /\ proc'[p].hash = proc[p].hash
    BY <1>0, <1>5, Goes, Zenon DEF clean_path, Pcs, Working, Replacing
  <2>2. calm /\ Parsed /\ Finished /\ \A q \in Procs : At(q, "done") => proc[q].out = proc[q].ast
    BY <1>5, Zenon DEF clean_path, Calm, LinksWhatItParsed, history
  <2>3. Parsed'
    BY <1>0, <1>5, <2>0, <2>1, <2>2, SMT DEF clean_path, Typed, TypeOK, Moves, Parsed, ParsedBy,
       Active, At, Pkg, Nothing, disk
  <2>4. Finished'
    <3>1. /\ UNCHANGED <<source, info, entries>> /\ object' = [object EXCEPT ![Pkg(p)] = None]
          /\ object \in [Pkgs -> Versions \cup {None, Partial}] /\ FinishedBy(p) /\ At(p, "clean")
      BY <1>0, <1>5, <2>2, Zenon DEF clean_path, Finished, Typed, TypeOK
    <3>2. ~Recorded(Pkg(p)) /\ \A j \in Pkgs : Recorded(j)' <=> Recorded(j)
      BY <3>1, Zenon DEF Recorded, FinishedBy, At
    <3>3. \A j \in Pkgs : Recorded(j) => object'[j] = source[j]
      BY <2>2, <3>1, <3>2, Zenon DEF Finished
    <3>4. FinishedBy(p)'
      BY <2>1, <3>1, Zenon DEF FinishedBy, Recorded, Active, At, Pkg, Replacing
    <3>5. \A j \in Pkgs : lock[j] \notin {None, p} => object'[j] = object[j]
      BY <2>0, <3>1, Zenon
    <3> QED
      BY <2>1, <2>2, <3>1, <3>2, <3>3, <3>4, <3>5, OthersFinished, Zenon
  <2>5. LinksWhatItParsed'
    BY <1>0, <1>5, <2>0, <2>1, <2>2, Zenon DEF clean_path, Moves, LinksWhatItParsed, At
  <2> QED
    BY <2>3, <2>4, <2>5
<1>6. ASSUME NEW p \in Procs, emit_code(p) PROVE Parsed' /\ Finished' /\ LinksWhatItParsed'
  <2>0. proc[p].pc \in Working /\ Pkg(p) \in Pkgs /\ Pkg(p) \in proc[p].todo /\ lock[Pkg(p)] = p
    BY <1>6, WorksOn, Zenon DEF emit_code, At, Working, Settled, Replacing
  <2>1. /\ Moves(p) /\ proc'[p].pc = "emitting"
        /\ proc'[p].ast = proc[p].ast /\ proc'[p].todo = proc[p].todo
        /\ proc'[p].pkg = proc[p].pkg /\ proc'[p].hash = proc[p].hash
    BY <1>0, <1>6, Goes, Zenon DEF emit_code, Pcs, Working, Replacing
  <2>2. calm /\ Parsed /\ Finished /\ \A q \in Procs : At(q, "done") => proc[q].out = proc[q].ast
    BY <1>6, Zenon DEF emit_code, Calm, LinksWhatItParsed, history
  <2>3. Parsed'
    BY <1>0, <1>6, <2>0, <2>1, <2>2, SMTT(30) DEF emit_code, Typed, TypeOK, Moves, Parsed, ParsedBy, Active,
       At, Pkg, Nothing, disk
  <2>4. Finished'
    BY <1>0, <1>6, <2>0, <2>1, <2>2, SMT DEF emit_code, Typed, TypeOK, Moves, Parsed, ParsedBy,
       Finished, FinishedBy, Recorded, IsHit, Kept, LocksHeld, InfoHeld,
       Active, At, Pkg, Working, Settled, Replacing, disk, locks, history
  <2>5. LinksWhatItParsed'
    BY <1>0, <1>6, <2>0, <2>1, <2>2, Zenon DEF emit_code, Moves, LinksWhatItParsed, At
  <2> QED
    BY <2>3, <2>4, <2>5
<1>7. ASSUME NEW p \in Procs, emit_done(p) PROVE Parsed' /\ Finished' /\ LinksWhatItParsed'
  <2>0. proc[p].pc \in Working /\ Pkg(p) \in Pkgs /\ Pkg(p) \in proc[p].todo /\ lock[Pkg(p)] = p
    BY <1>7, WorksOn, Zenon DEF emit_done, At, Working, Settled, Replacing
  <2>1. /\ Moves(p) /\ proc'[p].pc = "save"
        /\ proc'[p].ast = proc[p].ast /\ proc'[p].todo = proc[p].todo
        /\ proc'[p].pkg = proc[p].pkg /\ proc'[p].hash = proc[p].hash
    BY <1>0, <1>7, Goes, Zenon DEF emit_done, Pcs, Working, Replacing
  <2>2. calm /\ Parsed /\ Finished /\ \A q \in Procs : At(q, "done") => proc[q].out = proc[q].ast
    BY <1>7, Zenon DEF emit_done, Calm, LinksWhatItParsed, history
  <2>3. Parsed'
    BY <1>0, <1>7, <2>0, <2>1, <2>2, SMTT(30) DEF emit_done, Typed, TypeOK, Moves, Parsed, ParsedBy, Active,
       At, Pkg, Nothing, disk
  <2>4. Finished'
    BY <1>0, <1>7, <2>0, <2>1, <2>2, SMT DEF emit_done, Typed, TypeOK, Moves, Parsed, ParsedBy,
       Finished, FinishedBy, Recorded, IsHit, Kept, LocksHeld, InfoHeld,
       Active, At, Pkg, Working, Settled, Replacing, disk, locks, history
  <2>5. LinksWhatItParsed'
    BY <1>0, <1>7, <2>0, <2>1, <2>2, ZenonT(30) DEF emit_done, Moves, LinksWhatItParsed, At
  <2> QED
    BY <2>3, <2>4, <2>5
<1>8. ASSUME NEW p \in Procs, save_pkg_cache(p) PROVE Parsed' /\ Finished' /\ LinksWhatItParsed'
  <2>0. proc[p].pc \in Working /\ Pkg(p) \in Pkgs /\ Pkg(p) \in proc[p].todo /\ lock[Pkg(p)] = p
    BY <1>8, WorksOn, Zenon DEF save_pkg_cache, At, Working, Settled, Replacing
  <2>1. /\ Moves(p) /\ proc'[p].pkg = proc[p].pkg
        /\ proc'[p].todo = proc[p].todo /\ proc'[p].ast = proc[p].ast
        /\ \/ /\ source[Pkg(p)] # None /\ proc'[p].hash = source[Pkg(p)]
              /\ proc'[p].pc = "info_lock" /\ UNCHANGED spoiled
           \/ /\ source[Pkg(p)] = None /\ proc'[p].pc \in {"data", "unlock"}
              /\ spoiled' = spoiled \cup {Pkg(p)}
    BY <1>0, <1>8, <2>0, AfterSave, Zenon
  <2>2. calm /\ Parsed /\ Finished /\ \A q \in Procs : At(q, "done") => proc[q].out = proc[q].ast
    BY <1>8, Zenon DEF save_pkg_cache, Calm, LinksWhatItParsed, history
  <2>3. Parsed'
    BY <1>0, <1>8, <2>0, <2>1, <2>2, SMTT(30) DEF save_pkg_cache, Typed, TypeOK, Moves, Parsed, ParsedBy,
       Active, At, Pkg, Nothing, disk
  <2>4. Finished'
    BY <1>0, <1>8, <2>0, <2>1, <2>2, SMT DEF save_pkg_cache, Typed, TypeOK, Moves, Parsed, ParsedBy,
       Finished, FinishedBy, Recorded, IsHit, Kept, LocksHeld, InfoHeld,
       Active, At, Pkg, Working, Settled, Replacing, disk, locks, history
  <2>5. LinksWhatItParsed'
    BY <1>0, <1>8, <2>0, <2>1, <2>2, Zenon DEF save_pkg_cache, Moves, LinksWhatItParsed, At
  <2> QED
    BY <2>3, <2>4, <2>5
<1>9. ASSUME NEW p \in Procs, LockInfo(p) PROVE Parsed' /\ Finished' /\ LinksWhatItParsed'
  <2>0. proc[p].pc \in Working /\ Pkg(p) \in Pkgs /\ Pkg(p) \in proc[p].todo /\ lock[Pkg(p)] = p
    BY <1>9, WorksOn, Zenon DEF LockInfo, At, Working, Settled, Replacing
  <2>1. /\ Moves(p) /\ proc'[p].pc = "info_read"
        /\ proc'[p].ast = proc[p].ast /\ proc'[p].todo = proc[p].todo
        /\ proc'[p].pkg = proc[p].pkg /\ proc'[p].hash = proc[p].hash
    BY <1>0, <1>9, Goes, Zenon DEF LockInfo, Pcs, Working, Replacing
  <2>2. calm /\ Parsed /\ Finished /\ \A q \in Procs : At(q, "done") => proc[q].out = proc[q].ast
    BY <1>9, Zenon DEF LockInfo, Calm, LinksWhatItParsed, history
  <2>3. Parsed'
    BY <1>0, <1>9, <2>0, <2>1, <2>2, SMTT(30) DEF LockInfo, Typed, TypeOK, Moves, Parsed, ParsedBy, Active,
       At, Pkg, Nothing, disk
  <2>4. Finished'
    BY <1>0, <1>9, <2>0, <2>1, <2>2, SMT DEF LockInfo, Typed, TypeOK, Moves, Parsed, ParsedBy,
       Finished, FinishedBy, Recorded, IsHit, Kept, LocksHeld, InfoHeld,
       Active, At, Pkg, Working, Settled, Replacing, disk, locks, history
  <2>5. LinksWhatItParsed'
    BY <1>0, <1>9, <2>0, <2>1, <2>2, Zenon DEF LockInfo, Moves, LinksWhatItParsed, At
  <2> QED
    BY <2>3, <2>4, <2>5
<1>10. ASSUME NEW p \in Procs, read_info_cache(p) PROVE Parsed' /\ Finished' /\ LinksWhatItParsed'
  <2>0. proc[p].pc \in Working /\ Pkg(p) \in Pkgs /\ Pkg(p) \in proc[p].todo /\ lock[Pkg(p)] = p
    BY <1>10, WorksOn, Zenon DEF read_info_cache, At, Working, Settled, Replacing
  <2>1. /\ Moves(p) /\ proc'[p].pc = "info_write" /\ proc'[p].cache = info
        /\ proc'[p].pkg = proc[p].pkg /\ proc'[p].hash = proc[p].hash
        /\ proc'[p].todo = proc[p].todo /\ proc'[p].ast = proc[p].ast
    BY <1>0, <1>10, <2>0, AfterRead, Zenon
  <2>2. calm /\ Parsed /\ Finished /\ \A q \in Procs : At(q, "done") => proc[q].out = proc[q].ast
    BY <1>10, Zenon DEF read_info_cache, Calm, LinksWhatItParsed, history
  <2>3. Parsed'
    BY <1>0, <1>10, <2>0, <2>1, <2>2, SMTT(30) DEF read_info_cache, Typed, TypeOK, Moves, Parsed, ParsedBy,
       Active, At, Pkg, Nothing, disk
  <2>4. Finished'
    BY <1>0, <1>10, <2>0, <2>1, <2>2, SMT DEF read_info_cache, Typed, TypeOK, Moves, Parsed, ParsedBy,
       Finished, FinishedBy, Recorded, IsHit, Kept, LocksHeld, InfoHeld,
       Active, At, Pkg, Working, Settled, Replacing, disk, locks, history
  <2>5. LinksWhatItParsed'
    BY <1>0, <1>10, <2>0, <2>1, <2>2, Zenon DEF read_info_cache, Moves, LinksWhatItParsed, At
  <2> QED
    BY <2>3, <2>4, <2>5
<1>11. ASSUME NEW p \in Procs, write_info_cache(p) PROVE Parsed' /\ Finished' /\ LinksWhatItParsed'
  <2>0. proc[p].pc \in Working /\ Pkg(p) \in Pkgs /\ Pkg(p) \in proc[p].todo /\ lock[Pkg(p)] = p
    BY <1>11, WorksOn, Zenon DEF write_info_cache, At, Working, Settled, Replacing
  <2>1. /\ Moves(p) /\ proc'[p].pc = "data"
        /\ proc'[p].ast = proc[p].ast /\ proc'[p].todo = proc[p].todo
        /\ proc'[p].pkg = proc[p].pkg /\ proc'[p].hash = proc[p].hash
    BY <1>0, <1>11, Goes, Zenon DEF write_info_cache, Pcs, Working, Settled
  <2>2. calm /\ Parsed /\ Finished /\ \A q \in Procs : At(q, "done") => proc[q].out = proc[q].ast
    BY <1>11, Zenon DEF write_info_cache, Calm, LinksWhatItParsed, history
  <2>3. Parsed'
    BY <1>0, <1>11, <2>0, <2>1, <2>2, SMT DEF write_info_cache, Typed, TypeOK, Moves, Parsed, ParsedBy,
       Active, At, Pkg, Nothing, disk
  <2>4. Finished'
    <3>1. /\ UNCHANGED <<source, object, entries>> /\ At(p, "info_write") /\ FinishedBy(p)
          /\ info' = [info EXCEPT ![Pkg(p)] = source[Pkg(p)]] /\ info \in [Pkgs -> Versions \cup {None}]
      BY <1>0, <1>11, <2>0, <2>2, Zenon DEF write_info_cache, InfoHeld, Parsed, ParsedBy, Finished,
         Active, Typed, TypeOK, At
    <3>2. object[Pkg(p)] = source[Pkg(p)]
      BY <2>0, <2>2, <3>1, Zenon DEF Kept, Parsed, ParsedBy, Active, At, Replacing
    <3>3. \A j \in Pkgs \ {Pkg(p)} : (Recorded(j)' <=> Recorded(j)) /\ info'[j] = info[j]
      BY <3>1, Zenon DEF Recorded
    <3>4. \A j \in Pkgs : Recorded(j) => Recorded(j)'
      BY <3>1, Zenon DEF Recorded
    <3>5. \A j \in Pkgs : Recorded(j)' => object'[j] = source[j]
      BY <2>2, <3>1, <3>2, <3>3, Zenon DEF Finished
    <3>6. FinishedBy(p)'
      <4>1. info'[Pkg(p)] = source[Pkg(p)] /\ object'[Pkg(p)] = source[Pkg(p)]
        BY <2>0, <3>1, <3>2, Zenon
      <4>2. \A k \in Pkgs \ proc[p].todo : Recorded(k)'
        BY <3>1, <3>4, Zenon DEF FinishedBy, Active, At
      <4> QED
        BY <2>1, <3>1, <4>1, <4>2, Zenon DEF FinishedBy, Active, At, Pkg, Replacing
    <3>7. \A j \in Pkgs : lock[j] \notin {None, p} => j # Pkg(p)
      BY <2>0, Zenon
    <3> QED
      BY <2>1, <2>2, <3>1, <3>3, <3>4, <3>5, <3>6, <3>7, OthersFinished, Zenon
  <2>5. LinksWhatItParsed'
    BY <1>0, <1>11, <2>0, <2>1, <2>2, Zenon DEF write_info_cache, Moves, LinksWhatItParsed, At
  <2> QED
    BY <2>3, <2>4, <2>5
<1>12. ASSUME NEW p \in Procs, save_data_to_file(p) PROVE Parsed' /\ Finished' /\ LinksWhatItParsed'
  <2>0. proc[p].pc \in Working /\ Pkg(p) \in Pkgs /\ Pkg(p) \in proc[p].todo /\ lock[Pkg(p)] = p
    BY <1>12, WorksOn, Zenon DEF save_data_to_file, At, Working, Settled, Replacing
  <2>1. /\ Moves(p) /\ proc'[p].pc = "unlock"
        /\ proc'[p].ast = proc[p].ast /\ proc'[p].todo = proc[p].todo
        /\ proc'[p].pkg = proc[p].pkg /\ proc'[p].hash = proc[p].hash
    BY <1>0, <1>12, Goes, Zenon DEF save_data_to_file, Pcs, Working, Settled
  <2>2. calm /\ Parsed /\ Finished /\ \A q \in Procs : At(q, "done") => proc[q].out = proc[q].ast
    BY <1>12, Zenon DEF save_data_to_file, Calm, LinksWhatItParsed, history
  <2>3. Parsed'
    BY <1>0, <1>12, <2>0, <2>1, <2>2, SMTT(30) DEF save_data_to_file, Typed, TypeOK, Moves, Parsed,
       ParsedBy, Active, At, Pkg, Nothing, disk
  <2>4. Finished'
    BY <1>0, <1>12, <2>0, <2>1, <2>2, SMT DEF save_data_to_file, Typed, TypeOK, Moves, Parsed,
       ParsedBy, Finished, FinishedBy, Recorded, IsHit, Kept, LocksHeld, InfoHeld,
       Active, At, Pkg, Working, Settled, Replacing, disk, locks, history
  <2>5. LinksWhatItParsed'
    BY <1>0, <1>12, <2>0, <2>1, <2>2, Zenon DEF save_data_to_file, Moves, LinksWhatItParsed, At
  <2> QED
    BY <2>3, <2>4, <2>5
<1>13. ASSUME NEW p \in Procs, UnlockPkg(p) PROVE Parsed' /\ Finished' /\ LinksWhatItParsed'
  <2>0. proc[p].pc \in Working /\ Pkg(p) \in Pkgs /\ Pkg(p) \in proc[p].todo /\ lock[Pkg(p)] = p
    BY <1>13, WorksOn, Zenon DEF UnlockPkg, At, Working, Settled, Replacing
  <2>1. /\ Moves(p) /\ proc'[p].todo = proc[p].todo \ {Pkg(p)} /\ proc'[p].ast = proc[p].ast
        /\ proc'[p].pc = IF proc[p].todo = {Pkg(p)} THEN "link" ELSE "gen"
    BY <1>0, <1>13, <2>0, AfterUnlock, Zenon
  <2>2. calm /\ Parsed /\ Finished /\ \A q \in Procs : At(q, "done") => proc[q].out = proc[q].ast
    BY <1>13, Zenon DEF UnlockPkg, Calm, LinksWhatItParsed, history
  <2>3. Parsed'
    <3>1. At(p, "unlock") /\ UNCHANGED source /\ proc'[p].pc \in {"link", "gen"} /\ ParsedBy(p)
      BY <1>13, <2>1, <2>2, Zenon DEF UnlockPkg, Parsed, disk
    <3>2. ParsedBy(p)'
      BY <2>1, <3>1, Zenon DEF ParsedBy, Active, At
    <3> QED
      BY <2>1, <2>2, <3>1, <3>2, OthersParsed, Zenon
  <2>4. Finished'
    <3>1. /\ At(p, "unlock") /\ UNCHANGED <<source, object, info, entries>>
          /\ proc'[p].pc \in {"link", "gen"} /\ FinishedBy(p)
      BY <1>13, <2>1, <2>2, Zenon DEF UnlockPkg, Finished, disk
    <3>2. \A j \in Pkgs : Recorded(j)' <=> Recorded(j)
      BY <3>1, Zenon DEF Recorded
    <3>3. \A j \in Pkgs \ proc'[p].todo : Recorded(j)
      BY <2>0, <2>1, <3>1, Zenon DEF FinishedBy, Active, At
    <3>4. proc'[p].pc = "link" => proc'[p].todo = {}
      BY <2>1, Zenon
    <3>5. FinishedBy(p)'
      BY <3>1, <3>2, <3>3, <3>4, Zenon DEF FinishedBy, Active, At, Replacing
    <3> QED
      BY <2>1, <2>2, <3>1, <3>2, <3>5, OthersFinished, Zenon DEF Finished
  <2>5. LinksWhatItParsed'
    BY <1>0, <1>13, <2>0, <2>1, <2>2, SMT DEF UnlockPkg, Moves, LinksWhatItParsed, At
  <2> QED
    BY <2>3, <2>4, <2>5
<1>14. ASSUME NEW p \in Procs, link_all_libs(p) PROVE Parsed' /\ Finished' /\ LinksWhatItParsed'
  <2>1. Moves(p) /\ proc'[p].pc = "done" /\ proc'[p].out = object /\ proc'[p].ast = proc[p].ast
    BY <1>0, <1>14, AfterLink, Zenon
  <2>2. calm /\ Parsed /\ Finished /\ \A q \in Procs : At(q, "done") => proc[q].out = proc[q].ast
    BY <1>14, Zenon DEF link_all_libs, Calm, LinksWhatItParsed, history
  <2>3. Parsed'
    BY <1>0, <1>14, <2>1, <2>2, SMTT(30) DEF link_all_libs, Typed, TypeOK, Moves, Parsed, ParsedBy, Active,
       At, Pkg, Nothing, disk
  <2>4. Finished'
    BY <1>0, <1>14, <2>1, <2>2, SMT DEF link_all_libs, Typed, TypeOK, Moves, Parsed, ParsedBy,
       Finished, FinishedBy, Recorded, IsHit, Kept, LocksHeld, InfoHeld,
       Active, At, Pkg, Working, Settled, Replacing, disk, locks, history
  <2>5. LinksWhatItParsed'
    <3>1. At(p, "link") /\ Active(p) /\ proc[p].todo = {}
      BY <1>14, <2>2, Zenon DEF link_all_libs, Finished, FinishedBy, Active, At
    <3>2. \A k \in Pkgs : proc[p].ast[k] = source[k] /\ object[k] = source[k]
      BY <2>2, <3>1, Zenon DEF Parsed, ParsedBy, Finished, FinishedBy, At
    <3>3. proc[p].ast \in [Pkgs -> Versions \cup {None}] /\ object \in [Pkgs -> Versions \cup {None, Partial}]
      BY <1>0, ProcessFields, Zenon DEF Typed, TypeOK
    <3>4. proc'[p].out = proc'[p].ast
      BY <2>1, <3>2, <3>3, SMT
    <3> QED
      BY <2>1, <2>2, <3>4, Zenon DEF Moves, LinksWhatItParsed, At
  <2> QED
    BY <2>3, <2>4, <2>5
<1>15. ASSUME NEW p \in Procs, Stop(p) PROVE Parsed' /\ Finished' /\ LinksWhatItParsed'
  <2>1. Moves(p) /\ proc'[p].pc = "idle"
    BY <1>0, <1>15, AfterIdle, Zenon DEF Stop
  <2>2. calm /\ Parsed /\ Finished /\ \A q \in Procs : At(q, "done") => proc[q].out = proc[q].ast
    BY <1>15, Zenon DEF Stop, Calm, LinksWhatItParsed, history
  <2>3. Parsed'
    BY <1>0, <1>15, <2>1, <2>2, SMTT(30) DEF Stop, Typed, TypeOK, Moves, Parsed, ParsedBy, Active, At, Pkg,
       Nothing, disk
  <2>4. Finished'
    BY <1>0, <1>15, <2>1, <2>2, SMT DEF Stop, Typed, TypeOK, Moves, Parsed, ParsedBy, Finished,
       FinishedBy, Recorded, IsHit, Kept, LocksHeld, InfoHeld,
       Active, At, Pkg, Working, Settled, Replacing, disk, locks, history
  <2>5. LinksWhatItParsed'
    BY <1>0, <1>15, <2>1, <2>2, Zenon DEF Stop, Moves, LinksWhatItParsed, At
  <2> QED
    BY <2>3, <2>4, <2>5
<1>16. ASSUME NEW p \in Procs, NEW k \in Pkgs, ParsePkg(p, k) PROVE Parsed' /\ Finished' /\ LinksWhatItParsed'
  <2>1. /\ Moves(p) /\ proc'[p].todo = proc[p].todo
        /\ proc'[p].ast = [proc[p].ast EXCEPT ![k] = source[k]]
        /\ proc'[p].pc \in {"parse", "build", "gen"}
        /\ proc'[p].pc # "parse" => \A j \in Pkgs \ {k} : proc[p].ast[j] # None
    BY <1>0, <1>16, AfterParse, Zenon
  <2>2. calm /\ Parsed /\ Finished /\ \A q \in Procs : At(q, "done") => proc[q].out = proc[q].ast
    BY <1>16, Zenon DEF ParsePkg, Calm, LinksWhatItParsed, history
  <2>3. Parsed'
    <3>1. At(p, "parse") /\ Active(p) /\ UNCHANGED source /\ source[k] # None /\ ParsedBy(p)
      BY <1>16, <2>2, Zenon DEF ParsePkg, Parsed, disk, At, Active
    <3>2. proc[p].ast \in [Pkgs -> Versions \cup {None}]
      BY <1>0, ProcessFields, Zenon
    <3>3. ASSUME NEW j \in Pkgs
          PROVE  /\ proc'[p].ast[j] = source[j] \/ (proc'[p].ast[j] = None /\ proc'[p].pc = "parse")
                 /\ proc'[p].pc = "parse" \/ source[j] # None
                 /\ j \in proc'[p].todo
      <4>1. /\ proc[p].ast[j] \in {source[j], None} /\ j \in proc[p].todo
        BY <3>1, Zenon DEF ParsedBy
      <4>2. CASE j = k
        BY <2>1, <3>1, <3>2, <4>1, <4>2, Zenon
      <4>3. CASE j # k
        <5>1. proc'[p].ast[j] = proc[p].ast[j]
          BY <2>1, <3>2, <4>3, Zenon
        <5> QED
          BY <2>1, <4>1, <4>3, <5>1, Zenon
      <4> QED
        BY <4>2, <4>3, Zenon
    <3>4. ParsedBy(p)'
      BY <2>1, <3>1, <3>3, Zenon DEF ParsedBy, Active, At
    <3> QED
      BY <2>1, <2>2, <3>1, <3>4, OthersParsed, Zenon
  <2>4. Finished'
    <3>1. At(p, "parse") /\ Active(p) /\ UNCHANGED <<source, object, info, entries>> /\ FinishedBy(p)
      BY <1>16, <2>2, Zenon DEF ParsePkg, Finished, disk, At, Active
    <3>2. \A j \in Pkgs : Recorded(j)' <=> Recorded(j)
      BY <3>1, Zenon DEF Recorded
    <3>3. \A j \in Pkgs : j \in proc'[p].todo
      BY <2>1, <2>2, <3>1, Zenon DEF Parsed, ParsedBy
    <3>4. FinishedBy(p)'
      BY <2>1, <3>1, <3>2, <3>3, Zenon DEF FinishedBy, Active, At, Replacing
    <3> QED
      BY <2>1, <2>2, <3>1, <3>2, <3>4, OthersFinished, Zenon DEF Finished
  <2>5. LinksWhatItParsed'
    BY <1>0, <1>16, <2>1, <2>2, Zenon DEF ParsePkg, Moves, LinksWhatItParsed, At
  <2> QED
    BY <2>3, <2>4, <2>5, Zenon
<1>17. ASSUME NEW p \in Procs, NEW k \in Pkgs, LockPkg(p, k) PROVE Parsed' /\ Finished' /\ LinksWhatItParsed'
  <2>1. /\ Moves(p) /\ proc'[p].pc = "load" /\ proc'[p].pkg = k
        /\ proc'[p].todo = proc[p].todo /\ proc'[p].ast = proc[p].ast
    BY <1>0, <1>17, AfterLock, Zenon
  <2>2. calm /\ Parsed /\ Finished /\ \A q \in Procs : At(q, "done") => proc[q].out = proc[q].ast
    BY <1>17, Zenon DEF LockPkg, Calm, LinksWhatItParsed, history
  <2>3. Parsed'
    BY <1>0, <1>17, <2>1, <2>2, SMTT(30) DEF LockPkg, Typed, TypeOK, Moves, Parsed, ParsedBy, Active, At,
       Pkg, Nothing, disk
  <2>4. Finished'
    BY <1>0, <1>17, <2>1, <2>2, SMT DEF LockPkg, Typed, TypeOK, Moves, Parsed, ParsedBy, Finished,
       FinishedBy, Recorded, IsHit, Kept, LocksHeld, InfoHeld,
       Active, At, Pkg, Working, Settled, Replacing, disk, locks, history
  <2>5. LinksWhatItParsed'
    BY <1>0, <1>17, <2>1, <2>2, Zenon DEF LockPkg, Moves, LinksWhatItParsed, At
  <2> QED
    BY <2>3, <2>4, <2>5
<1>18. ASSUME NEW k \in Pkgs, Edit(k) PROVE Parsed' /\ Finished' /\ LinksWhatItParsed'
  <2>1. /\ spoiled = {} /\ \A p \in Procs : proc[p].pc \in {"idle", "done"}
        /\ UNCHANGED <<object, info, entries, proc, lock>>
    BY <1>18, Zenon DEF Edit, locks
  <2>2. \A j \in Pkgs : lock[j] = None
    BY <1>0, <2>1, SMT DEF LocksHeld, Typed, TypeOK, Working, Settled, Replacing
  <2>3. \A j \in Pkgs : info[j] # None => object[j] = info[j]
    BY <2>1, <2>2, Zenon DEF Kept
  <2>4. Parsed' /\ LinksWhatItParsed'
    BY <1>18, <2>1, Zenon DEF Parsed, Calm, LinksWhatItParsed, ParsedBy, Active, At, Edit
  <2>5. Finished'
    <3>1. \A p \in Procs : FinishedBy(p)'
      BY <2>1, Zenon DEF FinishedBy, Active, At, Replacing
    <3>2. \A j \in Pkgs : Recorded(j)' => object'[j] = source'[j]
      BY <2>1, <2>3, ZenonT(30) DEF Recorded
    <3> QED
      BY <3>1, <3>2, Zenon DEF Finished
  <2> QED
    BY <2>4, <2>5, Zenon
<1>19. CASE UNCHANGED vars
  BY <1>0, <1>19, SMT DEF vars, Calm, Parsed, ParsedBy, Finished, FinishedBy, LinksWhatItParsed,
     Recorded, Active, At, Pkg
<1> QED
  BY <1>1, <1>2, <1>3, <1>4, <1>5, <1>6, <1>7, <1>8, <1>9, <1>10, <1>11, <1>12, <1>13, <1>14,
     <1>15, <1>16, <1>17, <1>18, <1>19, Zenon DEF Next, Step
-----------------------------------------------------------------------------
(* The three invariants together. *)
CacheInv == Locked /\ Kept /\ Calm

THEOREM CacheInvariant == Spec => []CacheInv
<1>1. Init => CacheInv
  BY LockedInit, KeptInit, CalmInit, Zenon DEF CacheInv
<1>2. CacheInv /\ [Next]_vars => CacheInv'
  BY LockedStep, KeptStep, CalmStep, Zenon DEF CacheInv
<1> QED
  BY <1>1, <1>2, PTL DEF Spec

(* Whatever processes overlap, crash or fail, and whenever the sources are   *)
(* edited: outside of a package's lock, the md5 that write_info_cache has    *)
(* recorded is the one of the sources of its object file, unless the object  *)
(* was replaced and the md5 not, or the files changed under the compiler.    *)
THEOREM CacheIsCoherent == Spec => []Coherent
<1>1. CacheInv => Coherent
  BY Zenon DEF CacheInv, Kept, Coherent
<1> QED
  BY <1>1, CacheInvariant, PTL

(* While the sources change only between complete runs, link_all_libs links  *)
(* what load_program parsed: though the objects are read after their locks   *)
(* are released, no run replaces one that another run is done with.          *)
THEOREM RunsLinkWhatTheyParsed == Spec => []LinksWhatItParsed
<1>1. CacheInv => LinksWhatItParsed
  BY Zenon DEF CacheInv, Calm
<1> QED
  BY <1>1, CacheInvariant, PTL

(* write_info_cache loses no update: the file is replaced as a whole, but    *)
(* only the entry of the package whose lock the process holds changes.       *)
THEOREM NoUpdateLost == Spec => InfoKept
<1> DEFINE Saves == \A k \in Pkgs : info'[k] # info[k] =>
                       \E p \in Procs : lock[k] = p /\ At(p, "info_write") /\ Pkg(p) = k
<1>1. ASSUME Locked, [Next]_vars PROVE Saves
  <2>1. ASSUME NEW p \in Procs, write_info_cache(p) PROVE Saves
    <3>1. Pkg(p) \in Pkgs /\ lock[Pkg(p)] = p
      BY <1>1, <2>1, WorksOn, Zenon DEF write_info_cache, At, Working, Replacing
    <3>2. info' = [info EXCEPT ![Pkg(p)] = proc[p].hash] /\ At(p, "info_write")
      BY <1>1, <2>1, Zenon DEF write_info_cache, Locked, InfoHeld
    <3>3. info \in [Pkgs -> Versions \cup {None}]
      BY <1>1, Zenon DEF Locked, Typed, TypeOK
    <3> QED
      BY <3>1, <3>2, <3>3, Zenon
  <2>2. UNCHANGED info => Saves
    BY Zenon
  <2> HIDE DEF Saves
  <2>3. ASSUME NEW p \in Procs, Step(p) PROVE Saves
    BY <2>1, <2>2, <2>3, Zenon DEF Step, ParsePkg, LockPkg, ParseFails, build_with_lock, load_pkg_cache,
       clean_path, emit_code, emit_done, save_pkg_cache, LockInfo, read_info_cache, save_data_to_file,
       UnlockPkg, link_all_libs, disk
  <2>4. ASSUME NEW p \in Procs, Start(p) \/ Stop(p) PROVE Saves
    BY <2>2, <2>4, Zenon DEF Start, Stop, disk
  <2>5. ASSUME NEW k \in Pkgs, Edit(k) PROVE Saves
    BY <2>2, <2>5, Zenon DEF Edit
  <2>6. CASE UNCHANGED vars
    BY <2>2, <2>6, Zenon DEF vars
  <2> QED
    BY <1>1, <2>3, <2>4, <2>5, <2>6, Zenon DEF Next
<1>2. Locked /\ [Next]_vars => [Saves]_vars
  BY <1>1, Zenon
<1>3. CacheInv => Locked
  BY Zenon DEF CacheInv
<1> QED
  BY <1>2, <1>3, CacheInvariant, PTL DEF Spec, InfoKept
=============================================================================
