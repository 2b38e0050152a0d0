----------------------------- MODULE BuildCache -----------------------------
(***************************************************************************)
(* The build directories of the CLI (crates/cli/src/commands/compile.rs).  A    *)
(* process checks the source, writes a crate into the directory that is named   *)
(* by a hash of it, runs cargo there and loads the library it finds.  Processes  *)
(* share the directories and take no lock of their own; only cargo has one.     *)
(* A process may be killed at any point.                                       *)
(***************************************************************************)
EXTENDS Naturals

CONSTANTS
    Processes,
    Sources,        \* submissions, with the shim appended
    Keys,           \* names of build directories
    Key,            \* the hash of a source
    Compiling,      \* sources that cargo can build
    Refused,        \* sources that say `unsafe`, or have no compute_swap
    None, Empty,    \* no file; a file that was truncated, and not written yet
    MaxBuilds       \* bound: builds that are started

Kinds == {"native", "bpf"}

ASSUME BuildAssumption ==
    /\ Key \in [Sources -> Keys]
    /\ Compiling \subseteq Sources /\ Refused \subseteq Sources
    /\ None \notin Sources /\ Empty \notin Sources /\ None # Empty
    /\ MaxBuilds \in Nat
    /\ None \notin Processes

Contents == Sources \cup {None, Empty}

VARIABLES
    toml,           \* Cargo.toml of a directory: None, Empty or "full"
    lib_rs,         \* src/lib.rs of a directory
    library,        \* the library cargo left in a directory, by kind of build
    changed,        \* lib.rs is newer than cargo's last successful build, by kind
    lock,           \* the process whose cargo holds the lock of a kind of build
    pc, source, kind,
    read,           \* what rustc read
    loaded,         \* the library the process loaded
    builds,         \* started so far
    alone           \* ghost: no other process was at work in the directory meanwhile

files == <<toml, lib_rs, library, changed, lock>>
vars == <<files, pc, source, kind, read, loaded, builds, alone>>

Idle == {"idle", "loaded", "failed", "killed"}

(* Mutant: one directory for all submissions. *)
SharedDir(s) == CHOOSE k \in Keys : TRUE

(* ensure_build_dir: .build/runs/<hash>. *)
Dir(s) == Key[s]

D(p) == Dir(source[p])

Init ==
    /\ toml = [d \in Keys |-> None] /\ lib_rs = [d \in Keys |-> None]
    /\ library = [d \in Keys |-> [k \in Kinds |-> None]]
    /\ changed = [d \in Keys |-> [k \in Kinds |-> TRUE]]
    /\ lock = [d \in Keys |-> [k \in Kinds |-> None]]
    /\ pc = [p \in Processes |-> "idle"]
    /\ source = [p \in Processes |-> None] /\ kind = [p \in Processes |-> "native"]
    /\ read = [p \in Processes |-> None] /\ loaded = [p \in Processes |-> None]
    /\ builds = 0 /\ alone = [p \in Processes |-> FALSE]

Goto(p, label) == pc' = [pc EXCEPT ![p] = label]

-----------------------------------------------------------------------------
AtWork(p, d) == {q \in Processes \ {p} : pc[q] \notin Idle /\ D(q) = d}

(* compile_native or compile_bpf begins: the source is read and checked. *)
Begin(p, s, k) ==
    /\ pc[p] \in Idle /\ builds < MaxBuilds
    /\ builds' = builds + 1
    /\ source' = [source EXCEPT ![p] = s] /\ kind' = [kind EXCEPT ![p] = k]
    /\ loaded' = [loaded EXCEPT ![p] = None]
    /\ IF s \in Refused
       THEN Goto(p, "failed") /\ alone' = [alone EXCEPT ![p] = TRUE]
       ELSE /\ Goto(p, "toml")
            /\ alone' = [q \in Processes |->
                   IF q = p THEN AtWork(p, Dir(s)) = {}
                   ELSE alone[q] /\ q \notin AtWork(p, Dir(s))]
    /\ UNCHANGED <<files, read>>

CompareToml(p) ==
    /\ pc[p] = "toml"
    /\ Goto(p, IF toml[D(p)] = "full" THEN "source" ELSE "truncate_toml")
    /\ UNCHANGED <<files, source, kind, read, loaded, builds, alone>>

TruncateToml(p) ==
    /\ pc[p] = "truncate_toml"
    /\ toml' = [toml EXCEPT ![D(p)] = Empty]
    /\ Goto(p, "write_toml")
    /\ UNCHANGED <<lib_rs, library, changed, lock, source, kind, read, loaded, builds, alone>>

WriteToml(p) ==
    /\ pc[p] = "write_toml"
    /\ toml' = [toml EXCEPT ![D(p)] = "full"]
    /\ Goto(p, "source")
    /\ UNCHANGED <<lib_rs, library, changed, lock, source, kind, read, loaded, builds, alone>>

(* Mutant: a source that is there is not looked into. *)
CompareSourceExists(p) ==
    /\ pc[p] = "source"
    /\ Goto(p, IF lib_rs[D(p)] # None THEN "cargo" ELSE "truncate_source")
    /\ UNCHANGED <<files, source, kind, read, loaded, builds, alone>>

(* A source that is the same is not written again: cargo would rebuild it. *)
CompareSource(p) ==
    /\ pc[p] = "source"
    /\ Goto(p, IF lib_rs[D(p)] = source[p] THEN "cargo" ELSE "truncate_source")
    /\ UNCHANGED <<files, source, kind, read, loaded, builds, alone>>

SetSource(d, content) ==
    /\ lib_rs' = [lib_rs EXCEPT ![d] = content]
    /\ changed' = [changed EXCEPT ![d] = [k \in Kinds |-> TRUE]]
    /\ UNCHANGED <<toml, library, lock>>

TruncateSource(p) ==
    /\ pc[p] = "truncate_source"
    /\ SetSource(D(p), Empty)
    /\ Goto(p, "write_source")
    /\ UNCHANGED <<source, kind, read, loaded, builds, alone>>

WriteSource(p) ==
    /\ pc[p] = "write_source"
    /\ SetSource(D(p), source[p])
    /\ Goto(p, "cargo")
    /\ UNCHANGED <<source, kind, read, loaded, builds, alone>>

-----------------------------------------------------------------------------
(* cargo: the manifest first, then the lock. *)
ReadManifest(p) ==
    /\ pc[p] = "cargo"
    /\ Goto(p, IF toml[D(p)] = "full" THEN "wait" ELSE "failed")
    /\ UNCHANGED <<files, source, kind, read, loaded, builds, alone>>

SetLock(p, holder) == lock' = [lock EXCEPT ![D(p)][kind[p]] = holder]
SetChanged(p, flag) == changed' = [changed EXCEPT ![D(p)][kind[p]] = flag]

IsFresh(p) == ~changed[D(p)][kind[p]]

(* With the lock held cargo finds that nothing changed, or it builds; what changes from *)
(* now on is newer than the build.                                                     *)
CargoFresh(p) ==
    /\ pc[p] = "wait" /\ lock[D(p)][kind[p]] = None /\ IsFresh(p)
    /\ Goto(p, "load")
    /\ UNCHANGED <<files, source, kind, read, loaded, builds, alone>>

CargoBuilds(p) ==
    /\ pc[p] = "wait" /\ lock[D(p)][kind[p]] = None /\ ~IsFresh(p)
    /\ SetLock(p, p) /\ SetChanged(p, FALSE)
    /\ Goto(p, "rustc")
    /\ UNCHANGED <<toml, lib_rs, library, source, kind, read, loaded, builds, alone>>

ReadByRustc(p) ==
    /\ pc[p] = "rustc"
    /\ read' = [read EXCEPT ![p] = lib_rs[D(p)]]
    /\ Goto(p, "compile")
    /\ UNCHANGED <<files, source, kind, loaded, builds, alone>>

(* An empty source is a library with nothing in it. *)
Buildable(content) == content \in Compiling \cup {Empty}

(* Mutant: a build that failed keeps its lock. *)
CargoFailsLocked(p) ==
    /\ pc[p] = "compile" /\ ~Buildable(read[p])
    /\ SetChanged(p, TRUE)
    /\ Goto(p, "failed") /\ read' = [read EXCEPT ![p] = None]
    /\ UNCHANGED <<toml, lib_rs, library, lock, source, kind, loaded, builds, alone>>

CargoFails(p) ==
    /\ pc[p] = "compile" /\ ~Buildable(read[p])
    /\ SetLock(p, None) /\ SetChanged(p, TRUE)
    /\ Goto(p, "failed") /\ read' = [read EXCEPT ![p] = None]
    /\ UNCHANGED <<toml, lib_rs, library, source, kind, loaded, builds, alone>>

UnlinkLibrary(p) ==
    /\ pc[p] = "compile" /\ Buildable(read[p])
    /\ library' = [library EXCEPT ![D(p)][kind[p]] = None]
    /\ Goto(p, "link")
    /\ UNCHANGED <<toml, lib_rs, changed, lock, source, kind, read, loaded, builds, alone>>

LinkLibrary(p) ==
    /\ pc[p] = "link"
    /\ library' = [library EXCEPT ![D(p)][kind[p]] = read[p]]
    /\ SetLock(p, None)
    /\ Goto(p, "load")
    /\ read' = [read EXCEPT ![p] = None]
    /\ UNCHANGED <<toml, lib_rs, changed, source, kind, loaded, builds, alone>>

(* Mutant: what was found is taken without a look for its symbols. *)
LoadUnchecked(p) ==
    /\ pc[p] = "load"
    /\ Goto(p, "loaded")
    /\ loaded' = [loaded EXCEPT ![p] = library[D(p)][kind[p]]]
    /\ UNCHANGED <<files, source, kind, read, builds, alone>>

(* find_native_lib or find_bpf_so: the library that is there, whatever built it. *)
Found(p) == library[D(p)][kind[p]]

(* A library without the symbols is refused, as is an empty directory. *)
Load(p) ==
    /\ pc[p] = "load"
    /\ IF Found(p) \in {None, Empty}
       THEN Goto(p, "failed") /\ UNCHANGED loaded
       ELSE Goto(p, "loaded") /\ loaded' = [loaded EXCEPT ![p] = Found(p)]
    /\ UNCHANGED <<files, source, kind, read, builds, alone>>

(* The process is interrupted, and its cargo with it; cargo has not recorded the build. *)
Building == {"rustc", "compile", "link"}

Kill(p) ==
    /\ pc[p] \notin Idle \cup Building
    /\ Goto(p, "killed")
    /\ UNCHANGED <<files, source, kind, read, loaded, builds, alone>>

KillBuild(p) ==
    /\ pc[p] \in Building
    /\ SetLock(p, None) /\ SetChanged(p, TRUE)
    /\ Goto(p, "killed") /\ read' = [read EXCEPT ![p] = None]
    /\ UNCHANGED <<toml, lib_rs, library, source, kind, loaded, builds, alone>>

Step(p) ==
    \/ CompareToml(p) \/ TruncateToml(p) \/ WriteToml(p)
    \/ CompareSource(p) \/ TruncateSource(p) \/ WriteSource(p)
    \/ ReadManifest(p) \/ CargoFresh(p) \/ CargoBuilds(p) \/ ReadByRustc(p)
    \/ CargoFails(p) \/ UnlinkLibrary(p) \/ LinkLibrary(p) \/ Load(p)

Next ==
    \E p \in Processes :
        Step(p) \/ Kill(p) \/ KillBuild(p) \/ \E s \in Sources, k \in Kinds : Begin(p, s, k)

(* Every process runs, and cargo's lock is free again and again for who waits for it. *)
Spec == Init /\ [][Next]_vars /\ \A p \in Processes : SF_vars(Step(p))

-----------------------------------------------------------------------------
Labels == Idle \cup {"toml", "truncate_toml", "write_toml", "source", "truncate_source",
                     "write_source", "cargo", "wait", "rustc", "compile", "link", "load"}

TypeOK ==
    /\ toml \in [Keys -> {None, Empty, "full"}]
    /\ lib_rs \in [Keys -> Contents]
    /\ library \in [Keys -> [Kinds -> Contents]]
    /\ changed \in [Keys -> [Kinds -> BOOLEAN]]
    /\ lock \in [Keys -> [Kinds -> Processes \cup {None}]]
    /\ pc \in [Processes -> Labels]
    /\ source \in [Processes -> Sources \cup {None}] /\ kind \in [Processes -> Kinds]
    /\ read \in [Processes -> Contents] /\ loaded \in [Processes -> Sources \cup {None}]
    /\ builds \in 0 .. MaxBuilds /\ alone \in [Processes -> BOOLEAN]

Unique(s) == \A t \in Sources : Key[t] = Key[s] => t = s

(* A process never runs another submission's library, however many processes build    *)
(* at the same time, read half-written files, or were killed before it: what it loads    *)
(* was built from the source it was given, if no other source has the same hash.       *)
LoadsWhatItAskedFor ==
    \A p \in Processes :
        pc[p] = "loaded" /\ Unique(source[p]) => loaded[p] = source[p]

(* A build that had its directory to itself gives its own library, and fails only if the *)
(* source is at fault: whatever other builds left there, of another source with the same *)
(* hash, failed, or killed between any two steps.                                       *)
AloneSucceeds ==
    \A p \in Processes : alone[p] =>
        /\ pc[p] = "loaded" => loaded[p] = source[p]
        /\ pc[p] = "failed" => source[p] \in Refused \/ source[p] \notin Compiling

(* Every build ends: no process waits for ever for another one's cargo. *)
BuildsEnd == \A p \in Processes : pc[p] \notin Idle ~> pc[p] \in Idle
=============================================================================
