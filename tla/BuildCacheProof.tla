-------------------------- MODULE BuildCacheProof --------------------------
(* A build never loads another source's library, and one that has its directory  *)
(* to itself always succeeds: for any number of processes, sources and builds,    *)
(* and any hash.                                                                 *)
EXTENDS BuildCache, TLAPS

-----------------------------------------------------------------------------
(* The invariant. *)

AfterSource == {"cargo", "wait", "rustc", "compile", "link", "load"}
AfterToml == AfterSource \cup {"source", "truncate_source", "write_source"}

Named == \A p \in Processes : pc[p] # "idle" => source[p] \in Sources

(* cargo's lock belongs to the process that builds there, and to nobody else. *)
Locked ==
    /\ \A p \in Processes : pc[p] \in Building => lock[D(p)][kind[p]] = p
    /\ \A d \in Keys, k \in Kinds : lock[d][k] # None =>
          pc[lock[d][k]] \in Building /\ D(lock[d][k]) = d /\ kind[lock[d][k]] = k

(* What cargo takes to be built is the library of what lib.rs holds. *)
Recorded ==
    /\ \A d \in Keys, k \in Kinds : ~changed[d][k] =>
          /\ lock[d][k] = None => library[d][k] = lib_rs[d] /\ Buildable(lib_rs[d])
          /\ \A p \in Processes :
                pc[p] \in {"compile", "link"} /\ D(p) = d /\ kind[p] = k => read[p] = lib_rs[d]
    /\ \A p \in Processes : pc[p] = "link" => Buildable(read[p])

(* A process that is alone is. *)
Apart ==
    \A p, q \in Processes :
        p # q /\ alone[p] /\ pc[p] \notin Idle /\ pc[q] \notin Idle => D(p) # D(q)

(* What a process that is alone has brought about so far. *)
Progress(p) ==
        /\ pc[p] \in AfterToml => toml[D(p)] = "full"
        /\ pc[p] \in AfterSource => lib_rs[D(p)] = source[p]
        /\ pc[p] \in {"compile", "link"} => read[p] = source[p]
        /\ pc[p] = "load" => library[D(p)][kind[p]] = source[p] /\ source[p] \in Compiling
        /\ pc[p] = "loaded" => loaded[p] = source[p]
        /\ pc[p] = "failed" => source[p] \in Refused \/ source[p] \notin Compiling

Mine == \A p \in Processes : alone[p] => Progress(p)

(* Whatever is found in a directory comes from a source with the directory's name. *)
From(d) == {s \in Sources : Dir(s) = d} \cup {None, Empty}

Own ==
    /\ \A d \in Keys : lib_rs[d] \in From(d) /\ \A k \in Kinds : library[d][k] \in From(d)
    /\ \A p \in Processes :
          /\ pc[p] \in {"compile", "link"} => read[p] \in From(D(p))
          /\ pc[p] \notin {"compile", "link"} => read[p] = None
          /\ pc[p] = "loaded" => loaded[p] \in Sources /\ loaded[p] \in From(D(p))

IInv == TypeOK /\ Named /\ Locked /\ Recorded /\ Apart /\ Mine /\ Own

-----------------------------------------------------------------------------
LEMMA InitInv == Init => IInv
<1> SUFFICES ASSUME Init PROVE IInv
  OBVIOUS
<1>1. TypeOK
  BY BuildAssumption DEF Init, TypeOK, Labels, Contents, Idle, Kinds
<1>2. Named /\ Locked /\ Recorded /\ Apart /\ Mine
  BY BuildAssumption DEF Init, Named, Locked, Recorded, Apart, Mine, Building, AfterToml, AfterSource, Idle
<1>3. Own
  BY DEF Init, Own, From
<1> QED  BY <1>1, <1>2, <1>3 DEF IInv

LEMMA CompareTomlInv == ASSUME IInv, NEW p \in Processes, CompareToml(p) PROVE IInv'
<1>1. TypeOK'
  BY BuildAssumption DEF IInv, TypeOK, Labels, Contents, Named, Idle, Buildable, CompareToml, files, Goto, D, Dir
<1>2. Named'
  BY BuildAssumption DEF IInv, TypeOK, Named, Idle, CompareToml, files, Goto, D, Dir
<1>3. Locked'
  BY BuildAssumption DEF IInv, TypeOK, Named, Locked, Building, Idle, CompareToml, files, Goto, D, Dir
<1>4. Recorded'
  BY BuildAssumption DEF IInv, TypeOK, Named, Locked, Recorded, Building, Idle, Buildable, CompareToml, files, Goto, D, Dir
<1>5. Apart'
  BY BuildAssumption DEF IInv, TypeOK, Named, Apart, Idle, CompareToml, files, Goto, D, Dir
<1>6. Mine'
  BY BuildAssumption DEF IInv, TypeOK, Named, Locked, Recorded, Apart, Mine, Progress, AfterToml, AfterSource, Building, Idle, Buildable, Contents, CompareToml, files, Goto, D, Dir
<1>7. Own'
  BY BuildAssumption DEF IInv, TypeOK, Named, Own, From, Contents, Buildable, Idle, CompareToml, files, Goto, D, Dir
<1> QED  BY <1>1, <1>2, <1>3, <1>4, <1>5, <1>6, <1>7 DEF IInv

LEMMA TruncateTomlInv == ASSUME IInv, NEW p \in Processes, TruncateToml(p) PROVE IInv'
<1>1. TypeOK'
  BY BuildAssumption DEF IInv, TypeOK, Labels, Contents, Named, Idle, Buildable, TruncateToml, files, Goto, D, Dir
<1>2. Named'
  BY BuildAssumption DEF IInv, TypeOK, Named, Idle, TruncateToml, files, Goto, D, Dir
<1>3. Locked'
  BY BuildAssumption DEF IInv, TypeOK, Named, Locked, Building, Idle, TruncateToml, files, Goto, D, Dir
<1>4. Recorded'
  BY BuildAssumption DEF IInv, TypeOK, Named, Locked, Recorded, Building, Idle, Buildable, TruncateToml, files, Goto, D, Dir
<1>5. Apart'
  BY BuildAssumption DEF IInv, TypeOK, Named, Apart, Idle, TruncateToml, files, Goto, D, Dir
<1>6. Mine'
  <2> SUFFICES ASSUME NEW q \in Processes, alone'[q] PROVE Progress(q)'
    BY DEF Mine
  <2>1. Progress(q) /\ (q # p /\ pc[q] \notin Idle => D(q) # D(p))
    BY DEF IInv, Mine, Apart, TruncateToml, Idle, TypeOK
  <2>2. CASE q = p
    BY <2>1, <2>2, BuildAssumption DEF IInv, TypeOK, Named, Locked, Recorded, Progress, AfterToml, AfterSource, Building, Idle, Buildable, Contents, TruncateToml, files, Goto, D, Dir
  <2>3. CASE q # p
    BY <2>1, <2>3, BuildAssumption DEF IInv, TypeOK, Named, Progress, AfterToml, AfterSource, Building, Idle, TruncateToml, files, Goto, D, Dir
  <2> QED  BY <2>2, <2>3
<1>7. Own'
  BY BuildAssumption DEF IInv, TypeOK, Named, Own, From, Contents, Buildable, Idle, TruncateToml, files, Goto, D, Dir
<1> QED  BY <1>1, <1>2, <1>3, <1>4, <1>5, <1>6, <1>7 DEF IInv

LEMMA WriteTomlInv == ASSUME IInv, NEW p \in Processes, WriteToml(p) PROVE IInv'
<1>1. TypeOK'
  BY BuildAssumption DEF IInv, TypeOK, Labels, Contents, Named, Idle, Buildable, WriteToml, files, Goto, D, Dir
<1>2. Named'
  BY BuildAssumption DEF IInv, TypeOK, Named, Idle, WriteToml, files, Goto, D, Dir
<1>3. Locked'
  BY BuildAssumption DEF IInv, TypeOK, Named, Locked, Building, Idle, WriteToml, files, Goto, D, Dir
<1>4. Recorded'
  BY BuildAssumption DEF IInv, TypeOK, Named, Locked, Recorded, Building, Idle, Buildable, WriteToml, files, Goto, D, Dir
<1>5. Apart'
  BY BuildAssumption DEF IInv, TypeOK, Named, Apart, Idle, WriteToml, files, Goto, D, Dir
<1>6. Mine'
  BY BuildAssumption DEF IInv, TypeOK, Named, Locked, Recorded, Apart, Mine, Progress, AfterToml, AfterSource, Building, Idle, Buildable, Contents, WriteToml, files, Goto, D, Dir
<1>7. Own'
  BY BuildAssumption DEF IInv, TypeOK, Named, Own, From, Contents, Buildable, Idle, WriteToml, files, Goto, D, Dir
<1> QED  BY <1>1, <1>2, <1>3, <1>4, <1>5, <1>6, <1>7 DEF IInv

LEMMA CompareSourceInv == ASSUME IInv, NEW p \in Processes, CompareSource(p) PROVE IInv'
<1>1. TypeOK'
  BY BuildAssumption DEF IInv, TypeOK, Labels, Contents, Named, Idle, Buildable, CompareSource, files, Goto, D, Dir
<1>2. Named'
  BY BuildAssumption DEF IInv, TypeOK, Named, Idle, CompareSource, files, Goto, D, Dir
<1>3. Locked'
  BY BuildAssumption DEF IInv, TypeOK, Named, Locked, Building, Idle, CompareSource, files, Goto, D, Dir
<1>4. Recorded'
  BY BuildAssumption DEF IInv, TypeOK, Named, Locked, Recorded, Building, Idle, Buildable, CompareSource, files, Goto, D, Dir
<1>5. Apart'
  BY BuildAssumption DEF IInv, TypeOK, Named, Apart, Idle, CompareSource, files, Goto, D, Dir
<1>6. Mine'
  BY BuildAssumption DEF IInv, TypeOK, Named, Locked, Recorded, Apart, Mine, Progress, AfterToml, AfterSource, Building, Idle, Buildable, Contents, CompareSource, files, Goto, D, Dir
<1>7. Own'
  BY BuildAssumption DEF IInv, TypeOK, Named, Own, From, Contents, Buildable, Idle, CompareSource, files, Goto, D, Dir
<1> QED  BY <1>1, <1>2, <1>3, <1>4, <1>5, <1>6, <1>7 DEF IInv

LEMMA TruncateSourceInv == ASSUME IInv, NEW p \in Processes, TruncateSource(p) PROVE IInv'
<1>1. TypeOK'
  BY BuildAssumption DEF IInv, TypeOK, Labels, Contents, Named, Idle, Buildable, TruncateSource, files, Goto, D, Dir, SetSource
<1>2. Named'
  BY BuildAssumption DEF IInv, TypeOK, Named, Idle, TruncateSource, files, Goto, D, Dir, SetSource
<1>3. Locked'
  BY BuildAssumption DEF IInv, TypeOK, Named, Locked, Building, Idle, TruncateSource, files, Goto, D, Dir, SetSource
<1>4. Recorded'
  BY BuildAssumption DEF IInv, TypeOK, Named, Locked, Recorded, Building, Idle, Buildable, TruncateSource, files, Goto, D, Dir, SetSource
<1>5. Apart'
  BY BuildAssumption DEF IInv, TypeOK, Named, Apart, Idle, TruncateSource, files, Goto, D, Dir, SetSource
<1>6. Mine'
  <2> SUFFICES ASSUME NEW q \in Processes, alone'[q] PROVE Progress(q)'
    BY DEF Mine
  <2>1. Progress(q) /\ (q # p /\ pc[q] \notin Idle => D(q) # D(p))
    BY DEF IInv, Mine, Apart, TruncateSource, Idle, TypeOK
  <2>2. CASE q = p
    BY <2>1, <2>2, BuildAssumption DEF IInv, TypeOK, Named, Locked, Recorded, Progress, AfterToml, AfterSource, Building, Idle, Buildable, Contents, TruncateSource, files, Goto, D, Dir, SetSource
  <2>3. CASE q # p
    BY <2>1, <2>3, BuildAssumption DEF IInv, TypeOK, Named, Progress, AfterToml, AfterSource, Building, Idle, TruncateSource, files, Goto, D, Dir, SetSource
  <2> QED  BY <2>2, <2>3
<1>7. Own'
  BY BuildAssumption DEF IInv, TypeOK, Named, Own, From, Contents, Buildable, Idle, TruncateSource, files, Goto, D, Dir, SetSource
<1> QED  BY <1>1, <1>2, <1>3, <1>4, <1>5, <1>6, <1>7 DEF IInv

LEMMA WriteSourceInv == ASSUME IInv, NEW p \in Processes, WriteSource(p) PROVE IInv'
<1>1. TypeOK'
  BY BuildAssumption DEF IInv, TypeOK, Labels, Contents, Named, Idle, Buildable, WriteSource, files, Goto, D, Dir, SetSource
<1>2. Named'
  BY BuildAssumption DEF IInv, TypeOK, Named, Idle, WriteSource, files, Goto, D, Dir, SetSource
<1>3. Locked'
  BY BuildAssumption DEF IInv, TypeOK, Named, Locked, Building, Idle, WriteSource, files, Goto, D, Dir, SetSource
<1>4. Recorded'
  BY BuildAssumption DEF IInv, TypeOK, Named, Locked, Recorded, Building, Idle, Buildable, WriteSource, files, Goto, D, Dir, SetSource
<1>5. Apart'
  BY BuildAssumption DEF IInv, TypeOK, Named, Apart, Idle, WriteSource, files, Goto, D, Dir, SetSource
<1>6. Mine'
  <2> SUFFICES ASSUME NEW q \in Processes, alone'[q] PROVE Progress(q)'
    BY DEF Mine
  <2>1. Progress(q) /\ (q # p /\ pc[q] \notin Idle => D(q) # D(p))
    BY DEF IInv, Mine, Apart, WriteSource, Idle, TypeOK
  <2>2. CASE q = p
    BY <2>1, <2>2, BuildAssumption DEF IInv, TypeOK, Named, Locked, Recorded, Progress, AfterToml, AfterSource, Building, Idle, Buildable, Contents, WriteSource, files, Goto, D, Dir, SetSource
  <2>3. CASE q # p
    BY <2>1, <2>3, BuildAssumption DEF IInv, TypeOK, Named, Progress, AfterToml, AfterSource, Building, Idle, WriteSource, files, Goto, D, Dir, SetSource
  <2> QED  BY <2>2, <2>3
<1>7. Own'
  BY BuildAssumption DEF IInv, TypeOK, Named, Own, From, Contents, Buildable, Idle, WriteSource, files, Goto, D, Dir, SetSource
<1> QED  BY <1>1, <1>2, <1>3, <1>4, <1>5, <1>6, <1>7 DEF IInv

LEMMA ReadManifestInv == ASSUME IInv, NEW p \in Processes, ReadManifest(p) PROVE IInv'
<1>1. TypeOK'
  BY BuildAssumption DEF IInv, TypeOK, Labels, Contents, Named, Idle, Buildable, ReadManifest, files, Goto, D, Dir
<1>2. Named'
  BY BuildAssumption DEF IInv, TypeOK, Named, Idle, ReadManifest, files, Goto, D, Dir
<1>3. Locked'
  BY BuildAssumption DEF IInv, TypeOK, Named, Locked, Building, Idle, ReadManifest, files, Goto, D, Dir
<1>4. Recorded'
  BY BuildAssumption DEF IInv, TypeOK, Named, Locked, Recorded, Building, Idle, Buildable, ReadManifest, files, Goto, D, Dir
<1>5. Apart'
  BY BuildAssumption DEF IInv, TypeOK, Named, Apart, Idle, ReadManifest, files, Goto, D, Dir
<1>6. Mine'
  BY BuildAssumption DEF IInv, TypeOK, Named, Locked, Recorded, Apart, Mine, Progress, AfterToml, AfterSource, Building, Idle, Buildable, Contents, ReadManifest, files, Goto, D, Dir
<1>7. Own'
  BY BuildAssumption DEF IInv, TypeOK, Named, Own, From, Contents, Buildable, Idle, ReadManifest, files, Goto, D, Dir
<1> QED  BY <1>1, <1>2, <1>3, <1>4, <1>5, <1>6, <1>7 DEF IInv

LEMMA CargoFreshInv == ASSUME IInv, NEW p \in Processes, CargoFresh(p) PROVE IInv'
<1>1. TypeOK'
  BY BuildAssumption DEF IInv, TypeOK, Labels, Contents, Named, Idle, Buildable, CargoFresh, files, Goto, D, Dir, IsFresh
<1>2. Named'
  BY BuildAssumption DEF IInv, TypeOK, Named, Idle, CargoFresh, files, Goto, D, Dir, IsFresh
<1>3. Locked'
  BY BuildAssumption DEF IInv, TypeOK, Named, Locked, Building, Idle, CargoFresh, files, Goto, D, Dir, IsFresh
<1>4. Recorded'
  BY BuildAssumption DEF IInv, TypeOK, Named, Locked, Recorded, Building, Idle, Buildable, CargoFresh, files, Goto, D, Dir, IsFresh
<1>5. Apart'
  BY BuildAssumption DEF IInv, TypeOK, Named, Apart, Idle, CargoFresh, files, Goto, D, Dir, IsFresh
<1>6. Mine'
  BY BuildAssumption DEF IInv, TypeOK, Named, Locked, Recorded, Apart, Mine, Progress, AfterToml, AfterSource, Building, Idle, Buildable, Contents, CargoFresh, files, Goto, D, Dir, IsFresh
<1>7. Own'
  BY BuildAssumption DEF IInv, TypeOK, Named, Own, From, Contents, Buildable, Idle, CargoFresh, files, Goto, D, Dir, IsFresh
<1> QED  BY <1>1, <1>2, <1>3, <1>4, <1>5, <1>6, <1>7 DEF IInv

LEMMA CargoBuildsInv == ASSUME IInv, NEW p \in Processes, CargoBuilds(p) PROVE IInv'
<1>1. TypeOK'
  BY BuildAssumption DEF IInv, TypeOK, Labels, Contents, Named, Idle, Buildable, CargoBuilds, files, Goto, D, Dir, SetLock, SetChanged, IsFresh
<1>2. Named'
  BY BuildAssumption DEF IInv, TypeOK, Named, Idle, CargoBuilds, files, Goto, D, Dir, SetLock, SetChanged, IsFresh
<1>3. Locked'
  BY BuildAssumption DEF IInv, TypeOK, Named, Locked, Building, Idle, CargoBuilds, files, Goto, D, Dir, SetLock, SetChanged, IsFresh
<1>4. Recorded'
  BY BuildAssumption DEF IInv, TypeOK, Named, Locked, Recorded, Building, Idle, Buildable, CargoBuilds, files, Goto, D, Dir, SetLock, SetChanged, IsFresh
<1>5. Apart'
  BY BuildAssumption DEF IInv, TypeOK, Named, Apart, Idle, CargoBuilds, files, Goto, D, Dir, SetLock, SetChanged, IsFresh
<1>6. Mine'
  BY BuildAssumption DEF IInv, TypeOK, Named, Locked, Recorded, Apart, Mine, Progress, AfterToml, AfterSource, Building, Idle, Buildable, Contents, CargoBuilds, files, Goto, D, Dir, SetLock, SetChanged, IsFresh
<1>7. Own'
  BY BuildAssumption DEF IInv, TypeOK, Named, Own, From, Contents, Buildable, Idle, CargoBuilds, files, Goto, D, Dir, SetLock, SetChanged, IsFresh
<1> QED  BY <1>1, <1>2, <1>3, <1>4, <1>5, <1>6, <1>7 DEF IInv

LEMMA ReadByRustcInv == ASSUME IInv, NEW p \in Processes, ReadByRustc(p) PROVE IInv'
<1>1. TypeOK'
  BY BuildAssumption DEF IInv, TypeOK, Labels, Contents, Named, Idle, Buildable, ReadByRustc, files, Goto, D, Dir
<1>2. Named'
  BY BuildAssumption DEF IInv, TypeOK, Named, Idle, ReadByRustc, files, Goto, D, Dir
<1>3. Locked'
  BY BuildAssumption DEF IInv, TypeOK, Named, Locked, Building, Idle, ReadByRustc, files, Goto, D, Dir
<1>4. Recorded'
  BY BuildAssumption DEF IInv, TypeOK, Named, Locked, Recorded, Building, Idle, Buildable, ReadByRustc, files, Goto, D, Dir
<1>5. Apart'
  BY BuildAssumption DEF IInv, TypeOK, Named, Apart, Idle, ReadByRustc, files, Goto, D, Dir
<1>6. Mine'
  BY BuildAssumption DEF IInv, TypeOK, Named, Locked, Recorded, Apart, Mine, Progress, AfterToml, AfterSource, Building, Idle, Buildable, Contents, ReadByRustc, files, Goto, D, Dir
<1>7. Own'
  BY BuildAssumption DEF IInv, TypeOK, Named, Own, From, Contents, Buildable, Idle, ReadByRustc, files, Goto, D, Dir
<1> QED  BY <1>1, <1>2, <1>3, <1>4, <1>5, <1>6, <1>7 DEF IInv

LEMMA CargoFailsInv == ASSUME IInv, NEW p \in Processes, CargoFails(p) PROVE IInv'
<1>1. TypeOK'
  BY BuildAssumption DEF IInv, TypeOK, Labels, Contents, Named, Idle, Buildable, CargoFails, files, Goto, D, Dir, SetLock, SetChanged
<1>2. Named'
  BY BuildAssumption DEF IInv, TypeOK, Named, Idle, CargoFails, files, Goto, D, Dir, SetLock, SetChanged
<1>3. Locked'
  BY BuildAssumption DEF IInv, TypeOK, Named, Locked, Building, Idle, CargoFails, files, Goto, D, Dir, SetLock, SetChanged
<1>4. Recorded'
  BY BuildAssumption DEF IInv, TypeOK, Named, Locked, Recorded, Building, Idle, Buildable, CargoFails, files, Goto, D, Dir, SetLock, SetChanged
<1>5. Apart'
  BY BuildAssumption DEF IInv, TypeOK, Named, Apart, Idle, CargoFails, files, Goto, D, Dir, SetLock, SetChanged
<1>6. Mine'
  BY BuildAssumption DEF IInv, TypeOK, Named, Locked, Recorded, Apart, Mine, Progress, AfterToml, AfterSource, Building, Idle, Buildable, Contents, CargoFails, files, Goto, D, Dir, SetLock, SetChanged
<1>7. Own'
  BY BuildAssumption DEF IInv, TypeOK, Named, Own, From, Contents, Buildable, Idle, CargoFails, files, Goto, D, Dir, SetLock, SetChanged
<1> QED  BY <1>1, <1>2, <1>3, <1>4, <1>5, <1>6, <1>7 DEF IInv

LEMMA UnlinkLibraryInv == ASSUME IInv, NEW p \in Processes, UnlinkLibrary(p) PROVE IInv'
<1>1. TypeOK'
  BY BuildAssumption DEF IInv, TypeOK, Labels, Contents, Named, Idle, Buildable, UnlinkLibrary, files, Goto, D, Dir
<1>2. Named'
  BY BuildAssumption DEF IInv, TypeOK, Named, Idle, UnlinkLibrary, files, Goto, D, Dir
<1>3. Locked'
  BY BuildAssumption DEF IInv, TypeOK, Named, Locked, Building, Idle, UnlinkLibrary, files, Goto, D, Dir
<1>4. Recorded'
  BY BuildAssumption DEF IInv, TypeOK, Named, Locked, Recorded, Building, Idle, Buildable, UnlinkLibrary, files, Goto, D, Dir
<1>5. Apart'
  BY BuildAssumption DEF IInv, TypeOK, Named, Apart, Idle, UnlinkLibrary, files, Goto, D, Dir
<1>6. Mine'
  <2> SUFFICES ASSUME NEW q \in Processes, alone'[q] PROVE Progress(q)'
    BY DEF Mine
  <2>1. Progress(q) /\ (q # p /\ pc[q] \notin Idle => D(q) # D(p))
    BY DEF IInv, Mine, Apart, UnlinkLibrary, Idle, TypeOK
  <2>2. CASE q = p
    BY <2>1, <2>2, BuildAssumption DEF IInv, TypeOK, Named, Locked, Recorded, Progress, AfterToml, AfterSource, Building, Idle, Buildable, Contents, UnlinkLibrary, files, Goto, D, Dir
  <2>3. CASE q # p
    BY <2>1, <2>3, BuildAssumption DEF IInv, TypeOK, Named, Progress, AfterToml, AfterSource, Building, Idle, UnlinkLibrary, files, Goto, D, Dir
  <2> QED  BY <2>2, <2>3
<1>7. Own'
  BY BuildAssumption DEF IInv, TypeOK, Named, Own, From, Contents, Buildable, Idle, UnlinkLibrary, files, Goto, D, Dir
<1> QED  BY <1>1, <1>2, <1>3, <1>4, <1>5, <1>6, <1>7 DEF IInv

LEMMA LinkLibraryInv == ASSUME IInv, NEW p \in Processes, LinkLibrary(p) PROVE IInv'
<1>1. TypeOK'
  BY BuildAssumption DEF IInv, TypeOK, Labels, Contents, Named, Idle, Buildable, LinkLibrary, files, Goto, D, Dir, SetLock
<1>2. Named'
  BY BuildAssumption DEF IInv, TypeOK, Named, Idle, LinkLibrary, files, Goto, D, Dir, SetLock
<1>3. Locked'
  BY BuildAssumption DEF IInv, TypeOK, Named, Locked, Building, Idle, LinkLibrary, files, Goto, D, Dir, SetLock
<1>4. Recorded'
  BY BuildAssumption DEF IInv, TypeOK, Named, Locked, Recorded, Building, Idle, Buildable, LinkLibrary, files, Goto, D, Dir, SetLock
<1>5. Apart'
  BY BuildAssumption DEF IInv, TypeOK, Named, Apart, Idle, LinkLibrary, files, Goto, D, Dir, SetLock
<1>6. Mine'
  <2> SUFFICES ASSUME NEW q \in Processes, alone'[q] PROVE Progress(q)'
    BY DEF Mine
  <2>1. Progress(q) /\ (q # p /\ pc[q] \notin Idle => D(q) # D(p))
    BY DEF IInv, Mine, Apart, LinkLibrary, Idle, TypeOK
  <2>2. CASE q = p
    BY <2>1, <2>2, BuildAssumption DEF IInv, TypeOK, Named, Locked, Recorded, Progress, AfterToml, AfterSource, Building, Idle, Buildable, Contents, LinkLibrary, files, Goto, D, Dir, SetLock
  <2>3. CASE q # p
    BY <2>1, <2>3, BuildAssumption DEF IInv, TypeOK, Named, Progress, AfterToml, AfterSource, Building, Idle, LinkLibrary, files, Goto, D, Dir, SetLock
  <2> QED  BY <2>2, <2>3
<1>7. Own'
  BY BuildAssumption DEF IInv, TypeOK, Named, Own, From, Contents, Buildable, Idle, LinkLibrary, files, Goto, D, Dir, SetLock
<1> QED  BY <1>1, <1>2, <1>3, <1>4, <1>5, <1>6, <1>7 DEF IInv

LEMMA LoadInv == ASSUME IInv, NEW p \in Processes, Load(p) PROVE IInv'
<1>0. source[p] \in Sources /\ kind[p] \in Kinds /\ D(p) \in Keys
  BY BuildAssumption DEF IInv, TypeOK, Named, Load, D, Dir, Idle
<1>moved. /\ pc[p] = "load" /\ UNCHANGED <<source, kind, lock, read, lib_rs, library>>
          /\ \/ pc' = [pc EXCEPT ![p] = "failed"] /\ loaded' = loaded
             \/ /\ library[D(p)][kind[p]] \notin {None, Empty}
                /\ pc' = [pc EXCEPT ![p] = "loaded"]
                /\ loaded' = [loaded EXCEPT ![p] = library[D(p)][kind[p]]]
  BY DEF Load, Found, files, Goto
<1>found. library[D(p)][kind[p]] \in Contents
  BY <1>0 DEF IInv, TypeOK
<1>1. TypeOK'
  BY ZenonT(40), <1>0, <1>found, BuildAssumption DEF IInv, TypeOK, Labels, Contents, Named, Idle, Buildable, Load, files, Goto, D, Dir, Found
<1>2. Named'
  BY BuildAssumption DEF IInv, TypeOK, Named, Idle, Load, files, Goto, D, Dir, Found
<1>3. Locked'
  <2>1. \A q \in Processes : pc'[q] \in Building <=> pc[q] \in Building
    BY <1>moved DEF IInv, TypeOK, Building
  <2>2. \A q \in Processes : D(q)' = D(q)
    BY <1>moved DEF D, Dir
  <2>3. /\ \A q \in Processes : pc[q] \in Building => lock[D(q)][kind[q]] = q
        /\ \A d \in Keys, k \in Kinds : lock[d][k] # None =>
              /\ lock[d][k] \in Processes
              /\ pc[lock[d][k]] \in Building /\ D(lock[d][k]) = d /\ kind[lock[d][k]] = k
    BY DEF IInv, Locked, TypeOK
  <2>4. kind' = kind /\ lock' = lock
    BY <1>moved
  <2>5. (\A q \in Processes : pc[q] \in Building => lock[D(q)][kind[q]] = q)'
    BY <2>1, <2>2, <2>3, <2>4
  <2> QED
    BY <2>1, <2>2, <2>3, <2>4, <2>5 DEF Locked
<1>4. Recorded'
  BY BuildAssumption DEF IInv, TypeOK, Named, Locked, Recorded, Building, Idle, Buildable, Load, files, Goto, D, Dir, Found
<1>5. Apart'
  BY BuildAssumption DEF IInv, TypeOK, Named, Apart, Idle, Load, files, Goto, D, Dir, Found
<1>6. Mine'
  BY BuildAssumption DEF IInv, TypeOK, Named, Locked, Recorded, Apart, Mine, Progress, AfterToml, AfterSource, Building, Idle, Buildable, Contents, Load, files, Goto, D, Dir, Found
<1>7. Own'
  BY <1>0, <1>found, <1>moved DEF IInv, TypeOK, Own, From, D, Dir, Contents
<1> QED  BY <1>1, <1>2, <1>3, <1>4, <1>5, <1>6, <1>7 DEF IInv

LEMMA KillInv == ASSUME IInv, NEW p \in Processes, Kill(p) PROVE IInv'
<1>1. TypeOK'
  BY BuildAssumption DEF IInv, TypeOK, Labels, Contents, Named, Idle, Buildable, Kill, files, Goto, D, Dir, Building
<1>2. Named'
  BY BuildAssumption DEF IInv, TypeOK, Named, Idle, Kill, files, Goto, D, Dir, Building
<1>3. Locked'
  BY BuildAssumption DEF IInv, TypeOK, Named, Locked, Building, Idle, Kill, files, Goto, D, Dir
<1>4. Recorded'
  BY BuildAssumption DEF IInv, TypeOK, Named, Locked, Recorded, Building, Idle, Buildable, Kill, files, Goto, D, Dir
<1>5. Apart'
  BY BuildAssumption DEF IInv, TypeOK, Named, Apart, Idle, Kill, files, Goto, D, Dir, Building
<1>6. Mine'
  BY BuildAssumption DEF IInv, TypeOK, Named, Locked, Recorded, Apart, Mine, Progress, AfterToml, AfterSource, Building, Idle, Buildable, Contents, Kill, files, Goto, D, Dir
<1>7. Own'
  BY BuildAssumption DEF IInv, TypeOK, Named, Own, From, Contents, Buildable, Idle, Kill, files, Goto, D, Dir, Building
<1> QED  BY <1>1, <1>2, <1>3, <1>4, <1>5, <1>6, <1>7 DEF IInv

LEMMA KillBuildInv == ASSUME IInv, NEW p \in Processes, KillBuild(p) PROVE IInv'
<1>1. TypeOK'
  BY BuildAssumption DEF IInv, TypeOK, Labels, Contents, Named, Idle, Buildable, KillBuild, files, Goto, D, Dir, SetLock, SetChanged, Building
<1>2. Named'
  BY BuildAssumption DEF IInv, TypeOK, Named, Idle, KillBuild, files, Goto, D, Dir, SetLock, SetChanged, Building
<1>3. Locked'
  BY BuildAssumption DEF IInv, TypeOK, Named, Locked, Building, Idle, KillBuild, files, Goto, D, Dir, SetLock, SetChanged
<1>4. Recorded'
  BY BuildAssumption DEF IInv, TypeOK, Named, Locked, Recorded, Building, Idle, Buildable, KillBuild, files, Goto, D, Dir, SetLock, SetChanged
<1>5. Apart'
  BY BuildAssumption DEF IInv, TypeOK, Named, Apart, Idle, KillBuild, files, Goto, D, Dir, SetLock, SetChanged, Building
<1>6. Mine'
  BY BuildAssumption DEF IInv, TypeOK, Named, Locked, Recorded, Apart, Mine, Progress, AfterToml, AfterSource, Building, Idle, Buildable, Contents, KillBuild, files, Goto, D, Dir, SetLock, SetChanged
<1>7. Own'
  BY BuildAssumption DEF IInv, TypeOK, Named, Own, From, Contents, Buildable, Idle, KillBuild, files, Goto, D, Dir, SetLock, SetChanged, Building
<1> QED  BY <1>1, <1>2, <1>3, <1>4, <1>5, <1>6, <1>7 DEF IInv

LEMMA BeginInv ==
  ASSUME IInv, NEW p \in Processes, NEW s \in Sources, NEW k \in Kinds, Begin(p, s, k)
  PROVE IInv'
<1>idle. pc[p] \in Idle /\ UNCHANGED <<toml, lib_rs, library, changed, lock, read>>
  BY DEF Begin, files
<1>label. \E l \in {"failed", "toml"} : pc' = [pc EXCEPT ![p] = l] /\ (l = "failed" => s \in Refused)
  BY DEF Begin, Goto
<1>loaded. /\ loaded' = [loaded EXCEPT ![p] = None]
           /\ source' = [source EXCEPT ![p] = s] /\ kind' = [kind EXCEPT ![p] = k]
  BY DEF Begin
<1>alone. \A q \in Processes \ {p} : alone'[q] => alone[q]
  BY DEF Begin, IInv, TypeOK
<1>others. \A q \in Processes \ {p} :
             pc'[q] = pc[q] /\ D(q)' = D(q) /\ kind'[q] = kind[q] /\ source'[q] = source[q]
               /\ loaded'[q] = loaded[q]
  BY <1>label, <1>loaded DEF IInv, TypeOK, D, Dir
<1>self. /\ pc'[p] \in {"failed", "toml"} /\ source'[p] = s /\ (pc'[p] = "failed" => s \in Refused)
         /\ kind'[p] = k /\ D(p)' = Dir(s)
  BY <1>label, <1>loaded DEF IInv, TypeOK, D, Dir
<1>1. TypeOK'
  <2>1. alone' \in [Processes -> BOOLEAN]
    BY DEF Begin, IInv, TypeOK
  <2>2. builds' \in 0 .. MaxBuilds
    BY BuildAssumption DEF Begin, IInv, TypeOK
  <2>3. pc' \in [Processes -> Labels]
    BY <1>label DEF IInv, TypeOK, Labels, Idle
  <2> QED  BY <1>idle, <1>loaded, <2>1, <2>2, <2>3 DEF IInv, TypeOK
<1>2. Named'
  BY <1>others, <1>self DEF IInv, Named
<1>3. Locked'
  <2>1. \A q \in Processes : pc[q] \in Building => q # p
    BY <1>idle DEF Idle, Building
  <2> QED  BY <1>idle, <1>others, <1>self, <2>1 DEF IInv, TypeOK, Locked, Building
<1>4. Recorded'
  BY <1>idle, <1>others, <1>self DEF IInv, TypeOK, Recorded
<1>5. Apart'
  <2> SUFFICES ASSUME NEW q \in Processes, NEW r \in Processes,
                      q # r, alone'[q], pc'[q] \notin Idle, pc'[r] \notin Idle
               PROVE  D(q)' # D(r)'
    BY DEF Apart
  <2>1. CASE q # p /\ r # p
    BY <2>1, <1>others, <1>alone DEF IInv, Apart
  <2>2. pc'[p] \notin Idle => s \notin Refused
    BY <1>label, <1>self DEF Idle, Begin, Goto, IInv, TypeOK
  <2>3. CASE q = p
    <3>1. s \notin Refused /\ r # p
      BY <2>2, <2>3
    <3>2. AtWork(p, Dir(s)) = {}
      BY <3>1, <2>3 DEF Begin, IInv, TypeOK
    <3>3. pc[r] \notin Idle /\ D(r)' = D(r)
      BY <1>others, <3>1
    <3> QED  BY <3>1, <3>2, <3>3, <1>self, <2>3 DEF AtWork
  <2>4. CASE r = p
    <3>1. s \notin Refused /\ q # p
      BY <2>2, <2>4
    <3>2. q \notin AtWork(p, Dir(s))
      BY <3>1 DEF Begin, IInv, TypeOK
    <3>3. pc[q] \notin Idle /\ D(q)' = D(q)
      BY <1>others, <3>1
    <3> QED  BY <3>1, <3>2, <3>3, <1>self, <2>4 DEF AtWork
  <2> QED  BY <2>1, <2>3, <2>4
<1>6. Mine'
  <2> SUFFICES ASSUME NEW q \in Processes, alone'[q] PROVE Progress(q)'
    BY DEF Mine
  <2>1. CASE q = p
    BY <2>1, <1>self DEF Progress, AfterToml, AfterSource
  <2>2. CASE q # p
    <3>1. Progress(q)
      BY <2>2, <1>alone DEF IInv, Mine
    <3> QED  BY <2>2, <3>1, <1>idle, <1>others DEF Progress, D
  <2> QED  BY <2>1, <2>2
<1>7. Own'
  BY <1>idle, <1>others, <1>self DEF IInv, Own, From, Idle, TypeOK
<1> QED  BY <1>1, <1>2, <1>3, <1>4, <1>5, <1>6, <1>7 DEF IInv

LEMMA StutterInv == ASSUME IInv, UNCHANGED vars PROVE IInv'
<1>1. UNCHANGED <<toml, lib_rs, library, changed, lock, pc, source, kind, read, loaded, builds, alone>>
  BY DEF vars, files
<1>2. TypeOK' /\ Named' /\ Locked'
  BY <1>1 DEF IInv, TypeOK, Named, Locked, D
<1>3. Recorded' /\ Apart'
  BY <1>1 DEF IInv, Recorded, Apart, D
<1>4. Mine' /\ Own'
  BY <1>1 DEF IInv, Mine, Progress, Own, D
<1> QED  BY <1>2, <1>3, <1>4 DEF IInv

LEMMA StepInv == IInv /\ [Next]_vars => IInv'
<1> SUFFICES ASSUME IInv, [Next]_vars PROVE IInv'
  OBVIOUS
<1>1. ASSUME NEW p \in Processes, Step(p) PROVE IInv'
  BY <1>1, CompareTomlInv, TruncateTomlInv, WriteTomlInv, CompareSourceInv, TruncateSourceInv, WriteSourceInv, ReadManifestInv, CargoFreshInv, CargoBuildsInv, ReadByRustcInv, CargoFailsInv, UnlinkLibraryInv, LinkLibraryInv, LoadInv DEF Step
<1>2. ASSUME NEW p \in Processes, Kill(p) \/ KillBuild(p) PROVE IInv'
  BY <1>2, KillInv, KillBuildInv
<1>3. ASSUME NEW p \in Processes, NEW s \in Sources, NEW k \in Kinds, Begin(p, s, k) PROVE IInv'
  BY <1>3, BeginInv
<1> QED  BY <1>1, <1>2, <1>3, StutterInv DEF Next

LEMMA AlwaysIInv == Spec => []IInv
<1>1. Init /\ [][Next]_vars => []IInv
  BY InitInv, StepInv, PTL
<1> QED  BY <1>1, PTL DEF Spec

-----------------------------------------------------------------------------
(* The build directories keep their shape: the checks of find_native_lib and of the  *)
(* library's symbols are what keeps a truncated or missing library from being loaded.   *)
THEOREM BuildsTyped == Spec => []TypeOK
<1>1. IInv => TypeOK
  BY DEF IInv
<1> QED  BY <1>1, AlwaysIInv, PTL

(* Whoever else builds, is killed or leaves files half written: a process loads the    *)
(* library of its own source, unless another source has the same hash.                  *)
THEOREM LoadsOwn == Spec => []LoadsWhatItAskedFor
<1>1. IInv => LoadsWhatItAskedFor
  <2> SUFFICES ASSUME IInv, NEW p \in Processes, pc[p] = "loaded", Unique(source[p])
               PROVE  loaded[p] = source[p]
    BY DEF LoadsWhatItAskedFor
  <2>1. loaded[p] \in Sources /\ loaded[p] \in From(D(p))
    BY DEF IInv, Own
  <2>2. Key[loaded[p]] = Key[source[p]]
    BY <2>1, BuildAssumption DEF From, D, Dir
  <2> QED  BY <2>1, <2>2 DEF Unique
<1> QED  BY <1>1, AlwaysIInv, PTL

(* A build that shares its directory with nobody gives its own library, and fails only *)
(* for a source that is at fault, whatever its predecessors left in the directory.       *)
THEOREM AloneBuildsSucceed == Spec => []AloneSucceeds
<1>1. IInv => AloneSucceeds
  BY DEF IInv, Mine, Progress, AloneSucceeds
<1> QED  BY <1>1, AlwaysIInv, PTL

=============================================================================
