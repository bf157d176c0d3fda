------------------------------ MODULE OhrsBuild ------------------------------
(***************************************************************************)
(* ohrs build and ohrs cargo in one workspace, over the files that outlive *)
(* an invocation: what cargo has compiled, the type definitions that the   *)
(* #[napi] macro of each crate leaves in the folder of the package being   *)
(* built, the dist directories with their index.d.ts, and the archive of   *)
(* libatomic.  An invocation may be killed, or fail, between any two of    *)
(* its steps; sources change while none runs.                              *)
(***************************************************************************)
EXTENDS Naturals, Sequences

CONSTANTS
    Packages,  \* all members, in workspace order: --skip-napi-check is on
    Uses,      \* per crate: the crates it is built with, directly or not
    NapiCrates,\* the crates with #[napi] items and napi_build::setup
    Archs,     \* the architectures, in the order in which they are built
    Commands,  \* the command lines
    Root,      \* the directory of the workspace
    None

Members == {Packages[i] : i \in DOMAIN Packages}
Crates == DOMAIN Uses
ArchSet == {Archs[i] : i \in DOMAIN Archs}
Dirs == Members \cup {Root}
Closure(c) == {c} \cup Uses[c]

(* What is left in a folder of type definitions, and how a crate was       *)
(* compiled: for which folder, under which name and linked with libatomic. *)
TypeFiles == [current : BOOLEAN, variant : {"debug", "release"}, whole : BOOLEAN]
Results == [folder : Members \cup {None}, name : Members \cup {None},
            atomic : BOOLEAN]

(* tool: ohrs build or ohrs cargo build; dir: where it is run; only: the   *)
(* package of the -p that reaches cargo; variant: the profile and features *)
(* passed on to cargo; atomic: --sta-atomic or --dyn-atomic.               *)
CommandLines ==
    [tool : {"build", "cargo"}, dir : Dirs, only : Members \cup {None},
     archs : (SUBSET ArchSet) \ {{}}, variant : {"debug", "release"},
     atomic : BOOLEAN, skipLibs : BOOLEAN]

ASSUME PackagesAssumption == Packages \in Seq(Members) /\ Packages # <<>>
ASSUME UsesAssumption ==
    /\ Members \subseteq Crates /\ NapiCrates \subseteq Crates
    /\ \A c \in Crates :
          /\ Uses[c] \subseteq Crates \ {c}
          /\ \A d \in Uses[c] : Uses[d] \subseteq Uses[c]
ASSUME OutsideAssumption ==
    /\ Root \notin Members
    /\ None \notin Crates \cup {Root} \cup CommandLines \cup TypeFiles \cup Results
(* ohrs build looks for the package of -p where it is run, and fails       *)
(* without one before it changes anything; ohrs cargo in the directory of  *)
(* a package hands -p on unseen.                                           *)
ASSUME CommandsAssumption ==
    /\ Commands \subseteq CommandLines
    /\ \A c \in Commands :
          c.tool = "build" /\ c.only # None => c.dir \in {Root, c.only}
ASSUME ArchsAssumption == Archs \in Seq(ArchSet) /\ Archs # <<>>

VARIABLES
    pc,         \* what the invocation does next; "done" after one that succeeded
    cmd,        \* its command line
    packages,   \* the packages it has yet to build, the current one first
    archs,      \* the architectures it has yet to come to for that one
    compiling,  \* the crate that cargo compiles, or None
    built,      \* per crate, architecture and variant: how it was compiled
    types,      \* per package and crate: the file of type definitions
    dist,       \* per directory and architecture: the libraries, or "old"
    dts,        \* per directory: index.d.ts, or "old"
    archive,    \* the unpacked libatomic: "none", "partial" or "whole"
    marker,     \* its .unpacked file is there
    fresh       \* <<p, c>>: c was compiled while the invocation built p

vars == <<pc, cmd, packages, archs, compiling, built, types, dist, dts,
          archive, marker, fresh>>
work == <<cmd, packages, archs>>
files == <<built, types, dist, dts, archive, marker>>

Package == packages[1]
Arch == archs[1]
Unit(c) == <<c, Arch, cmd.variant>>
Units == Crates \X ArchSet \X {"debug", "release"}

-----------------------------------------------------------------------------
(* The packages that the directory offers, those that cargo is told to     *)
(* build, and the name under which a package's module will register        *)
(* itself: the target of the package for ohrs cargo in the root, that of   *)
(* the first package offered otherwise, whichever is built.                *)
Offered(c) == IF c.dir = Root THEN Packages ELSE <<c.dir>>
Selected(c) == IF c.only = None THEN Offered(c) ELSE <<c.only>>
TargetName(c, p) ==
    IF c.tool = "cargo" /\ c.dir = Root THEN p ELSE Offered(c)[1]

(* Mutant: all packages share the dist of the directory.                   *)
Dist_OfCommand(c, p) == c.dir

(* Libraries go to the dist of the package, or to that of the workspace    *)
(* when one package is built from there.                                   *)
Dist(c, p) ==
    IF c.dir # Root \/ Len(Selected(c)) = 1 THEN c.dir ELSE p

(* The macro's folder of type definitions: a package's own, and none under *)
(* ohrs cargo.                                                             *)
Folder == IF cmd.tool = "build" THEN Package ELSE None

(* What makes cargo compile a crate again: the flags of the linker, and,   *)
(* of a crate that calls setup, the folder and the name its build.rs       *)
(* watches.                                                                *)
Wanted(c) == [folder |-> IF c \in NapiCrates THEN Folder ELSE None,
              name |-> IF c \in NapiCrates THEN TargetName(cmd, Package)
                                           ELSE None,
              atomic |-> cmd.atomic]

(* The macro has types of the crate to write, and where.                   *)
HasTypes(c) == c \in NapiCrates /\ Folder # None

-----------------------------------------------------------------------------
Init ==
    /\ pc = "idle" /\ cmd = None /\ packages = <<>> /\ archs = <<>>
    /\ compiling = None
    /\ built = [u \in Units |-> None]
    /\ types = [x \in Members \X Crates |-> None]
    /\ dist = [x \in Dirs \X ArchSet |-> "old"]
    /\ dts = [d \in Dirs |-> "old"]
    /\ archive = "none" /\ marker = FALSE
    /\ fresh = {}

Running == pc \notin {"idle", "done"}

(* What an earlier invocation left in a dist directory, if anything, is    *)
(* never read, only replaced.                                              *)
Aged ==
    /\ dist' = [x \in DOMAIN dist |-> "old"]
    /\ dts' = [d \in Dirs |-> "old"]

Begin(c) ==
    /\ ~Running
    /\ cmd' = c
    /\ packages' = Selected(c)
    /\ archs' = Archs
    /\ pc' = "arch"
    /\ fresh' = {}
    /\ Aged
    /\ UNCHANGED <<compiling, built, types, archive, marker>>

(* prepare and the selection of packages; ohrs cargo's own.                *)
BeginBuild(c) == c.tool = "build" /\ Begin(c)
BeginCargo(c) == c.tool = "cargo" /\ Begin(c)

(* Mutant: the marker is written before the archive.                       *)
StartArch_MarksFirst ==
    /\ pc = "arch" /\ Arch \in cmd.archs
    /\ pc' = IF cmd.atomic /\ ~marker THEN "unpack" ELSE "cargo"
    /\ archive' = IF cmd.atomic /\ ~marker THEN "partial" ELSE archive
    /\ marker' = (marker \/ cmd.atomic)
    /\ UNCHANGED <<work, compiling, built, types, dist, dts, fresh>>

(* ensure_unpacked: the marker is written last, and an archive without one *)
(* is unpacked again over what is there.                                   *)
StartArch ==
    /\ pc = "arch" /\ Arch \in cmd.archs
    /\ pc' = IF cmd.atomic /\ ~marker THEN "unpack" ELSE "cargo"
    /\ archive' = IF cmd.atomic /\ ~marker THEN "partial" ELSE archive
    /\ UNCHANGED <<work, compiling, built, types, dist, dts, marker, fresh>>

Unpacked ==
    /\ pc = "unpack"
    /\ pc' = "mark"
    /\ archive' = "whole"
    /\ UNCHANGED <<work, compiling, built, types, dist, dts, marker, fresh>>

MarkUnpacked ==
    /\ pc = "mark"
    /\ pc' = "cargo"
    /\ marker' = TRUE
    /\ UNCHANGED <<work, compiling, built, types, dist, dts, archive, fresh>>

-----------------------------------------------------------------------------
(* cargo compiles a crate again when its source changed, when what its     *)
(* build.rs watches changed, or when a crate that it uses was compiled.    *)
(* From the moment it begins the old result does not count any more.       *)
Dirty(c) == built[Unit(c)] # Wanted(c)

CargoCompiles(c) ==
    /\ pc = "cargo"
    /\ c \in Closure(Package) /\ Dirty(c)
    /\ \A d \in Uses[c] : ~Dirty(d)
    /\ compiling' = c
    /\ built' = [u \in Units |->
                    IF /\ u[2] = Arch /\ u[3] = cmd.variant
                       /\ c \in Closure(u[1])
                    THEN None ELSE built[u]]
    /\ pc' = "compile"
    /\ UNCHANGED <<work, types, dist, dts, archive, marker, fresh>>

(* The first #[napi] that a compiler process expands, if any, removes the  *)
(* crate's file; every one appends its definition.                         *)
ExpandFirst ==
    /\ pc = "compile"
    /\ pc' = "expand"
    /\ types' = IF HasTypes(compiling)
                THEN [types EXCEPT ![<<Folder, compiling>>] =
                          [current |-> TRUE, variant |-> cmd.variant,
                           whole |-> FALSE]]
                ELSE types
    /\ UNCHANGED <<work, compiling, built, dist, dts, archive, marker, fresh>>

ExpandAll ==
    /\ pc = "expand"
    /\ pc' = "cargo"
    /\ types' = IF HasTypes(compiling)
                THEN [types EXCEPT ![<<Folder, compiling>>].whole = TRUE]
                ELSE types
    /\ built' = [built EXCEPT ![Unit(compiling)] = Wanted(compiling)]
    /\ compiling' = None
    /\ fresh' = fresh \cup {<<Package, compiling>>}
    /\ UNCHANGED <<work, dist, dts, archive, marker>>

-----------------------------------------------------------------------------
(* The next architecture of the package, its type definitions, or the next *)
(* package.                                                                *)
NextPackage ==
    /\ packages' = Tail(packages)
    /\ IF Len(packages) = 1
       THEN archs' = <<>> /\ pc' = "done"
       ELSE archs' = Archs /\ pc' = "arch"

NextArch ==
    IF Len(archs) > 1
    THEN archs' = Tail(archs) /\ pc' = "arch" /\ UNCHANGED packages
    ELSE IF cmd.tool = "cargo" THEN NextPackage
    ELSE archs' = <<>> /\ pc' = "types" /\ UNCHANGED packages

(* An architecture that was not asked for is passed over.                  *)
SkipArch ==
    /\ pc = "arch" /\ Arch \notin cmd.archs
    /\ NextArch
    /\ UNCHANGED <<cmd, compiling, files, fresh>>

CargoIsDone == pc = "cargo" /\ \A c \in Closure(Package) : ~Dirty(c)

(* cargo is through: ohrs cargo and --skip-libs copy nothing, ...          *)
CargoRan ==
    /\ CargoIsDone /\ cmd.tool = "cargo"
    /\ NextArch
    /\ UNCHANGED <<cmd, compiling, files, fresh>>

LibsSkipped ==
    /\ CargoIsDone /\ cmd.tool = "build" /\ cmd.skipLibs
    /\ NextArch
    /\ UNCHANGED <<cmd, compiling, files, fresh>>

(* ... others empty the directory of the architecture, once the libraries  *)
(* needed at run time are found.                                           *)
CleanDist ==
    /\ CargoIsDone /\ cmd.tool = "build" /\ ~cmd.skipLibs
    /\ dist' = [dist EXCEPT ![<<Dist(cmd, Package), Arch>>] = "partial"]
    /\ pc' = "copy"
    /\ UNCHANGED <<work, compiling, built, types, dts, archive, marker, fresh>>

CopyLibs ==
    /\ pc = "copy"
    /\ dist' = [dist EXCEPT ![<<Dist(cmd, Package), Arch>>] =
                    [package |-> Package, variant |-> cmd.variant,
                     unit |-> built[Unit(Package)],
                     atomic |-> IF cmd.atomic THEN archive ELSE "none"]]
    /\ NextArch
    /\ UNCHANGED <<cmd, compiling, built, types, dts, archive, marker, fresh>>

(* generate_d_ts_file removes index.d.ts and writes it anew from all the   *)
(* files in the package's folder.                                          *)
StartTypes ==
    /\ pc = "types"
    /\ pc' = "write"
    /\ dts' = [dts EXCEPT ![Dist(cmd, Package)] = "partial"]
    /\ UNCHANGED <<work, compiling, built, types, dist, archive, marker, fresh>>

WriteTypes ==
    /\ pc = "write"
    /\ dts' = [dts EXCEPT ![Dist(cmd, Package)] =
                   [c \in Crates |-> types[<<Package, c>>]]]
    /\ NextPackage
    /\ UNCHANGED <<cmd, compiling, built, types, dist, archive, marker, fresh>>

(* A command ends before its time: killed, left by exit() when cargo       *)
(* fails, or with an error, wherever it is.                                *)
Stop ==
    /\ Running
    /\ pc' = "idle"
    /\ cmd' = None /\ packages' = <<>> /\ archs' = <<>> /\ compiling' = None
    /\ fresh' = {}
    /\ Aged
    /\ UNCHANGED <<built, types, archive, marker>>

(* The source of a crate changes.                                          *)
Edit(c) ==
    /\ ~Running
    /\ pc' = "idle"
    /\ built' = [u \in Units |->
                    IF c \in Closure(u[1]) THEN None ELSE built[u]]
    /\ types' = [x \in DOMAIN types |->
                    IF x[2] = c /\ types[x] # None
                    THEN [types[x] EXCEPT !.current = FALSE] ELSE types[x]]
    /\ cmd' = None /\ fresh' = {}
    /\ Aged
    /\ UNCHANGED <<packages, archs, compiling, archive, marker>>

Next ==
    \/ \E c \in Commands : BeginBuild(c) \/ BeginCargo(c)
    \/ SkipArch \/ StartArch \/ Unpacked \/ MarkUnpacked
    \/ \E c \in Crates : CargoCompiles(c) \/ Edit(c)
    \/ ExpandFirst \/ ExpandAll
    \/ CargoRan \/ LibsSkipped \/ CleanDist \/ CopyLibs
    \/ StartTypes \/ WriteTypes
    \/ Stop

Spec == Init /\ [][Next]_vars

-----------------------------------------------------------------------------
(* The types of the variables, and two facts that every later invocation   *)
(* relies on, wherever an earlier one was stopped: under its marker the    *)
(* archive is whole, and what cargo takes for up to date has left current  *)
(* types in the folder it was compiled for.                                *)
TypeOK ==
    /\ pc \in {"idle", "arch", "unpack", "mark", "cargo", "compile", "expand",
               "copy", "types", "write", "done"}
    /\ cmd \in Commands \cup {None}
    /\ packages \in Seq(Members) /\ archs \in Seq(ArchSet)
    /\ compiling \in Crates \cup {None}
    /\ built \in [Units -> Results \cup {None}]
    /\ types \in [Members \X Crates -> TypeFiles \cup {None}]
    /\ archive \in {"none", "partial", "whole"}
    /\ fresh \subseteq Members \X Crates
    /\ marker => archive = "whole"
    /\ \A u \in Units : built[u] # None /\ built[u].folder # None =>
          /\ types[<<built[u].folder, u[1]>>] # None
          /\ types[<<built[u].folder, u[1]>>].current

Succeeded == pc = "done" /\ cmd.tool = "build"

(* A package of ohrs build, compiled for its own folder and name.          *)
UnitAsked(p) ==
    IF p \in NapiCrates
    THEN [folder |-> p, name |-> TargetName(cmd, p), atomic |-> cmd.atomic]
    ELSE [folder |-> None, name |-> None, atomic |-> cmd.atomic]

(* After a build that succeeded every package it built has, in a directory *)
(* that no other one shares, the libraries of that package compiled from   *)
(* the current sources for every architecture asked for, as the command    *)
(* line wants them, whatever was stopped or built otherwise before, for    *)
(* the package itself or as a part of another one.                         *)
LibsAsAsked ==
    Succeeded /\ ~cmd.skipLibs =>
        \A i \in DOMAIN Selected(cmd), a \in cmd.archs :
            LET p == Selected(cmd)[i]
            IN dist[<<Dist(cmd, p), a>>] =
                   [package |-> p, variant |-> cmd.variant,
                    unit |-> UnitAsked(p),
                    atomic |-> IF cmd.atomic THEN "whole" ELSE "none"]

(* After a build that succeeded the index.d.ts of every package it built   *)
(* has types of every #[napi] crate in it, none older than the sources     *)
(* although cargo compiled only what changed; those of a crate compiled    *)
(* this time are all there, and of the variant asked for.                  *)
TypesAreCurrent ==
    Succeeded =>
        \A i \in DOMAIN Selected(cmd) :
            LET p == Selected(cmd)[i]
            IN \A c \in Closure(p) \cap NapiCrates :
                   LET t == dts[Dist(cmd, p)][c]
                   IN /\ t # None /\ t.current
                      /\ <<p, c>> \in fresh =>
                             t.whole /\ t.variant = cmd.variant

(* What a build that succeeded leaves is what its command line asked for.  *)
BuildIsAsAsked == LibsAsAsked /\ TypesAreCurrent

=============================================================================
