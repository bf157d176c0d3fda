-------------------------- MODULE OhrsBuild_proof --------------------------
(***************************************************************************)
(* Proofs about OhrsBuild, RuntimeLibraries and CrateExports, for any      *)
(* workspace, command lines and architectures, any graph of libraries and  *)
(* any crate: that a build that succeeded left what was asked for, that    *)
(* the libraries it takes are the closure of what its artifacts need, and  *)
(* that index.d.ts declares what the module exports.                       *)
(***************************************************************************)
EXTENDS OhrsBuild, RuntimeLibraries, CrateExports, SequenceTheorems, TLAPS

-----------------------------------------------------------------------------
(* The inductive invariant of builds                                       *)

(* The files in the dist directories.                                      *)
FilesInv ==
    /\ dist = [x \in Dirs \X ArchSet |-> dist[x]]
    /\ dts = [d \in Dirs |-> dts[d]]

(* Where an invocation is.                                                 *)
PlaceInv ==
    /\ Running =>
          /\ cmd \in Commands
          /\ packages # <<>> /\ Range(packages) \subseteq Range(Selected(cmd))
          /\ IF pc \in {"types", "write"}
             THEN cmd.tool = "build" /\ archs = <<>>
             ELSE archs # <<>>
    /\ pc = "done" => cmd \in Commands /\ packages = <<>>
    /\ pc \in {"compile", "expand"} => compiling \in Closure(Package)
    /\ pc = "copy" =>
          /\ cmd.tool = "build" /\ ~cmd.skipLibs
          /\ \A c \in Closure(Package) : ~Dirty(c)

(* The archive that a crate is linked with is marked as whole.             *)
ArchiveInv ==
    /\ pc = "mark" => archive = "whole"
    /\ pc \in {"cargo", "compile", "expand", "copy"} /\ cmd.atomic => marker

(* What the compilations of this invocation left in the folders of types.  *)
FreshInv ==
    Running /\ cmd.tool = "build" =>
       /\ \A f \in fresh :
             /\ f[2] \in NapiCrates
             /\ ~(pc = "expand" /\ f = <<Package, compiling>>)
             =>
                /\ types[f] # None
                /\ types[f].whole /\ types[f].variant = cmd.variant
       /\ pc = "expand" /\ compiling \in NapiCrates =>
             /\ types[<<Package, compiling>>] # None
             /\ types[<<Package, compiling>>].current
             /\ types[<<Package, compiling>>].variant = cmd.variant

(* The types that the next index.d.ts of a package is made of are there.   *)
TypesReady(p) ==
    \A c \in Closure(p) \cap NapiCrates :
        types[<<p, c>>] # None /\ types[<<p, c>>].current

LibsRight(p, a) ==
    dist[<<Dist(cmd, p), a>>] =
        [package |-> p, variant |-> cmd.variant,
         unit |-> UnitAsked(p),
         atomic |-> IF cmd.atomic THEN "whole" ELSE "none"]

TypesRight(p) ==
    \A c \in Closure(p) \cap NapiCrates :
        LET t == dts[Dist(cmd, p)][c]
        IN /\ t # None /\ t.current
           /\ <<p, c>> \in fresh => t.whole /\ t.variant = cmd.variant

(* An architecture that was asked for and is not left, and a package that  *)
(* was selected and is not left, have what they should have.               *)
ArchsInv ==
    Running /\ cmd.tool = "build" =>
        \A a \in cmd.archs \ Range(archs) :
            TypesReady(Package) /\ (~cmd.skipLibs => LibsRight(Package, a))

PackagesInv ==
    pc # "idle" /\ cmd.tool = "build" =>
        \A p \in Range(Selected(cmd)) \ Range(packages) :
            /\ ~cmd.skipLibs => \A a \in cmd.archs : LibsRight(p, a)
            /\ TypesRight(p)

IndInv ==
    /\ TypeOK /\ FilesInv /\ PlaceInv /\ ArchiveInv
    /\ FreshInv /\ ArchsInv /\ PackagesInv

-----------------------------------------------------------------------------
(* Facts about the operators                                               *)

(* The elements of a sequence are its first and those of the rest.         *)
LEMMA FirstAndRest ==
  ASSUME NEW S, NEW s \in Seq(S), s # <<>>
  PROVE  /\ Tail(s) \in Seq(S) /\ s[1] \in S /\ s[1] \in Range(s)
         /\ Range(s) = Range(Tail(s)) \cup {s[1]}
         /\ (Len(s) = 1 \/ Len(s) > 1)
         /\ (Len(s) = 1 => Tail(s) = <<>>)
         /\ (Len(s) > 1 => Tail(s) # <<>>)
<1>1. /\ Tail(s) \in Seq(S) /\ Len(Tail(s)) = Len(s) - 1 /\ Len(s) \in Nat
      /\ \A i \in 1..Len(Tail(s)) : Tail(s)[i] = s[i + 1]
      /\ Head(s) = s[1] /\ Len(s) > 0 /\ Head(s) \in S
  BY HeadTailProperties
<1>2. /\ Range(Tail(s)) = {Tail(s)[i] : i \in 1..Len(Tail(s))}
      /\ Range(s) = {s[i] : i \in 1..Len(s)}
  BY <1>1, RangeEquality
<1>3. \A i \in 1..Len(s) : i = 1 \/ (i - 1 \in 1..Len(Tail(s))
                                     /\ Tail(s)[i - 1] = s[i])
  BY <1>1
<1>4. ASSUME NEW i \in 1..Len(s) PROVE s[i] \in Range(Tail(s)) \cup {s[1]}
  <2>1. CASE i = 1
    BY <2>1
  <2>2. CASE i - 1 \in 1..Len(Tail(s)) /\ Tail(s)[i - 1] = s[i]
    <3>1. Tail(s)[i - 1] \in {Tail(s)[j] : j \in 1..Len(Tail(s))}
      BY <2>2
    <3> QED
      BY <1>2, <2>2, <3>1
  <2> QED
    BY <1>3, <2>1, <2>2
<1>5. ASSUME NEW i \in 1..Len(Tail(s)) PROVE Tail(s)[i] \in Range(s)
  <2>1. i + 1 \in 1..Len(s) /\ Tail(s)[i] = s[i + 1]
    BY <1>1
  <2> QED
    BY <1>2, <2>1
<1>6. s[1] \in Range(s)
  <2>1. 1 \in 1..Len(s)
    BY <1>1
  <2> QED
    BY <1>2, <2>1
<1>7. Range(s) = Range(Tail(s)) \cup {s[1]}
  BY <1>2, <1>4, <1>5, <1>6
<1>8. Tail(s) = <<>> <=> Len(Tail(s)) = 0
  BY <1>1, EmptySeq
<1> QED
  BY <1>1, <1>6, <1>7, <1>8

(* What a command line selects is of the workspace; two packages that are  *)
(* built by one command never share a dist directory.                      *)
LEMMA SelectedApart ==
  ASSUME NEW c \in Commands
  PROVE  /\ Selected(c) \in Seq(Members) /\ Selected(c) # <<>>
         /\ \A p \in Range(Selected(c)) : p \in Members /\ Dist(c, p) \in Dirs
         /\ \A p, q \in Range(Selected(c)) :
               Dist(c, p) = Dist(c, q) => p = q
         /\ \A p : TargetName(c, p) \in Members \cup {p}
<1>1. /\ c \in CommandLines /\ c.dir \in Members \cup {Root}
      /\ c.only \in Members \cup {None} /\ c.tool \in {"build", "cargo"}
  BY CommandsAssumption DEF CommandLines, Dirs
<1>2. Packages \in Seq(Members) /\ Packages # <<>>
  BY PackagesAssumption
<1>3. ASSUME NEW m \in Members
      PROVE  <<m>> \in Seq(Members) /\ <<m>> # <<>> /\ Range(<<m>>) = {m}
             /\ Len(<<m>>) = 1 /\ <<m>>[1] = m
  <2>1. <<m>> \in Seq(Members) /\ Len(<<m>>) = 1 /\ <<m>>[1] = m
    OBVIOUS
  <2>2. Range(<<m>>) = {<<m>>[i] : i \in 1..1}
    BY <2>1, RangeEquality
  <2> QED
    BY <2>1, <2>2
<1>4. Offered(c) \in Seq(Members) /\ Offered(c) # <<>>
  BY <1>1, <1>2, <1>3 DEF Offered
<1>5. Selected(c) \in Seq(Members) /\ Selected(c) # <<>>
  BY <1>1, <1>3, <1>4 DEF Selected
<1>6. Range(Selected(c)) \subseteq Members
  BY <1>5, RangeOfSeq
<1>7. \A p \in Range(Selected(c)) : p \in Members /\ Dist(c, p) \in Dirs
  BY <1>1, <1>6 DEF Dist, Dirs
<1>8. ASSUME NEW p \in Range(Selected(c)), NEW q \in Range(Selected(c)),
             Dist(c, p) = Dist(c, q)
      PROVE  p = q
  <2>1. CASE c.dir # Root
    <3>1. PICK m \in Members : Selected(c) = <<m>>
      BY <1>1, <2>1 DEF Selected, Offered
    <3>2. Range(Selected(c)) = {m}
      BY <1>3, <3>1
    <3> QED
      BY <3>2
  <2>2. CASE Len(Selected(c)) = 1
    <3>1. Range(Selected(c)) = {Selected(c)[i] : i \in 1..1}
      BY <1>5, <2>2, RangeEquality
    <3> QED
      BY <3>1
  <2>3. CASE c.dir = Root /\ Len(Selected(c)) # 1
    BY <1>8, <2>3 DEF Dist
  <2> QED
    BY <2>1, <2>2, <2>3
<1>9. Offered(c)[1] \in Members
  BY <1>4, FirstAndRest
<1> QED
  BY <1>5, <1>7, <1>8, <1>9 DEF TargetName

(* None is no crate and no command line, and not how a crate is compiled.  *)
LEMMA NoneIsApart ==
  /\ None \notin Members /\ None \notin Crates /\ None \notin Commands
  /\ None \notin TypeFiles /\ None \notin Results
BY OutsideAssumption, UsesAssumption, CommandsAssumption

-----------------------------------------------------------------------------
(* The steps keep the invariant                                            *)

(* Before the first invocation it holds.                                  *)
LEMMA InitIndInv == Init => IndInv
<1> SUFFICES ASSUME Init PROVE IndInv
  OBVIOUS
<1>1. TypeOK
  BY NoneIsApart, EmptySeq DEF Init, TypeOK, Units
<1>2. FilesInv
  BY DEF Init, FilesInv
<1> QED
  BY <1>1, <1>2 DEF Init, IndInv, PlaceInv, ArchiveInv, FreshInv, ArchsInv,
                    PackagesInv, Running

(* Where a running invocation is: its package, and the architecture.       *)
LEMMA Here ==
  ASSUME IndInv, Running
  PROVE  /\ cmd \in Commands /\ cmd \in CommandLines /\ cmd # None
         /\ Package \in Members /\ Package \in Range(packages)
         /\ Package \in Range(Selected(cmd)) /\ packages # <<>>
         /\ packages \in Seq(Members)
         /\ Dist(cmd, Package) \in Dirs
         /\ \A p \in Range(Selected(cmd)) \ Range(packages) :
               /\ p \in Members /\ p # Package
               /\ Dist(cmd, p) \in Dirs \ {Dist(cmd, Package)}
         /\ (cmd.tool = "build" => Folder = Package /\ Folder # None)
         /\ (cmd.tool # "build" => cmd.tool = "cargo" /\ Folder = None)
         /\ Closure(Package) \subseteq Crates
         /\ (pc \notin {"types", "write"} =>
                /\ archs \in Seq(ArchSet) /\ archs # <<>>
                /\ Arch \in ArchSet /\ Arch \in Range(archs)
                /\ \A c \in Crates : Unit(c) \in Units)
         /\ \A c : Wanted(c) \in Results
<1>1. /\ cmd \in Commands /\ packages # <<>> /\ packages \in Seq(Members)
      /\ Range(packages) \subseteq Range(Selected(cmd))
      /\ archs \in Seq(ArchSet)
      /\ pc \notin {"types", "write"} => archs # <<>>
  BY DEF IndInv, PlaceInv, TypeOK
<1>2. /\ cmd \in CommandLines /\ cmd # None
      /\ cmd.tool \in {"build", "cargo"}
      /\ cmd.variant \in {"debug", "release"}
      /\ cmd.atomic \in BOOLEAN
  BY <1>1, CommandsAssumption, NoneIsApart DEF CommandLines
<1>3. Package \in Members /\ Package \in Range(packages)
  BY <1>1, FirstAndRest DEF Package
<1>4. Package \in Range(Selected(cmd))
  BY <1>1, <1>3
<1>5. /\ Dist(cmd, Package) \in Dirs
      /\ \A p \in Range(Selected(cmd)) : p \in Members /\ Dist(cmd, p) \in Dirs
      /\ \A p \in Range(Selected(cmd)) :
            Dist(cmd, p) = Dist(cmd, Package) => p = Package
      /\ TargetName(cmd, Package) \in Members
  BY <1>1, <1>3, <1>4, SelectedApart
<1>6. \A p \in Range(Selected(cmd)) \ Range(packages) :
         /\ p \in Members /\ p # Package
         /\ Dist(cmd, p) \in Dirs \ {Dist(cmd, Package)}
  BY <1>3, <1>5
<1>7. /\ cmd.tool = "build" => Folder = Package /\ Folder # None
      /\ cmd.tool # "build" => cmd.tool = "cargo" /\ Folder = None
      /\ Folder \in Members \cup {None}
  BY <1>2, <1>3, NoneIsApart DEF Folder
<1>8. Closure(Package) \subseteq Crates
  BY <1>3, UsesAssumption DEF Closure
<1>9. \A c : Wanted(c) \in Results
  BY <1>2, <1>5, <1>7 DEF Wanted, Results
<1>10. ASSUME pc \notin {"types", "write"}
       PROVE  /\ archs # <<>> /\ Arch \in ArchSet /\ Arch \in Range(archs)
              /\ \A c \in Crates : Unit(c) \in Units
  <2>1. archs # <<>> /\ Arch \in ArchSet /\ Arch \in Range(archs)
    BY <1>1, <1>10, FirstAndRest DEF Arch
  <2> QED
    BY <1>2, <2>1 DEF Unit, Units
<1> QED
  BY <1>1, <1>2, <1>3, <1>4, <1>5, <1>6, <1>7, <1>8, <1>9, <1>10

(* The packages that were built keep what they have when a step touches    *)
(* only the current one.                                                   *)
LEMMA PackagesKept ==
  ASSUME IndInv, Running, cmd' = cmd,
         \A p \in Range(Selected(cmd)) \ Range(packages') :
            p \notin Range(packages),
         \A p \in Members \ {Package}, c \in Crates :
            <<p, c>> \in fresh' => <<p, c>> \in fresh,
         \A d \in Dirs \ {Dist(cmd, Package)} :
            /\ dts'[d] = dts[d]
            /\ \A a \in ArchSet : dist'[<<d, a>>] = dist[<<d, a>>]
  PROVE  PackagesInv'
<1> SUFFICES ASSUME pc' # "idle", cmd.tool = "build",
                    NEW p \in Range(Selected(cmd)) \ Range(packages')
             PROVE  /\ (~cmd.skipLibs => \A a \in cmd.archs : LibsRight(p, a)')
                    /\ TypesRight(p)'
  BY DEF PackagesInv
<1>1. /\ p \in Range(Selected(cmd)) \ Range(packages) /\ p \in Members
      /\ p # Package /\ Dist(cmd, p) \in Dirs \ {Dist(cmd, Package)}
      /\ cmd \in CommandLines
  BY Here
<1>2. /\ (~cmd.skipLibs => \A a \in cmd.archs : LibsRight(p, a))
      /\ TypesRight(p)
  BY <1>1 DEF IndInv, PackagesInv, Running
<1>3. /\ dts'[Dist(cmd, p)] = dts[Dist(cmd, p)]
      /\ \A a \in ArchSet :
            dist'[<<Dist(cmd, p), a>>] = dist[<<Dist(cmd, p), a>>]
  BY <1>1
<1>4. cmd.archs \subseteq ArchSet
  BY <1>1 DEF CommandLines
<1>5. ASSUME ~cmd.skipLibs, NEW a \in cmd.archs PROVE LibsRight(p, a)'
  BY <1>2, <1>3, <1>4, <1>5 DEF LibsRight, UnitAsked
<1>6. \A c \in Closure(p) : <<p, c>> \in fresh' => <<p, c>> \in fresh
  BY <1>1, UsesAssumption DEF Closure
<1>7. TypesRight(p)'
  BY <1>2, <1>3, <1>6 DEF TypesRight
<1> QED
  BY <1>5, <1>7

(* So do the architectures of the current package.                         *)
LEMMA ArchsKept ==
  ASSUME IndInv, Running, cmd' = cmd, packages' = packages,
         archs' = archs,
         \A a \in cmd.archs \ Range(archs) :
            dist'[<<Dist(cmd, Package), a>>] = dist[<<Dist(cmd, Package), a>>],
         TypesReady(Package) => TypesReady(Package)'
  PROVE  ArchsInv'
<1> SUFFICES ASSUME cmd.tool = "build", NEW a \in cmd.archs \ Range(archs)
             PROVE  /\ TypesReady(Package)'
                    /\ (~cmd.skipLibs => LibsRight(Package, a)')
  BY DEF ArchsInv
<1>1. TypesReady(Package) /\ (~cmd.skipLibs => LibsRight(Package, a))
  BY DEF IndInv, ArchsInv
<1>2. Package' = Package
  BY DEF Package
<1> QED
  BY <1>1, <1>2 DEF LibsRight, UnitAsked

(* ensure_unpacked: nothing but the archive and its marker.                *)
LEMMA UnpackKeeps ==
  ASSUME IndInv, StartArch \/ Unpacked \/ MarkUnpacked
  PROVE  IndInv'
<1>1. /\ pc \in {"arch", "unpack", "mark"}
      /\ pc' \in {"unpack", "mark", "cargo"}
      /\ cmd' = cmd /\ packages' = packages /\ archs' = archs
      /\ compiling' = compiling /\ built' = built /\ types' = types
      /\ dist' = dist /\ dts' = dts /\ fresh' = fresh
      /\ Running /\ Running'
  BY DEF StartArch, Unpacked, MarkUnpacked, work, Running
<1>2. /\ archive' \in {"none", "partial", "whole"}
      /\ marker' => archive' = "whole"
      /\ ArchiveInv'
  <2>1. /\ archive \in {"none", "partial", "whole"}
        /\ marker => archive = "whole"
        /\ pc = "mark" => archive = "whole"
    BY DEF IndInv, TypeOK, ArchiveInv
  <2>2. CASE StartArch
    BY <1>1, <2>1, <2>2 DEF StartArch, ArchiveInv
  <2>3. CASE Unpacked
    BY <1>1, <2>1, <2>3 DEF Unpacked, ArchiveInv
  <2>4. CASE MarkUnpacked
    BY <1>1, <2>1, <2>4 DEF MarkUnpacked, ArchiveInv
  <2> QED
    BY <2>2, <2>3, <2>4
<1>3. TypeOK'
  BY <1>1, <1>2 DEF IndInv, TypeOK
<1>4. FilesInv' /\ PlaceInv' /\ FreshInv'
  BY <1>1, Here DEF IndInv, FilesInv, PlaceInv, FreshInv, Package
<1>5. ArchsInv'
  BY <1>1, ArchsKept DEF TypesReady, Package
<1>6. PackagesInv'
  BY <1>1, PackagesKept
<1> QED
  BY <1>2, <1>3, <1>4, <1>5, <1>6 DEF IndInv

(* cargo begins to compile a crate.                                        *)
LEMMA CompilesKeeps ==
  ASSUME IndInv, NEW c \in Crates, CargoCompiles(c)
  PROVE  IndInv'
<1>1. /\ pc = "cargo" /\ pc' = "compile"
      /\ cmd' = cmd /\ packages' = packages /\ archs' = archs
      /\ compiling' = c /\ c \in Closure(Package) /\ types' = types
      /\ dist' = dist /\ dts' = dts /\ fresh' = fresh
      /\ archive' = archive /\ marker' = marker
      /\ Running /\ Running'
  BY DEF CargoCompiles, work, Running
<1>2. /\ built' \in [Units -> Results \cup {None}]
      /\ \A u \in Units : built'[u] \in {None, built[u]}
  BY DEF CargoCompiles, IndInv, TypeOK
<1>3. TypeOK'
  BY <1>1, <1>2 DEF IndInv, TypeOK
<1>4. FilesInv' /\ PlaceInv' /\ FreshInv' /\ ArchiveInv'
  BY <1>1, Here DEF IndInv, FilesInv, PlaceInv, FreshInv, ArchiveInv, Package
<1>5. ArchsInv'
  BY <1>1, ArchsKept DEF TypesReady, Package
<1>6. PackagesInv'
  BY <1>1, PackagesKept
<1> QED
  BY <1>3, <1>4, <1>5, <1>6 DEF IndInv

(* The macro removes the crate's file of types and begins a new one.       *)
LEMMA FirstKeeps ==
  ASSUME IndInv, ExpandFirst
  PROVE  IndInv'
<1>1. /\ pc = "compile" /\ pc' = "expand"
      /\ cmd' = cmd /\ packages' = packages /\ archs' = archs
      /\ compiling' = compiling /\ built' = built
      /\ dist' = dist /\ dts' = dts /\ fresh' = fresh
      /\ archive' = archive /\ marker' = marker
      /\ Running /\ Running'
  BY DEF ExpandFirst, work, Running
<1> DEFINE new == [current |-> TRUE, variant |-> cmd.variant, whole |-> FALSE]
           at == <<Package, compiling>>
<1>2. /\ compiling \in Closure(Package) /\ compiling \in Crates
      /\ Package \in Members /\ cmd.variant \in {"debug", "release"}
  BY <1>1, Here DEF IndInv, PlaceInv, CommandLines
<1>3. /\ new \in TypeFiles /\ new # None /\ new.current
      /\ new.variant = cmd.variant
  <2>1. new \in TypeFiles /\ new.current /\ new.variant = cmd.variant
    BY <1>2 DEF TypeFiles
  <2> QED
    BY <2>1, NoneIsApart
<1>4. /\ ~HasTypes(compiling) => types' = types
      /\ HasTypes(compiling) => types' = [types EXCEPT ![at] = new]
  BY <1>1, Here DEF ExpandFirst, HasTypes
<1>5. /\ types \in [Members \X Crates -> TypeFiles \cup {None}]
      /\ at \in Members \X Crates
  BY <1>2 DEF IndInv, TypeOK
<1>6. /\ types' \in [Members \X Crates -> TypeFiles \cup {None}]
      /\ \A x \in Members \X Crates : types'[x] = types[x] \/ types'[x] = new
      /\ HasTypes(compiling) =>
            /\ types'[at] = new
            /\ \A x \in Members \X Crates : x # at => types'[x] = types[x]
  BY <1>3, <1>4, <1>5
<1> HIDE DEF new, at
<1>7. TypeOK'
  <2>1. ASSUME NEW u \in Units, built[u] # None, built[u].folder # None
        PROVE  /\ types'[<<built[u].folder, u[1]>>] # None
               /\ types'[<<built[u].folder, u[1]>>].current
    <3>1. <<built[u].folder, u[1]>> \in Members \X Crates
      BY <2>1 DEF IndInv, TypeOK, Results, Units
    <3>2. /\ types[<<built[u].folder, u[1]>>] # None
          /\ types[<<built[u].folder, u[1]>>].current
      BY <2>1 DEF IndInv, TypeOK
    <3> QED
      BY <1>3, <1>6, <3>1, <3>2
  <2> QED
    BY <1>1, <1>6, <2>1 DEF IndInv, TypeOK
<1>8. FilesInv' /\ PlaceInv' /\ ArchiveInv'
  BY <1>1, Here DEF IndInv, FilesInv, PlaceInv, ArchiveInv, Package
<1>9. FreshInv'
  <2>1. fresh \subseteq Members \X Crates
    BY DEF IndInv, TypeOK
  <2>2. at' = at /\ at = <<Package, compiling>>
    BY <1>1 DEF at, Package
  <2>3. cmd.tool = "build" /\ compiling \in NapiCrates => HasTypes(compiling)
    BY <1>1, Here DEF HasTypes
  <2>4. ASSUME cmd.tool = "build", NEW f \in fresh, f[2] \in NapiCrates, f # at
        PROVE  /\ types'[f] # None
               /\ types'[f].whole /\ types'[f].variant = cmd.variant
    <3>1. /\ types[f] # None
          /\ types[f].whole /\ types[f].variant = cmd.variant
      BY <1>1, <2>4 DEF IndInv, FreshInv
    <3>2. types'[f] = types[f]
      BY <1>4, <1>5, <2>1, <2>4
    <3> QED
      BY <3>1, <3>2
  <2> QED
    BY <1>1, <1>3, <1>6, <2>2, <2>3, <2>4 DEF FreshInv, Package
<1>10. ArchsInv'
  <2>1. TypesReady(Package) => TypesReady(Package)'
    <3>1. \A c \in Closure(Package) : <<Package, c>> \in Members \X Crates
      BY <1>1, <1>2, Here
    <3> QED
      BY <1>1, <1>3, <1>6, <3>1 DEF TypesReady, Package
  <2> QED
    BY <1>1, <2>1, ArchsKept
<1>11. PackagesInv'
  BY <1>1, PackagesKept
<1> QED
  BY <1>7, <1>8, <1>9, <1>10, <1>11 DEF IndInv

(* ... and has all of it, when the crate is compiled.                      *)
LEMMA AllKeeps ==
  ASSUME IndInv, ExpandAll
  PROVE  IndInv'
<1>1. /\ pc = "expand" /\ pc' = "cargo"
      /\ cmd' = cmd /\ packages' = packages /\ archs' = archs
      /\ compiling' = None /\ fresh' = fresh \cup {<<Package, compiling>>}
      /\ built' = [built EXCEPT ![Unit(compiling)] = Wanted(compiling)]
      /\ dist' = dist /\ dts' = dts
      /\ archive' = archive /\ marker' = marker
      /\ Running /\ Running'
  BY DEF ExpandAll, work, Running
<1> DEFINE at == <<Package, compiling>>
<1>2. /\ compiling \in Closure(Package) /\ compiling \in Crates
      /\ Package \in Members
  BY <1>1, Here DEF IndInv, PlaceInv
<1>3. /\ types \in [Members \X Crates -> TypeFiles \cup {None}]
      /\ at \in Members \X Crates
      /\ fresh \subseteq Members \X Crates
  BY <1>2 DEF IndInv, TypeOK
<1>4. HasTypes(compiling) => /\ types[at] \in TypeFiles /\ types[at] # None
                             /\ types[at].current
                             /\ types[at].variant = cmd.variant
  BY <1>1, <1>3, Here DEF IndInv, FreshInv, HasTypes
<1>5. /\ ~HasTypes(compiling) => types' = types
      /\ HasTypes(compiling) => types' = [types EXCEPT ![at].whole = TRUE]
  BY <1>1, Here DEF ExpandAll, HasTypes
<1>6. /\ HasTypes(compiling) =>
            /\ types'[at] \in TypeFiles /\ types'[at] # None
            /\ types'[at].current /\ types'[at].whole
            /\ types'[at].variant = cmd.variant
      /\ \A x \in Members \X Crates : x # at => types'[x] = types[x]
      /\ types' \in [Members \X Crates -> TypeFiles \cup {None}]
  <2>1. CASE ~HasTypes(compiling)
    BY <1>3, <1>5, <2>1
  <2>2. CASE HasTypes(compiling)
    <3> DEFINE new == [types[at] EXCEPT !.whole = TRUE]
    <3>1. /\ new \in TypeFiles /\ new.current /\ new.whole
          /\ new.variant = cmd.variant
      BY <1>4, <2>2 DEF TypeFiles
    <3>2. new # None
      BY <3>1, NoneIsApart
    <3>3. types' = [types EXCEPT ![at] = new]
      BY <1>5, <2>2
    <3> HIDE DEF new, at
    <3> QED
      BY <1>3, <3>1, <3>2, <3>3
  <2> QED
    BY <2>1, <2>2
<1>7. \A x \in Members \X Crates :
         types[x] # None /\ types[x].current =>
            types'[x] # None /\ types'[x].current
  BY <1>5, <1>6
<1>8. Wanted(compiling) \in Results /\ Unit(compiling) \in Units
  BY <1>1, <1>2, Here
<1>9. /\ built' \in [Units -> Results \cup {None}]
      /\ \A u \in Units : u # Unit(compiling) => built'[u] = built[u]
      /\ built'[Unit(compiling)] = Wanted(compiling)
  BY <1>1, <1>8 DEF IndInv, TypeOK
<1>10. TypeOK'
  <2>1. ASSUME NEW u \in Units, built'[u] # None, built'[u].folder # None
        PROVE  /\ types'[<<built'[u].folder, u[1]>>] # None
               /\ types'[<<built'[u].folder, u[1]>>].current
    <3>1. CASE u # Unit(compiling)
      <4>1. built'[u] = built[u]
        BY <1>9, <3>1
      <4>2. <<built[u].folder, u[1]>> \in Members \X Crates
        BY <2>1, <4>1 DEF IndInv, TypeOK, Results, Units
      <4>3. /\ types[<<built[u].folder, u[1]>>] # None
            /\ types[<<built[u].folder, u[1]>>].current
        BY <2>1, <4>1 DEF IndInv, TypeOK
      <4> QED
        BY <1>7, <4>1, <4>2, <4>3
    <3>2. CASE u = Unit(compiling)
      <4>1. /\ u[1] = compiling /\ built'[u].folder = Folder
            /\ HasTypes(compiling)
        BY <1>9, <2>1, <3>2 DEF Unit, Wanted, HasTypes
      <4>2. Folder = Package
        BY <1>1, <4>1, Here DEF HasTypes
      <4> QED
        BY <1>6, <4>1, <4>2
    <3> QED
      BY <3>1, <3>2
  <2>2. fresh' \subseteq Members \X Crates
    BY <1>1, <1>3
  <2> QED
    BY <1>1, <1>6, <1>9, <2>1, <2>2 DEF IndInv, TypeOK
<1>11. FilesInv' /\ PlaceInv' /\ ArchiveInv'
  BY <1>1, Here DEF IndInv, FilesInv, PlaceInv, ArchiveInv
<1>12. FreshInv'
  <2> SUFFICES ASSUME cmd.tool = "build", NEW f \in fresh',
                      f[2] \in NapiCrates
               PROVE  /\ types'[f] # None /\ types'[f].whole
                      /\ types'[f].variant = cmd.variant
    BY <1>1 DEF FreshInv
  <2>1. CASE f = at
    <3>1. HasTypes(compiling)
      BY <1>1, <2>1, Here DEF HasTypes
    <3> QED
      BY <1>6, <2>1, <3>1
  <2>2. CASE f # at
    <3>1. /\ types[f] # None /\ types[f].whole
          /\ types[f].variant = cmd.variant /\ types'[f] = types[f]
      BY <1>1, <1>3, <1>6, <2>2 DEF IndInv, FreshInv
    <3> QED
      BY <3>1
  <2> QED
    BY <2>1, <2>2
<1>13. ArchsInv'
  <2>1. TypesReady(Package) => TypesReady(Package)'
    <3>1. \A c \in Closure(Package) : <<Package, c>> \in Members \X Crates
      BY <1>1, <1>2, Here
    <3> QED
      BY <1>1, <1>7, <3>1 DEF TypesReady, Package
  <2> QED
    BY <1>1, <2>1, ArchsKept
<1>14. PackagesInv'
  BY <1>1, PackagesKept
<1> QED
  BY <1>10, <1>11, <1>12, <1>13, <1>14 DEF IndInv

-----------------------------------------------------------------------------
(* The end of an architecture and of a package                             *)

(* What NextArch moves on to.                                              *)
LEMMA NextArchMoves ==
  ASSUME IndInv, Running, pc \notin {"types", "write"}, NextArch, cmd' = cmd
  PROVE  /\ packages' \in Seq(Members) /\ archs' \in Seq(ArchSet)
         /\ pc' \in {"arch", "types", "done"}
         /\ Range(packages') \subseteq Range(packages)
         /\ (pc' = "done" => packages' = <<>>)
         /\ (pc' # "done" => packages' # <<>>)
         /\ (pc' = "arch" => archs' # <<>>)
         /\ (pc' = "types" => cmd.tool = "build" /\ archs' = <<>>)
         /\ (cmd.tool = "build" =>
                /\ packages' = packages /\ pc' # "done"
                /\ Range(archs) = Range(archs') \cup {Arch})
<1>1. /\ packages \in Seq(Members) /\ packages # <<>>
      /\ archs \in Seq(ArchSet) /\ archs # <<>>
      /\ cmd.tool # "build" => cmd.tool = "cargo"
  BY Here
<1>2. Archs \in Seq(ArchSet) /\ Archs # <<>>
  BY ArchsAssumption
<1>3. <<>> \in Seq(ArchSet) /\ <<>> \in Seq(Members)
  BY EmptySeq
<1>4. /\ Tail(archs) \in Seq(ArchSet)
      /\ Len(archs) = 1 \/ Len(archs) > 1
      /\ Range(archs) = Range(Tail(archs)) \cup {archs[1]}
      /\ Len(archs) = 1 => Tail(archs) = <<>>
      /\ Len(archs) > 1 => Tail(archs) # <<>>
  BY <1>1, FirstAndRest
<1>5. /\ Tail(packages) \in Seq(Members)
      /\ Len(packages) = 1 \/ Len(packages) > 1
      /\ Range(Tail(packages)) \subseteq Range(packages)
      /\ Len(packages) = 1 => Tail(packages) = <<>>
      /\ Len(packages) > 1 => Tail(packages) # <<>>
  BY <1>1, FirstAndRest
<1>6. CASE Len(archs) > 1
  <2>1. archs' = Tail(archs) /\ pc' = "arch" /\ packages' = packages
    BY <1>6 DEF NextArch
  <2> QED
    BY <1>1, <1>4, <1>6, <2>1 DEF Arch
<1>7. CASE ~(Len(archs) > 1) /\ cmd.tool = "cargo"
  <2>1. NextPackage
    BY <1>7 DEF NextArch
  <2>2. packages' = Tail(packages) /\ cmd.tool # "build"
    BY <1>7, <2>1 DEF NextPackage
  <2>3. CASE Len(packages) = 1
    <3>1. archs' = <<>> /\ pc' = "done" /\ packages' = <<>>
      BY <1>5, <2>1, <2>2, <2>3 DEF NextPackage
    <3> QED
      BY <1>3, <1>5, <2>2, <3>1
  <2>4. CASE Len(packages) # 1
    <3>1. archs' = Archs /\ pc' = "arch" /\ packages' # <<>>
      BY <1>5, <2>1, <2>2, <2>4 DEF NextPackage
    <3> QED
      BY <1>2, <1>5, <2>2, <3>1
  <2> QED
    BY <2>3, <2>4
<1>8. CASE ~(Len(archs) > 1) /\ cmd.tool = "build"
  <2>1. archs' = <<>> /\ pc' = "types" /\ packages' = packages
    BY <1>8 DEF NextArch
  <2>2. Len(archs) = 1
    BY <1>4, <1>8
  <2>3. Range(archs) = Range(archs') \cup {Arch}
    BY <1>4, <2>1, <2>2 DEF Arch
  <2> QED
    BY <1>1, <1>3, <1>8, <2>1, <2>3
<1> QED
  BY <1>1, <1>6, <1>7, <1>8

(* What cargo takes for up to date has its types.                          *)
LEMMA DoneIsReady ==
  ASSUME IndInv, pc \in {"cargo", "copy"}, cmd.tool = "build",
         \A c \in Closure(Package) : ~Dirty(c)
  PROVE  TypesReady(Package)
<1> SUFFICES ASSUME NEW c \in Closure(Package) \cap NapiCrates
             PROVE  /\ types[<<Package, c>>] # None
                    /\ types[<<Package, c>>].current
  BY DEF TypesReady
<1>1. Unit(c) \in Units /\ Folder = Package /\ Folder # None
  BY Here DEF Running
<1>2. built[Unit(c)] = Wanted(c) /\ Wanted(c) \in Results
  BY Here DEF Dirty, Running
<1>3. built[Unit(c)] # None /\ built[Unit(c)].folder = Package
  BY <1>1, <1>2, NoneIsApart DEF Wanted
<1>4. Unit(c)[1] = c
  BY DEF Unit
<1> QED
  BY <1>1, <1>3, <1>4 DEF IndInv, TypeOK

(* An architecture ends well when nothing was asked of it, or when it has  *)
(* what was.                                                               *)
LEMMA ArchEnds ==
  ASSUME IndInv, Running, pc \notin {"types", "write", "expand"},
         NextArch, cmd' = cmd, NEW h \in ArchSet, h = Arch,
         compiling' = compiling, built' = built, types' = types,
         dts' = dts, archive' = archive, marker' = marker, fresh' = fresh,
         dist' = [x \in Dirs \X ArchSet |-> dist'[x]],
         \A d \in Dirs, a \in ArchSet :
            <<d, a>> # <<Dist(cmd, Package), h>> =>
               dist'[<<d, a>>] = dist[<<d, a>>],
         h \in cmd.archs /\ cmd.tool = "build" =>
            TypesReady(Package) /\ (~cmd.skipLibs => LibsRight(Package, h)')
  PROVE  IndInv'
<1>1. /\ packages' \in Seq(Members) /\ archs' \in Seq(ArchSet)
      /\ pc' \in {"arch", "types", "done"}
      /\ Range(packages') \subseteq Range(packages)
      /\ pc' = "done" => packages' = <<>>
      /\ pc' # "done" => packages' # <<>>
      /\ pc' = "arch" => archs' # <<>>
      /\ pc' = "types" => cmd.tool = "build" /\ archs' = <<>>
      /\ cmd.tool = "build" => /\ packages' = packages /\ pc' # "done"
                               /\ Range(archs) = Range(archs') \cup {h}
  BY NextArchMoves
<1>2. cmd \in Commands /\ cmd \in CommandLines /\ Dist(cmd, Package) \in Dirs
  BY Here
<1>3. TypeOK'
  BY <1>1 DEF IndInv, TypeOK
<1>4. FilesInv' /\ PlaceInv' /\ ArchiveInv'
  BY <1>1, <1>2 DEF IndInv, FilesInv, PlaceInv, ArchiveInv, Running
<1>5. FreshInv'
  BY <1>1 DEF IndInv, FreshInv, Running
<1>6. ArchsInv'
  <2> SUFFICES ASSUME cmd.tool = "build",
                      NEW a \in cmd.archs \ Range(archs')
               PROVE  /\ TypesReady(Package)'
                      /\ (~cmd.skipLibs => LibsRight(Package, a)')
    BY DEF ArchsInv
  <2>1. Package' = Package /\ a \in ArchSet
    BY <1>1, <1>2 DEF Package, CommandLines
  <2>2. CASE a = h
    <3>1. TypesReady(Package) => TypesReady(Package)'
      BY <2>1 DEF TypesReady
    <3> QED
      BY <2>2, <3>1
  <2>3. CASE a # h
    <3>1. a \in cmd.archs \ Range(archs)
      BY <1>1, <2>3
    <3>2. TypesReady(Package) /\ (~cmd.skipLibs => LibsRight(Package, a))
      BY <3>1 DEF IndInv, ArchsInv
    <3>3. dist'[<<Dist(cmd, Package), a>>] = dist[<<Dist(cmd, Package), a>>]
      BY <1>2, <2>1, <2>3
    <3> QED
      BY <2>1, <3>2, <3>3 DEF TypesReady, LibsRight, UnitAsked
  <2> QED
    BY <2>2, <2>3
<1>7. PackagesInv'
  <2>1. CASE cmd.tool = "build"
    BY <1>1, <1>2, <2>1, PackagesKept
  <2>2. CASE cmd.tool # "build"
    BY <2>2 DEF PackagesInv
  <2> QED
    BY <2>1, <2>2
<1> QED
  BY <1>3, <1>4, <1>5, <1>6, <1>7 DEF IndInv

(* Passed over, or built without copying libraries.                        *)
LEMMA SkipKeeps ==
  ASSUME IndInv, SkipArch \/ CargoRan \/ LibsSkipped
  PROVE  IndInv'
<1>1. /\ pc \in {"arch", "cargo"} /\ NextArch /\ cmd' = cmd
      /\ compiling' = compiling /\ built' = built /\ types' = types
      /\ dist' = dist /\ dts' = dts /\ fresh' = fresh
      /\ archive' = archive /\ marker' = marker /\ Running
  BY DEF SkipArch, CargoRan, LibsSkipped, CargoIsDone, files, Running
<1>2. Arch \in cmd.archs /\ cmd.tool = "build" =>
         TypesReady(Package) /\ cmd.skipLibs
  <2>1. CASE SkipArch
    BY <2>1 DEF SkipArch
  <2>2. CASE CargoRan
    BY <2>2 DEF CargoRan
  <2>3. CASE LibsSkipped
    BY <2>3, DoneIsReady DEF LibsSkipped, CargoIsDone
  <2> QED
    BY <2>1, <2>2, <2>3
<1>3. dist' = [x \in Dirs \X ArchSet |-> dist'[x]]
  BY <1>1 DEF IndInv, FilesInv
<1>4. PICK h \in ArchSet : h = Arch
  BY <1>1, Here
<1> QED
  BY <1>1, <1>2, <1>3, <1>4, ArchEnds

(* The directory of the architecture is emptied ...                        *)
LEMMA CleanKeeps ==
  ASSUME IndInv, CleanDist
  PROVE  IndInv'
<1>1. /\ pc = "cargo" /\ pc' = "copy"
      /\ cmd.tool = "build" /\ ~cmd.skipLibs
      /\ \A c \in Closure(Package) : ~Dirty(c)
      /\ cmd' = cmd /\ packages' = packages /\ archs' = archs
      /\ compiling' = compiling /\ built' = built /\ types' = types
      /\ dts' = dts /\ fresh' = fresh
      /\ archive' = archive /\ marker' = marker
      /\ dist' = [dist EXCEPT ![<<Dist(cmd, Package), Arch>>] = "partial"]
      /\ Running /\ Running'
  BY DEF CleanDist, CargoIsDone, work, Running
<1>2. /\ dist' = [x \in Dirs \X ArchSet |-> dist'[x]]
      /\ \A x \in Dirs \X ArchSet :
            x # <<Dist(cmd, Package), Arch>> => dist'[x] = dist[x]
  BY <1>1 DEF IndInv, FilesInv
<1>3. TypeOK'
  BY <1>1 DEF IndInv, TypeOK
<1>4. FilesInv' /\ FreshInv' /\ ArchiveInv'
  BY <1>1, <1>2 DEF IndInv, FilesInv, FreshInv, ArchiveInv, Package
<1>5. PlaceInv'
  BY <1>1 DEF IndInv, PlaceInv, Package, Dirty, Unit, Arch, Wanted, Folder
<1>6. ArchsInv'
  <2>1. ASSUME NEW a \in cmd.archs \ Range(archs)
        PROVE  dist'[<<Dist(cmd, Package), a>>] =
                  dist[<<Dist(cmd, Package), a>>]
    <3>1. a \in ArchSet /\ a # Arch /\ Dist(cmd, Package) \in Dirs
      BY <1>1, Here DEF CommandLines
    <3> QED
      BY <1>2, <3>1
  <2>2. TypesReady(Package) => TypesReady(Package)'
    BY <1>1 DEF TypesReady, Package
  <2> QED
    BY <1>1, <2>1, <2>2, ArchsKept
<1>7. PackagesInv'
  BY <1>1, <1>2, PackagesKept
<1> QED
  BY <1>3, <1>4, <1>5, <1>6, <1>7 DEF IndInv

(* ... and filled.                                                         *)
LEMMA CopyKeeps ==
  ASSUME IndInv, CopyLibs
  PROVE  IndInv'
<1>1. /\ pc = "copy" /\ NextArch /\ cmd' = cmd
      /\ compiling' = compiling /\ built' = built /\ types' = types
      /\ dts' = dts /\ fresh' = fresh
      /\ archive' = archive /\ marker' = marker /\ Running
      /\ dist' = [dist EXCEPT ![<<Dist(cmd, Package), Arch>>] =
                    [package |-> Package, variant |-> cmd.variant,
                     unit |-> built[Unit(Package)],
                     atomic |-> IF cmd.atomic THEN archive ELSE "none"]]
  BY DEF CopyLibs, Running
<1>2. /\ cmd.tool = "build" /\ ~cmd.skipLibs
      /\ \A c \in Closure(Package) : ~Dirty(c)
      /\ cmd.atomic => archive = "whole"
  BY <1>1 DEF IndInv, PlaceInv, ArchiveInv, TypeOK
<1>3. TypesReady(Package)
  BY <1>1, <1>2, DoneIsReady
<1>4. PICK h \in ArchSet : h = Arch
  BY <1>1, Here
<1>5. built[Unit(Package)] = UnitAsked(Package)
  <2>1. Package \in Closure(Package) /\ Folder = Package
    BY <1>1, <1>2, Here DEF Closure
  <2> QED
    BY <1>2, <2>1 DEF Dirty, Wanted, UnitAsked
<1>6. /\ dist' = [x \in Dirs \X ArchSet |-> dist'[x]]
      /\ \A d \in Dirs, a \in ArchSet :
            <<d, a>> # <<Dist(cmd, Package), h>> =>
               dist'[<<d, a>>] = dist[<<d, a>>]
  BY <1>1, <1>4 DEF IndInv, FilesInv
<1>7. LibsRight(Package, h)'
  <2>1. packages' = packages
    BY <1>1, <1>2, NextArchMoves
  <2>2. Package' = Package /\ <<Dist(cmd, Package), h>> \in Dirs \X ArchSet
    BY <1>1, <2>1, Here DEF Package
  <2>3. dist'[<<Dist(cmd, Package), h>>] =
           [package |-> Package, variant |-> cmd.variant,
            unit |-> built[Unit(Package)],
            atomic |-> IF cmd.atomic THEN archive ELSE "none"]
    BY <1>1, <1>4, <2>2 DEF IndInv, FilesInv
  <2>4. (IF cmd.atomic THEN archive ELSE "none")
           = (IF cmd.atomic THEN "whole" ELSE "none")
    BY <1>2
  <2> QED
    BY <1>1, <1>5, <2>2, <2>3, <2>4 DEF LibsRight, UnitAsked
<1> QED
  BY <1>1, <1>2, <1>3, <1>4, <1>6, <1>7, ArchEnds

(* index.d.ts is removed ...                                               *)
LEMMA StartTypesKeeps ==
  ASSUME IndInv, StartTypes
  PROVE  IndInv'
<1>1. /\ pc = "types" /\ pc' = "write"
      /\ cmd' = cmd /\ packages' = packages /\ archs' = archs
      /\ compiling' = compiling /\ built' = built /\ types' = types
      /\ dist' = dist /\ fresh' = fresh
      /\ archive' = archive /\ marker' = marker
      /\ dts' = [dts EXCEPT ![Dist(cmd, Package)] = "partial"]
      /\ Running /\ Running'
  BY DEF StartTypes, work, Running
<1>2. /\ dts' = [d \in Dirs |-> dts'[d]]
      /\ \A d \in Dirs : d # Dist(cmd, Package) => dts'[d] = dts[d]
  BY <1>1 DEF IndInv, FilesInv
<1>3. TypeOK'
  BY <1>1 DEF IndInv, TypeOK
<1>4. FilesInv' /\ PlaceInv' /\ FreshInv' /\ ArchiveInv'
  BY <1>1, <1>2 DEF IndInv, FilesInv, PlaceInv, FreshInv, ArchiveInv, Package
<1>5. ArchsInv'
  BY <1>1, ArchsKept DEF TypesReady, Package
<1>6. PackagesInv'
  BY <1>1, <1>2, PackagesKept
<1> QED
  BY <1>3, <1>4, <1>5, <1>6 DEF IndInv

(* ... and written, the last that is done for a package.                   *)
LEMMA WriteKeeps ==
  ASSUME IndInv, WriteTypes
  PROVE  IndInv'
<1>1. /\ pc = "write" /\ NextPackage /\ cmd' = cmd
      /\ compiling' = compiling /\ built' = built /\ types' = types
      /\ dist' = dist /\ fresh' = fresh
      /\ archive' = archive /\ marker' = marker
      /\ dts' = [dts EXCEPT ![Dist(cmd, Package)] =
                     [c \in Crates |-> types[<<Package, c>>]]]
      /\ Running
  BY DEF WriteTypes, Running
<1>2. /\ cmd.tool = "build" /\ archs = <<>>
      /\ packages \in Seq(Members) /\ packages # <<>>
      /\ Range(packages) \subseteq Range(Selected(cmd))
  BY <1>1 DEF IndInv, PlaceInv, TypeOK
<1>3. PICK p \in Members : p = Package
  BY <1>1, Here
<1>4. /\ cmd \in Commands /\ Dist(cmd, p) \in Dirs
      /\ Closure(p) \subseteq Crates /\ cmd.archs # {}
  <2>1. /\ cmd \in Commands /\ Dist(cmd, p) \in Dirs
        /\ Closure(p) \subseteq Crates /\ cmd \in CommandLines
    BY <1>1, <1>3, Here
  <2>2. cmd.archs # {}
    BY <2>1 DEF CommandLines
  <2> QED
    BY <2>1, <2>2
<1>5. /\ Tail(packages) \in Seq(Members)
      /\ Range(packages) = Range(Tail(packages)) \cup {p}
      /\ Len(packages) = 1 \/ Len(packages) > 1
      /\ Len(packages) = 1 => Tail(packages) = <<>>
      /\ Len(packages) > 1 => Tail(packages) # <<>>
  BY <1>2, <1>3, FirstAndRest DEF Package
<1>6. /\ packages' = Tail(packages)
      /\ \/ pc' = "done" /\ archs' = <<>> /\ packages' = <<>>
         \/ pc' = "arch" /\ archs' = Archs /\ packages' # <<>>
  BY <1>1, <1>5 DEF NextPackage
<1>7. /\ packages' \in Seq(Members) /\ archs' \in Seq(ArchSet)
      /\ pc' = "arch" => archs' = Archs /\ Archs # <<>>
      /\ Range(packages') \subseteq Range(Selected(cmd))
  BY <1>2, <1>5, <1>6, ArchsAssumption, EmptySeq
<1>8. /\ dts' = [d \in Dirs |-> dts'[d]]
      /\ dts'[Dist(cmd, p)] = [c \in Crates |-> types[<<p, c>>]]
      /\ \A d \in Dirs : d # Dist(cmd, p) => dts'[d] = dts[d]
  BY <1>1, <1>3, <1>4 DEF IndInv, FilesInv
<1>9. TypeOK'
  BY <1>1, <1>6, <1>7 DEF IndInv, TypeOK
<1>10. FilesInv' /\ PlaceInv' /\ FreshInv' /\ ArchiveInv'
  BY <1>1, <1>4, <1>6, <1>7, <1>8
  DEF IndInv, FilesInv, PlaceInv, FreshInv, ArchiveInv, Running
<1>11. ArchsInv'
  <2>1. pc' = "arch" => cmd.archs \ Range(archs') = {}
    <3>1. cmd.archs \subseteq ArchSet
      BY <1>1, Here DEF CommandLines
    <3>2. Range(Archs) = ArchSet
      BY ArchsAssumption DEF ArchSet, Range
    <3> QED
      BY <1>7, <3>1, <3>2
  <2>2. Running' => pc' = "arch"
    BY <1>6 DEF Running
  <2> QED
    BY <1>1, <2>1, <2>2 DEF ArchsInv
<1>12. PackagesInv'
  <2> SUFFICES ASSUME NEW q \in Range(Selected(cmd)) \ Range(packages')
               PROVE  /\ (~cmd.skipLibs =>
                             \A a \in cmd.archs : LibsRight(q, a)')
                      /\ TypesRight(q)'
    BY <1>1 DEF PackagesInv
  <2>1. \A a \in cmd.archs \ Range(archs) :
           TypesReady(p) /\ (~cmd.skipLibs => LibsRight(p, a))
    BY <1>1, <1>2, <1>3 DEF IndInv, ArchsInv
  <2>2. Range(archs) = {}
    BY <1>2 DEF Range
  <2>3. /\ TypesReady(p)
        /\ ~cmd.skipLibs => \A a \in cmd.archs : LibsRight(p, a)
    BY <1>4, <2>1, <2>2
  <2>4. CASE q = p
    <3>1. \A a \in cmd.archs : LibsRight(p, a) => LibsRight(p, a)'
      BY <1>1 DEF LibsRight, UnitAsked
    <3>2. ASSUME NEW c \in Closure(p) \cap NapiCrates
          PROVE  LET t == dts'[Dist(cmd, p)][c]
                 IN /\ t # None /\ t.current
                    /\ <<p, c>> \in fresh => t.whole /\ t.variant = cmd.variant
      <4>1. dts'[Dist(cmd, p)][c] = types[<<p, c>>]
        BY <1>4, <1>8
      <4>2. types[<<p, c>>] # None /\ types[<<p, c>>].current
        BY <2>3 DEF TypesReady
      <4>3. <<p, c>> \in fresh => /\ types[<<p, c>>].whole
                                  /\ types[<<p, c>>].variant = cmd.variant
        BY <1>1, <1>2 DEF IndInv, FreshInv
      <4> QED
        BY <4>1, <4>2, <4>3
    <3>3. TypesRight(p)'
      BY <1>1, <3>2 DEF TypesRight
    <3> QED
      BY <2>3, <2>4, <3>1, <3>3
  <2>5. CASE q # p
    <3>1. q \in Range(Selected(cmd)) \ Range(packages)
      BY <1>5, <1>6, <2>5
    <3>2. /\ ~cmd.skipLibs => \A a \in cmd.archs : LibsRight(q, a)
          /\ TypesRight(q)
      BY <1>1, <1>2, <3>1 DEF IndInv, PackagesInv
    <3>3. dts'[Dist(cmd, q)] = dts[Dist(cmd, q)]
      BY <1>1, <1>3, <1>8, <3>1, Here
    <3>4. \A a \in cmd.archs : LibsRight(q, a) => LibsRight(q, a)'
      BY <1>1 DEF LibsRight, UnitAsked
    <3>5. TypesRight(q)'
      BY <1>1, <3>2, <3>3 DEF TypesRight
    <3> QED
      BY <3>2, <3>4, <3>5
  <2> QED
    BY <2>4, <2>5
<1> QED
  BY <1>9, <1>10, <1>11, <1>12 DEF IndInv

-----------------------------------------------------------------------------
(* Between invocations                                                     *)

(* A command begins with all that it selects and every architecture left.  *)
LEMMA BeginKeeps ==
  ASSUME IndInv, NEW c \in Commands, Begin(c)
  PROVE  IndInv'
<1>1. /\ pc \in {"idle", "done"} /\ pc' = "arch" /\ cmd' = c
      /\ packages' = Selected(c) /\ archs' = Archs /\ fresh' = {}
      /\ compiling' = compiling /\ built' = built /\ types' = types
      /\ archive' = archive /\ marker' = marker
      /\ dist' = [x \in DOMAIN dist |-> "old"]
      /\ dts' = [d \in Dirs |-> "old"]
  BY DEF Begin, Aged, Running
<1>2. Selected(c) \in Seq(Members) /\ Selected(c) # <<>> /\ c \in CommandLines
  BY SelectedApart, CommandsAssumption
<1>3. Archs \in Seq(ArchSet) /\ Archs # <<>> /\ Range(Archs) = ArchSet
  BY ArchsAssumption DEF ArchSet, Range
<1>4. TypeOK'
  BY <1>1, <1>2, <1>3 DEF IndInv, TypeOK
<1>5. FilesInv'
  <2>1. DOMAIN dist = Dirs \X ArchSet
    BY DEF IndInv, FilesInv
  <2> QED
    BY <1>1, <2>1 DEF FilesInv
<1>6. PlaceInv' /\ FreshInv' /\ ArchiveInv'
  BY <1>1, <1>2, <1>3 DEF PlaceInv, FreshInv, ArchiveInv
<1>7. ArchsInv' /\ PackagesInv'
  BY <1>1, <1>2, <1>3 DEF ArchsInv, PackagesInv, CommandLines
<1> QED
  BY <1>4, <1>5, <1>6, <1>7 DEF IndInv

(* A command that is stopped leaves what it has written.                   *)
LEMMA StopKeeps ==
  ASSUME IndInv, Stop
  PROVE  IndInv'
<1>1. /\ pc' = "idle" /\ cmd' = None /\ packages' = <<>> /\ archs' = <<>>
      /\ compiling' = None /\ fresh' = {}
      /\ built' = built /\ types' = types
      /\ archive' = archive /\ marker' = marker
      /\ dist' = [x \in DOMAIN dist |-> "old"]
      /\ dts' = [d \in Dirs |-> "old"]
  BY DEF Stop, Aged
<1>2. TypeOK'
  BY <1>1, EmptySeq DEF IndInv, TypeOK
<1>3. FilesInv'
  <2>1. DOMAIN dist = Dirs \X ArchSet
    BY DEF IndInv, FilesInv
  <2> QED
    BY <1>1, <2>1 DEF FilesInv
<1> QED
  BY <1>1, <1>2, <1>3 DEF IndInv, PlaceInv, ArchiveInv, FreshInv, ArchsInv,
                          PackagesInv, Running

(* What an edit makes old is no longer taken for up to date.               *)
LEMMA EditKeeps ==
  ASSUME IndInv, NEW c \in Crates, Edit(c)
  PROVE  IndInv'
<1>1. /\ pc' = "idle" /\ cmd' = None /\ fresh' = {}
      /\ packages' = packages /\ archs' = archs /\ compiling' = compiling
      /\ archive' = archive /\ marker' = marker
      /\ dist' = [x \in DOMAIN dist |-> "old"]
      /\ dts' = [d \in Dirs |-> "old"]
  BY DEF Edit, Aged
<1>2. /\ built' \in [Units -> Results \cup {None}]
      /\ \A u \in Units : built'[u] # None => built'[u] = built[u] /\ u[1] # c
  BY DEF Edit, IndInv, TypeOK, Closure
<1>3. /\ types \in [Members \X Crates -> TypeFiles \cup {None}]
      /\ types' = [x \in Members \X Crates |->
                      IF x[2] = c /\ types[x] # None
                      THEN [types[x] EXCEPT !.current = FALSE] ELSE types[x]]
  BY DEF Edit, IndInv, TypeOK
<1>4. \A f \in TypeFiles : [f EXCEPT !.current = FALSE] \in TypeFiles
  BY DEF TypeFiles
<1>5. /\ types' \in [Members \X Crates -> TypeFiles \cup {None}]
      /\ \A x \in Members \X Crates : x[2] # c => types'[x] = types[x]
  BY <1>3, <1>4
<1>6. ASSUME NEW u \in Units, built'[u] # None, built'[u].folder # None
      PROVE  /\ types'[<<built'[u].folder, u[1]>>] # None
             /\ types'[<<built'[u].folder, u[1]>>].current
  <2>1. built'[u] = built[u] /\ u[1] # c
    BY <1>2, <1>6
  <2>2. /\ types[<<built[u].folder, u[1]>>] # None
        /\ types[<<built[u].folder, u[1]>>].current
        /\ <<built[u].folder, u[1]>> \in Members \X Crates
    BY <1>6, <2>1 DEF IndInv, TypeOK, Results, Units
  <2>3. types'[<<built[u].folder, u[1]>>] = types[<<built[u].folder, u[1]>>]
    BY <1>5, <2>1, <2>2
  <2> QED
    BY <2>1, <2>2, <2>3
<1>7. TypeOK'
  BY <1>1, <1>2, <1>5, <1>6 DEF IndInv, TypeOK
<1>8. FilesInv'
  <2>1. DOMAIN dist = Dirs \X ArchSet
    BY DEF IndInv, FilesInv
  <2> QED
    BY <1>1, <2>1 DEF FilesInv
<1> QED
  BY <1>1, <1>7, <1>8 DEF IndInv, PlaceInv, ArchiveInv, FreshInv, ArchsInv,
                          PackagesInv, Running

-----------------------------------------------------------------------------
(* The theorems about builds                                               *)

(* Every step of a build, and every edit, keeps the invariant.             *)
LEMMA Step == IndInv /\ [Next]_vars => IndInv'
<1> SUFFICES ASSUME IndInv, [Next]_vars PROVE IndInv'
  OBVIOUS
<1>1. ASSUME NEW c \in Commands, BeginBuild(c) \/ BeginCargo(c) PROVE IndInv'
  BY <1>1, BeginKeeps DEF BeginBuild, BeginCargo
<1>2. CASE SkipArch \/ CargoRan \/ LibsSkipped
  BY <1>2, SkipKeeps
<1>3. CASE StartArch \/ Unpacked \/ MarkUnpacked
  BY <1>3, UnpackKeeps
<1>4. ASSUME NEW c \in Crates, CargoCompiles(c) PROVE IndInv'
  BY <1>4, CompilesKeeps
<1>5. ASSUME NEW c \in Crates, Edit(c) PROVE IndInv'
  BY <1>5, EditKeeps
<1>6. CASE ExpandFirst
  BY <1>6, FirstKeeps
<1>7. CASE ExpandAll
  BY <1>7, AllKeeps
<1>8. CASE CleanDist
  BY <1>8, CleanKeeps
<1>9. CASE CopyLibs
  BY <1>9, CopyKeeps
<1>10. CASE StartTypes
  BY <1>10, StartTypesKeeps
<1>11. CASE WriteTypes
  BY <1>11, WriteKeeps
<1>12. CASE Stop
  BY <1>12, StopKeeps
<1>13. CASE UNCHANGED vars
  <2>1. /\ pc' = pc /\ cmd' = cmd /\ packages' = packages /\ archs' = archs
        /\ compiling' = compiling /\ built' = built /\ types' = types
        /\ dist' = dist /\ dts' = dts /\ archive' = archive
        /\ marker' = marker /\ fresh' = fresh
    BY <1>13 DEF vars
  <2>2. TypeOK'
    BY <2>1 DEF IndInv, TypeOK
  <2>3. FilesInv' /\ PlaceInv' /\ ArchiveInv' /\ FreshInv'
    BY <2>1 DEF IndInv, FilesInv, PlaceInv, ArchiveInv, FreshInv, Running,
                Package, Dirty, Unit, Arch, Wanted, Folder
  <2>4. ArchsInv'
    BY <2>1 DEF IndInv, ArchsInv, Running, TypesReady, LibsRight, UnitAsked,
                Package
  <2>5. PackagesInv'
    BY <2>1 DEF IndInv, PackagesInv, LibsRight, UnitAsked, TypesRight
  <2> QED
    BY <2>2, <2>3, <2>4, <2>5 DEF IndInv
<1> QED
  BY <1>1, <1>2, <1>3, <1>4, <1>5, <1>6, <1>7, <1>8, <1>9, <1>10, <1>11,
     <1>12, <1>13 DEF Next

(* The invariant holds of every state.                                     *)
THEOREM Invariance == Spec => []IndInv
<1> QED
  BY InitIndInv, Step, PTL DEF Spec

(* The types of the variables; that an archive with a marker is whole, and *)
(* that what cargo takes for up to date has left current types behind,     *)
(* however often a build was killed halfway.                               *)
THEOREM TypeCorrect == Spec => []TypeOK
<1>1. IndInv => TypeOK
  BY DEF IndInv
<1> QED
  BY <1>1, Invariance, PTL

(* Whatever the workspace is, whatever was built, stopped or edited before,*)
(* a build that succeeded has left in the dist of every selected package   *)
(* its own libraries and types, current and as the command line asked.     *)
THEOREM BuildsAsAsked == Spec => []BuildIsAsAsked
<1>1. IndInv => BuildIsAsAsked
  <2> SUFFICES ASSUME IndInv, Succeeded PROVE LibsAsAsked /\ TypesAreCurrent
    BY DEF BuildIsAsAsked, LibsAsAsked, TypesAreCurrent
  <2>1. /\ pc = "done" /\ cmd.tool = "build"
        /\ cmd \in Commands /\ packages = <<>>
    BY DEF Succeeded, IndInv, PlaceInv
  <2>2. Range(packages) = {}
    BY <2>1 DEF Range
  <2>3. \A p \in Range(Selected(cmd)) :
           /\ ~cmd.skipLibs => \A a \in cmd.archs : LibsRight(p, a)
           /\ TypesRight(p)
    BY <2>1, <2>2 DEF IndInv, PackagesInv
  <2>4. \A i \in DOMAIN Selected(cmd) :
           Selected(cmd)[i] \in Range(Selected(cmd))
    BY DEF Range
  <2>5. LibsAsAsked
    BY <2>3, <2>4 DEF LibsAsAsked, LibsRight, UnitAsked
  <2>6. TypesAreCurrent
    BY <2>3, <2>4 DEF TypesAreCurrent, TypesRight
  <2> QED
    BY <2>5, <2>6
<1> QED
  BY <1>1, Invariance, PTL

-----------------------------------------------------------------------------
(* The resolution of libraries                                             *)

(* The files that are scanned some time.                                   *)
Scanned == Artifacts \cup {lib \in handled : Copied(lib)}

(* Whatever was looked for is needed, and what a file that was scanned     *)
(* needs was looked for.                                                   *)
ScanInv ==
    /\ graph \in Graphs /\ scan \in {"idle", "runs", "ends", "fails"}
    /\ pending \subseteq Libraries /\ handled \subseteq Libraries
    /\ scan = "idle" => handled = {}
    /\ scan # "idle" => handled \subseteq Needed
    /\ scan \in {"runs", "ends"} =>
          /\ pending \subseteq Scanned
          /\ \A lib \in handled : ~Missing(lib)
          /\ \A file \in Scanned \ pending :
                graph.needs[file] \subseteq handled
    /\ scan = "ends" => pending = {}
    /\ scan = "fails" => \E lib \in handled : Missing(lib)

(* A set that is closed holds all that is needed.                          *)
LEMMA ClosedHoldsNeeded ==
  ASSUME NEW libs \in SUBSET Libraries, Closed(libs)
  PROVE  Needed \subseteq libs
BY DEF Needed

(* What a file needs is needed, if that is an artifact or a needed library *)
(* that is copied.                                                         *)
LEMMA NeededIsClosed ==
  ASSUME graph \in Graphs,
         NEW file \in Libraries,
         file \in Artifacts \/ (file \in Needed /\ Copied(file)),
         NEW lib \in graph.needs[file]
  PROVE  lib \in Needed
<1>1. lib \in Libraries
  BY DEF Graphs
<1>2. ASSUME NEW libs \in SUBSET Libraries, Closed(libs)
      PROVE  lib \in libs
  <2>1. file \in Needed => file \in libs
    BY <1>2 DEF Needed
  <2> QED
    BY <1>2, <2>1 DEF Closed
<1> QED
  BY <1>1, <1>2 DEF Needed

(* The graph is all that what is needed depends on.                        *)
LEMMA NeededKept ==
  ASSUME graph' = graph
  PROVE  Needed' = Needed /\ \A lib : /\ Copied(lib)' = Copied(lib)
                                      /\ Missing(lib)' = Missing(lib)
BY DEF Needed, Closed, Copied, Missing

(* Before the first resolution nothing was looked for.                     *)
LEMMA ResolveInitInv == ResolveInit => ScanInv
<1> SUFFICES ASSUME ResolveInit PROVE ScanInv
  OBVIOUS
<1>1. NoGraph \in Graphs
  BY DEF NoGraph, Graphs
<1> QED
  BY <1>1 DEF ResolveInit, ScanInv

(* A file is scanned: what it needs and was not looked for is now, and     *)
(* waits for its own scan when it is copied.                               *)
LEMMA ScanKeeps ==
  ASSUME ScanInv, NEW file \in Libraries, ScanFile(file)
  PROVE  ScanInv'
<1> DEFINE new == graph.needs[file] \ handled
<1>1. /\ scan = "runs" /\ file \in pending /\ graph' = graph
      /\ handled' = handled \cup new
      /\ \/ /\ \E lib \in new : Missing(lib)
            /\ scan' = "fails" /\ pending' = pending
         \/ /\ \A lib \in new : ~Missing(lib)
            /\ pending' = (pending \ {file}) \cup {lib \in new : Copied(lib)}
            /\ scan' = "runs"
  BY DEF ScanFile
<1>2. /\ graph \in Graphs /\ pending \subseteq Libraries
      /\ handled \subseteq Libraries /\ handled \subseteq Needed
      /\ pending \subseteq Scanned
      /\ \A lib \in handled : ~Missing(lib)
      /\ \A f \in Scanned \ pending : graph.needs[f] \subseteq handled
  BY <1>1 DEF ScanInv
<1>3. graph.needs[file] \subseteq Libraries
  BY <1>2 DEF Graphs
<1>4. file \in Artifacts \/ (file \in Needed /\ Copied(file))
  BY <1>1, <1>2 DEF Scanned
<1>5. new \subseteq Needed
  BY <1>2, <1>4, NeededIsClosed
<1>6. /\ Needed' = Needed
      /\ \A lib : Copied(lib)' = Copied(lib) /\ Missing(lib)' = Missing(lib)
  BY <1>1, NeededKept
<1>7. Scanned' = Scanned \cup {lib \in new : Copied(lib)}
  BY <1>1, <1>6 DEF Scanned
<1>8. CASE scan' = "fails"
  <2>1. \E lib \in handled' : Missing(lib)'
    BY <1>1, <1>6, <1>8
  <2> QED
    BY <1>1, <1>2, <1>3, <1>5, <1>6, <1>8, <2>1 DEF ScanInv
<1>9. CASE scan' # "fails"
  <2>1. /\ \A lib \in new : ~Missing(lib)
        /\ pending' = (pending \ {file}) \cup {lib \in new : Copied(lib)}
        /\ scan' = "runs"
    BY <1>1, <1>9
  <2>2. pending' \subseteq Scanned' /\ pending' \subseteq Libraries
    BY <1>2, <1>3, <1>7, <2>1
  <2>3. \A lib \in handled' : ~Missing(lib)'
    BY <1>1, <1>2, <1>6, <2>1
  <2>4. \A f \in Scanned' \ pending' : graph'.needs[f] \subseteq handled'
    <3> SUFFICES ASSUME NEW f \in Scanned' \ pending'
                 PROVE  graph.needs[f] \subseteq handled'
      BY <1>1
    <3>1. f = file \/ f \in Scanned \ pending
      BY <1>7, <2>1
    <3>2. f = file => graph.needs[f] \subseteq handled'
      BY <1>1
    <3>3. f \in Scanned \ pending => graph.needs[f] \subseteq handled'
      BY <1>1, <1>2
    <3> QED
      BY <3>1, <3>2, <3>3
  <2>5. handled' \subseteq Needed' /\ handled' \subseteq Libraries
    BY <1>1, <1>2, <1>3, <1>5, <1>6
  <2> QED
    BY <1>1, <1>2, <2>1, <2>2, <2>3, <2>4, <2>5 DEF ScanInv
<1> QED
  BY <1>8, <1>9

(* Every step of a resolution keeps its invariant.                         *)
LEMMA ResolveStep == ScanInv /\ [ResolveNext]_resolution => ScanInv'
<1> SUFFICES ASSUME ScanInv, [ResolveNext]_resolution PROVE ScanInv'
  OBVIOUS
<1>1. CASE StartResolve
  <2>1. /\ graph' \in Graphs /\ scan' = "runs" /\ pending' = Artifacts
        /\ handled' = {}
    BY <1>1 DEF StartResolve, ScanInv
  <2>2. Scanned' = Artifacts
    BY <2>1 DEF Scanned
  <2> QED
    BY <2>1, <2>2, ArtifactsAreLibraries DEF ScanInv
<1>2. CASE QueueIsEmpty
  <2>1. /\ scan = "runs" /\ pending = {} /\ scan' = "ends" /\ graph' = graph
        /\ pending' = pending /\ handled' = handled
    BY <1>2 DEF QueueIsEmpty
  <2>2. Needed' = Needed /\ Scanned' = Scanned
        /\ \A lib : Missing(lib)' = Missing(lib)
    BY <2>1, NeededKept DEF Scanned, Copied
  <2> QED
    BY <2>1, <2>2 DEF ScanInv
<1>3. CASE Resolved
  <2>1. /\ graph' = NoGraph /\ scan' = "idle" /\ pending' = {}
        /\ handled' = {}
    BY <1>3 DEF Resolved
  <2>2. NoGraph \in Graphs
    BY DEF NoGraph, Graphs
  <2> QED
    BY <2>1, <2>2 DEF ScanInv
<1>4. CASE UNCHANGED resolution
  <2>1. /\ scan' = scan /\ graph' = graph
        /\ pending' = pending /\ handled' = handled
    BY <1>4 DEF resolution
  <2>2. Needed' = Needed /\ Scanned' = Scanned
        /\ \A lib : Missing(lib)' = Missing(lib)
    BY <2>1, NeededKept DEF Scanned, Copied
  <2> QED
    BY <2>1, <2>2 DEF ScanInv
<1>5. ASSUME NEW file \in Libraries, ScanFile(file) PROVE ScanInv'
  BY <1>5, ScanKeeps
<1> QED
  BY <1>1, <1>2, <1>3, <1>4, <1>5 DEF ResolveNext

(* For every graph of libraries, in whichever order files are scanned, a   *)
(* build copies exactly what its artifacts need in the end, and gives up   *)
(* only if something that is needed is nowhere.                            *)
THEOREM ClosureIsResolved == ResolveSpec => []ResolvesClosure
<1>1. ScanInv => ResolvesClosure
  <2> SUFFICES ASSUME ScanInv PROVE ResolvesClosure
    OBVIOUS
  <2>1. ASSUME scan = "ends"
        PROVE  Needed = handled /\ \A lib \in handled : ~Missing(lib)
    <3>1. /\ handled \subseteq Needed /\ handled \subseteq Libraries
          /\ \A lib \in handled : ~Missing(lib)
          /\ \A f \in Scanned : graph.needs[f] \subseteq handled
      BY <2>1 DEF ScanInv
    <3>2. Closed(handled)
      BY <3>1 DEF Closed, Scanned
    <3> QED
      BY <3>1, <3>2, ClosedHoldsNeeded
  <2>2. ASSUME scan = "fails" PROVE \E lib \in Needed : Missing(lib)
    BY <2>2 DEF ScanInv
  <2> QED
    BY <2>1, <2>2 DEF ResolvesClosure
<1>2. ResolveSpec => []ScanInv
  BY ResolveInitInv, ResolveStep, PTL DEF ResolveSpec
<1> QED
  BY <1>1, <1>2, PTL

-----------------------------------------------------------------------------
(* What the tables of a crate may say                                      *)

(* A name that an item of the crate gives to its identifier                *)
Renames(kinds, ident, name) ==
    \E o \in crate : o.kind \in kinds /\ Ident(o.of) = ident /\ o.js = name

(* A use of a type of the crate, by its identifier or such a name          *)
UseOK(use) ==
    /\ \E o \in crate : Declares(o, use.type)
    /\ \/ use.as = Ident(use.type)
       \/ Renames(Types \cup {"const"}, Ident(use.type), use.as)

LineOK(line) ==
    /\ line.item \in crate
    /\ IF line.item.kind \in {"impl", "task"}
       THEN \/ line.name = Ident(line.item.of)
            \/ Renames({"class", "shape"}, Ident(line.item.of), line.name)
       ELSE line.name = line.item.js
    /\ \A use \in line.uses : UseOK(use)

TablesInv ==
    /\ \A x \in DOMAIN recorded : Renames({"class", "shape"}, x, recorded[x])
    /\ \A x \in DOMAIN names : Renames(Types \cup {"const"}, x, names[x])
    /\ \A x \in DOMAIN tasks : \A use \in tasks[x] : UseOK(use)
    /\ \A line \in lines : LineOK(line)

(* Each item that is expanded has one line.                                *)
Expanded == IF stage = "expands" THEN crate \ left ELSE crate

LinesInv ==
    /\ \A line \in lines : line.item \in Expanded
    /\ \A l1, l2 \in lines : l1.item = l2.item => l1 = l2
    /\ stage # "fails" =>
          \A item \in Expanded : \E line \in lines : line.item = item

StageInv ==
    /\ stage \in {"idle", "expands", "fails", "links", "loaded"}
    /\ Compiles(crate) /\ crate \subseteq Items /\ left \subseteq crate
    /\ stage = "idle" => crate = {}

(* index.d.ts is made of the lines.                                        *)
Made(kept) ==
    {PrettyPrint(line) : line \in kept}
        \cup {Printed(line) :
                  line \in {l \in lines :
                      l.item.kind \notin {"class", "impl", "task"}}}

IndexInv ==
    stage \in {"links", "loaded"} => \E kept \in Kept : index = Made(kept)

(* What is registered, and nothing else                                    *)
Registered == IF stage \in {"links", "loaded"} THEN crate \ left ELSE {}

Key(item) == <<item.of, item.ns>>
InClass(item) == item.kind \in {"class", "impl", "task"}
Exported(item) ==
    [ns |-> item.ns, of |-> item.of,
     name |-> IF item.kind = "const" THEN Ident(item.of) ELSE item.js,
     members |-> {}]

ClassOK(key) ==
    /\ classes[key].members =
          {item \in Registered : InClass(item) /\ Key(item) = key}
    /\ \E line \in lines :
          /\ line.item \in classes[key].members
          /\ line.name = classes[key].js

RuntimeInv ==
    /\ callbacks = {Exported(item) :
                      item \in {i \in Registered :
                                   i.kind \in {"fn", "enum", "const"}}}
    /\ DOMAIN classes = {Key(item) : item \in {i \in Registered : InClass(i)}}
    /\ \A key \in DOMAIN classes : ClassOK(key)

LoadedInv ==
    stage = "loaded" =>
        /\ left = {}
        /\ exports = callbacks \cup DefinedClasses
        /\ ctors \in Constructors

CrateInv ==
    StageInv /\ TablesInv /\ LinesInv /\ IndexInv /\ RuntimeInv /\ LoadedInv

-----------------------------------------------------------------------------
(* Initially there is no crate.                                            *)
LEMMA InitIsEmpty == CrateInit => CrateInv
<1> SUFFICES ASSUME CrateInit PROVE CrateInv
  OBVIOUS
<1>1. StageInv
  BY DEF CrateInit, StageInv, Compiles
<1>2. TablesInv /\ LinesInv /\ IndexInv /\ LoadedInv
  BY DEF CrateInit, NoTable, TablesInv, LinesInv, IndexInv, LoadedInv, Expanded
<1>3. RuntimeInv
  BY DEF CrateInit, NoTable, RuntimeInv, Registered
<1> QED BY <1>1, <1>2, <1>3 DEF CrateInv

(* No step leaves the stages or gives up a crate that compiles.            *)
LEMMA StageKept ==
    ASSUME StageInv, [CrateNext]_crateVars PROVE StageInv'
<1>1. CASE StartCrate
  BY <1>1 DEF StageInv, StartCrate, Sources
<1>2. CASE NextCrate
  BY <1>2 DEF StageInv, NextCrate, Compiles
<1>3. CASE Declare
  BY <1>3 DEF StageInv, Declare, Compiles
<1>4. CASE RegisterModule
  BY <1>4 DEF StageInv, RegisterModule, Compiles
<1>5. CASE UNCHANGED crateVars
  BY <1>5 DEF StageInv, crateVars, Compiles
<1>6. ASSUME NEW item \in left,
             \/ ExpandStruct(item) \/ ExpandEnum(item) \/ ExpandType(item)
             \/ ExpandConst(item) \/ ExpandFn(item)
             \/ ExpandImpl(item) \/ ExpandTask(item)
      PROVE  StageInv'
  <2>1. crate' = crate /\ left' \subseteq left
    BY <1>6 DEF ExpandStruct, ExpandEnum, ExpandType, ExpandConst, ExpandFn,
                ExpandImpl, ExpandTask, Expand
  <2>2. stage' \in {"expands", "fails"}
    BY <1>6 DEF ExpandStruct, ExpandEnum, ExpandType, ExpandConst, ExpandFn,
                ExpandImpl, ExpandTask, Expand, NameAndLine
  <2> QED BY <2>1, <2>2 DEF StageInv, Compiles
<1>7. ASSUME NEW item \in left,
             \/ RegisterStruct(item) \/ RegisterImpl(item) \/ RegisterFn(item)
             \/ RegisterEnum(item) \/ RegisterConst(item)
             \/ RegisterNothing(item)
      PROVE  StageInv'
  <2>1. crate' = crate /\ left' \subseteq left /\ stage' = stage
    BY <1>7 DEF RegisterStruct, RegisterImpl, RegisterFn, RegisterEnum,
                RegisterConst, RegisterNothing, Run
  <2> QED BY <2>1 DEF StageInv, Compiles
<1> QED BY <1>1, <1>2, <1>3, <1>4, <1>5, <1>6, <1>7 DEF CrateNext

-----------------------------------------------------------------------------
(* Expansion                                                               *)

(* A line that an expansion appends                                        *)
Appends(item, line) ==
    /\ line.item = item /\ LineOK(line)
    /\ lines' = lines \cup {line}

(* Names of the crate stay names of it.                                    *)
LEMMA SameNames ==
    ASSUME crate' = crate, NEW use, UseOK(use) PROVE UseOK(use)'
BY DEF UseOK, Renames

(* Lines of the crate stay lines of it.                                    *)
LEMMA SameLine ==
    ASSUME crate' = crate, NEW line, LineOK(line) PROVE LineOK(line)'
BY DEF LineOK, UseOK, Renames

(* A type is written as its identifier or a name that stands for it.       *)
LEMMA WrittenOK ==
    ASSUME StageInv, NEW item \in crate, crate' = crate,
           \A x \in DOMAIN names' : Renames(Types \cup {"const"}, x, names'[x])
    PROVE  \A use \in WrittenUses(item) : UseOK(use)
<1> SUFFICES ASSUME NEW type \in item.uses PROVE UseOK(Written(type))
  BY DEF WrittenUses
<1>1. \E o \in crate : Declares(o, type)
  BY DEF StageInv, Compiles
<1>2. Written(type).type = type
  BY DEF Written
<1>3. \/ Written(type).as = Ident(type)
      \/ Renames(Types \cup {"const"}, Ident(type), Written(type).as)
  BY DEF Written
<1> QED BY <1>1, <1>2, <1>3 DEF UseOK

(* The uses that a task passes on to the functions that run it             *)
LEMMA TaskUsesOK ==
    ASSUME TablesInv, NEW item
    PROVE  \A use \in TaskUses(item) : UseOK(use)
BY DEF TablesInv, TaskUses

(* An impl has the identifier of its type, or a name recorded for that.    *)
LEMMA ImplNameOK ==
    ASSUME TablesInv, NEW item
    PROVE  \/ ImplName(item) = Ident(item.of)
           \/ Renames({"class", "shape"}, Ident(item.of), ImplName(item))
BY DEF TablesInv, ImplName

(* A line is of its item, and names types as the tables do.                *)
LEMMA LineAppended ==
    ASSUME StageInv, TablesInv, NEW item \in crate, crate' = crate, NEW name,
           \A x \in DOMAIN names' :
               Renames(Types \cup {"const"}, x, names'[x]),
           IF item.kind \in {"impl", "task"}
             THEN \/ name = Ident(item.of)
                  \/ Renames({"class", "shape"}, Ident(item.of), name)
             ELSE name = item.js,
           Line(item, name)
    PROVE  \E line : Appends(item, line)
<1> DEFINE line == [item |-> item, name |-> name,
                    uses |-> WrittenUses(item) \cup TaskUses(item)]
<1>1. \A use \in line.uses : UseOK(use)
  BY WrittenOK, TaskUsesOK
<1>2. line.item = item /\ line.name = name
  OBVIOUS
<1>3. lines' = lines \cup {line}
  BY DEF Line
<1> HIDE DEF line
<1>4. LineOK(line)
  BY <1>1, <1>2 DEF LineOK
<1> QED BY <1>2, <1>3, <1>4 DEF Appends

(* What an expansion does to the tables                                    *)
Expands(item) ==
    /\ stage = "expands" /\ item \in left /\ left' = left \ {item}
    /\ UNCHANGED <<crate, index, runtime, loaded>>
    /\ \A x \in DOMAIN recorded' : Renames({"class", "shape"}, x, recorded'[x])
    /\ \A x \in DOMAIN names' : Renames(Types \cup {"const"}, x, names'[x])
    /\ \A x \in DOMAIN tasks' : \A use \in tasks'[x] : UseOK(use)
    /\ \/ stage' = "fails" /\ lines' = lines
       \/ stage' = stage /\ \E line : Appends(item, line)

(* A type or a const that is expanded names its identifier.                *)
LEMMA NameAndLineExpands ==
    ASSUME StageInv, TablesInv, NEW item \in crate, Expand(item),
           item.kind \in Types \cup {"const"},
           \A x \in DOMAIN recorded' :
               Renames({"class", "shape"}, x, recorded'[x]),
           NameAndLine(item)
    PROVE  Expands(item)
<1>1. Renames(Types \cup {"const"}, Ident(item.of), item.js)
  BY DEF Renames
<1>2. \A x \in DOMAIN names' : Renames(Types \cup {"const"}, x, names'[x])
  <2> SUFFICES ASSUME NEW x \in DOMAIN names'
               PROVE  Renames(Types \cup {"const"}, x, names'[x])
    OBVIOUS
  <2>1. names' = Set(names, Ident(item.of), item.js)
    BY DEF NameAndLine
  <2>2. CASE x = Ident(item.of)
    BY <1>1, <2>1, <2>2 DEF Set
  <2>3. CASE x # Ident(item.of)
    <3>1. x \in DOMAIN names /\ names'[x] = names[x]
      BY <2>1, <2>3 DEF Set
    <3> QED BY <3>1 DEF TablesInv
  <2> QED BY <2>2, <2>3
<1>3. crate' = crate
  BY DEF Expand
<1>4. item.kind \notin {"impl", "task"}
  BY DEF Types
<1>5. \E line : Appends(item, line)
  BY <1>2, <1>3, <1>4, LineAppended DEF NameAndLine
<1> QED BY <1>2, <1>5 DEF Expands, Expand, NameAndLine, TablesInv

(* Each expansion enters only what the crate says in the tables.           *)
LEMMA AllExpand ==
    ASSUME StageInv, TablesInv, NEW item \in left,
           \/ ExpandStruct(item) \/ ExpandEnum(item) \/ ExpandType(item)
           \/ ExpandConst(item) \/ ExpandFn(item)
           \/ ExpandImpl(item) \/ ExpandTask(item)
    PROVE  Expands(item)
<1>0. item \in crate
  BY DEF StageInv
<1>1. CASE ExpandStruct(item)
  <2>1. Renames({"class", "shape"}, Ident(item.of), item.js)
    BY <1>0, <1>1 DEF ExpandStruct, Renames
  <2>2. \A x \in DOMAIN recorded' :
            Renames({"class", "shape"}, x, recorded'[x])
    <3> SUFFICES ASSUME NEW x \in DOMAIN recorded'
                 PROVE  Renames({"class", "shape"}, x, recorded'[x])
      OBVIOUS
    <3>1. recorded' = Set(recorded, Ident(item.of), item.js)
      BY <1>1 DEF ExpandStruct, Record
    <3>2. CASE x = Ident(item.of)
      BY <2>1, <3>1, <3>2 DEF Set
    <3>3. CASE x # Ident(item.of)
      <4>1. x \in DOMAIN recorded /\ recorded'[x] = recorded[x]
        BY <3>1, <3>3 DEF Set
      <4> QED BY <4>1 DEF TablesInv
    <3> QED BY <3>2, <3>3
  <2>3. item.kind \in Types
    BY <1>1 DEF ExpandStruct, Types
  <2> QED BY <1>0, <1>1, <2>2, <2>3, NameAndLineExpands DEF ExpandStruct
<1>2. CASE ExpandEnum(item) \/ ExpandType(item) \/ ExpandConst(item)
  <2>1. Expand(item) /\ NameAndLine(item) /\ recorded' = recorded
    BY <1>2 DEF ExpandEnum, ExpandType, ExpandConst
  <2>2. item.kind \in Types \cup {"const"}
    BY <1>2 DEF ExpandEnum, ExpandType, ExpandConst, Types
  <2>3. \A x \in DOMAIN recorded' :
            Renames({"class", "shape"}, x, recorded'[x])
    BY <2>1 DEF TablesInv
  <2> QED BY <1>0, <2>1, <2>2, <2>3, NameAndLineExpands
<1>3. ASSUME ExpandFn(item) \/ ExpandImpl(item) \/ ExpandTask(item)
      PROVE  /\ recorded' = recorded /\ names' = names
             /\ Expand(item) /\ crate' = crate
             /\ \A x \in DOMAIN recorded' :
                   Renames({"class", "shape"}, x, recorded'[x])
             /\ \A x \in DOMAIN names' :
                   Renames(Types \cup {"const"}, x, names'[x])
  BY <1>3 DEF ExpandFn, ExpandImpl, ExpandTask, Expand, TablesInv
<1>4. CASE ExpandFn(item)
  <2>1. \E line : Appends(item, line)
    BY <1>0, <1>3, <1>4, LineAppended DEF ExpandFn
  <2> QED BY <1>3, <1>4, <2>1 DEF ExpandFn, Expands, Expand, TablesInv
<1>5. CASE ExpandImpl(item)
  <2>1. CASE stage' = "fails" /\ lines' = lines
    BY <1>3, <1>5, <2>1 DEF ExpandImpl, Expands, Expand, TablesInv
  <2>2. CASE Line(item, ImplName(item)) /\ stage' = stage
    <3>1. item.kind \in {"impl", "task"}
      BY <1>5 DEF ExpandImpl
    <3>2. \E line : Appends(item, line)
      BY <1>0, <1>3, <1>5, <2>2, <3>1, LineAppended, ImplNameOK
    <3> QED BY <1>3, <1>5, <2>2, <3>2
            DEF ExpandImpl, Expands, Expand, TablesInv
  <2> QED BY <1>5, <2>1, <2>2 DEF ExpandImpl
<1>6. CASE ExpandTask(item)
  <2>1. \A use \in WrittenUses(item) : UseOK(use)
    BY <1>0, <1>3, <1>6, WrittenOK
  <2>2. \A x \in DOMAIN tasks' : \A use \in tasks'[x] : UseOK(use)
    <3> SUFFICES ASSUME NEW x \in DOMAIN tasks'
                 PROVE  \A use \in tasks'[x] : UseOK(use)
      OBVIOUS
    <3>1. tasks' = Set(tasks, Ident(item.of), WrittenUses(item))
      BY <1>6 DEF ExpandTask
    <3>2. CASE x = Ident(item.of)
      <4>1. tasks'[x] = WrittenUses(item)
        BY <3>1, <3>2 DEF Set
      <4> QED BY <2>1, <4>1
    <3>3. CASE x # Ident(item.of)
      <4>1. x \in DOMAIN tasks /\ tasks'[x] = tasks[x]
        BY <3>1, <3>3 DEF Set
      <4> QED BY <4>1 DEF TablesInv
    <3> QED BY <3>2, <3>3
  <2> DEFINE line == [item |-> item, name |-> ImplName(item), uses |-> {}]
  <2>3. line.item = item /\ line.name = ImplName(item) /\ line.uses = {}
    OBVIOUS
  <2>4. lines' = lines \cup {line} /\ item.kind = "task"
    BY <1>6 DEF ExpandTask
  <2> HIDE DEF line
  <2>5. LineOK(line)
    BY <1>0, <2>3, <2>4, ImplNameOK DEF LineOK
  <2>6. Appends(item, line)
    BY <2>3, <2>4, <2>5 DEF Appends
  <2> QED BY <1>3, <1>6, <2>2, <2>6 DEF ExpandTask, Expands, Expand
<1> QED BY <1>1, <1>2, <1>4, <1>5, <1>6

(* Expansion keeps the invariant.                                          *)
LEMMA ExpandsKeeps ==
    ASSUME StageInv, TablesInv, LinesInv, RuntimeInv, NEW item, Expands(item)
    PROVE  TablesInv' /\ LinesInv' /\ IndexInv' /\ RuntimeInv' /\ LoadedInv'
<1>0. crate' = crate /\ stage = "expands" /\ stage' \in {"expands", "fails"}
  BY DEF Expands
<1>1. TablesInv'
  <2>1. \A line \in lines' : LineOK(line)
    BY DEF Expands, Appends, TablesInv
  <2>2. \A line \in lines' : LineOK(line)'
    BY <1>0, <2>1, SameLine
  <2>3. \A x \in DOMAIN tasks' : \A use \in tasks'[x] : UseOK(use)'
    BY <1>0, SameNames DEF Expands
  <2> QED BY <1>0, <2>2, <2>3 DEF TablesInv, Expands, Renames
<1>2. LinesInv'
  <2>1. Expanded = crate \ left
    BY <1>0 DEF Expanded
  <2>2. item \in left /\ left' = left \ {item} /\ left \subseteq crate
    BY DEF Expands, StageInv
  <2>3. CASE stage' = "fails" /\ lines' = lines
    BY <1>0, <2>1, <2>2, <2>3 DEF LinesInv, Expanded
  <2>4. CASE stage' = stage /\ \E line : Appends(item, line)
    <3> PICK line : Appends(item, line)
      BY <2>4
    <3>1. Expanded' = Expanded \cup {item} /\ item \notin Expanded
      BY <1>0, <2>1, <2>2, <2>4 DEF Expanded
    <3>2. lines' = lines \cup {line} /\ line.item = item
      BY DEF Appends
    <3> QED BY <1>0, <3>1, <3>2 DEF LinesInv
  <2> QED BY <2>3, <2>4 DEF Expands
<1>3. IndexInv' /\ LoadedInv'
  BY <1>0 DEF IndexInv, LoadedInv
<1>4. RuntimeInv'
  <2>1. Registered = {} /\ Registered' = {}
    BY <1>0 DEF Registered
  <2>2. classes' = classes /\ callbacks' = callbacks
    BY DEF Expands, runtime
  <2>3. DOMAIN classes = {} /\ callbacks = {}
    BY <2>1 DEF RuntimeInv
  <2> QED BY <2>1, <2>2, <2>3 DEF RuntimeInv
<1> QED BY <1>1, <1>2, <1>3, <1>4

-----------------------------------------------------------------------------
(* From declarations to the loaded module                                  *)

(* What no step but an expansion changes                                   *)
LEMMA LinesStay ==
    ASSUME TablesInv, LinesInv, crate' = crate, lines' = lines,
           recorded' = recorded, names' = names, tasks' = tasks,
           Expanded' = Expanded, stage # "fails"
    PROVE  TablesInv' /\ LinesInv'
<1>1. \A line \in lines' : LineOK(line)'
  BY SameLine DEF TablesInv
<1>2. \A x \in DOMAIN tasks' : \A use \in tasks'[x] : UseOK(use)'
  BY SameNames DEF TablesInv
<1>3. TablesInv'
  BY <1>1, <1>2 DEF TablesInv, Renames
<1> QED BY <1>3 DEF LinesInv

(* index.d.ts is not written again.                                        *)
LEMMA IndexStays ==
    ASSUME IndexInv, lines' = lines, index' = index,
           stage' \in {"links", "loaded"} => stage \in {"links", "loaded"}
    PROVE  IndexInv'
<1>1. CASE stage' \notin {"links", "loaded"}
  BY <1>1 DEF IndexInv
<1>2. CASE stage' \in {"links", "loaded"}
  <2>1. PICK kept \in Kept : index = Made(kept)
    BY <1>2 DEF IndexInv
  <2>2. Kept' = Kept /\ Made(kept)' = Made(kept)
    BY DEF Kept, Made, ClassLines, ImplLines, PrettyPrint, Printed
  <2> QED BY <2>1, <2>2 DEF IndexInv
<1> QED BY <1>1, <1>2

(* ohrs writes index.d.ts from the lines.                                  *)
LEMMA DeclareKeeps ==
    ASSUME CrateInv, Declare
    PROVE  TablesInv' /\ LinesInv' /\ IndexInv' /\ RuntimeInv' /\ LoadedInv'
<1>0. /\ stage = "expands" /\ left = {} /\ stage' = "links" /\ left' = crate
      /\ crate' = crate /\ lines' = lines
      /\ recorded' = recorded /\ names' = names /\ tasks' = tasks
      /\ classes' = classes /\ callbacks' = callbacks
  BY DEF Declare, tables, runtime
<1>1. TablesInv' /\ LinesInv'
  <2>1. Expanded' = Expanded
    BY <1>0 DEF Expanded
  <2> QED BY <1>0, <2>1, LinesStay DEF CrateInv
<1>2. IndexInv'
  <2>1. PICK kept \in Kept : index' = Made(kept)
    BY DEF Declare, Made
  <2>2. Kept' = Kept /\ Made(kept)' = Made(kept)
    BY <1>0 DEF Kept, Made, ClassLines, ImplLines, PrettyPrint, Printed
  <2> QED BY <2>1, <2>2 DEF IndexInv
<1>3. RuntimeInv'
  <2>1. Registered = {} /\ Registered' = {}
    BY <1>0 DEF Registered
  <2>2. DOMAIN classes = {} /\ callbacks = {}
    BY <2>1 DEF CrateInv, RuntimeInv
  <2> QED BY <1>0, <2>1, <2>2 DEF RuntimeInv
<1>4. LoadedInv'
  BY <1>0 DEF LoadedInv
<1> QED BY <1>1, <1>2, <1>3, <1>4

(* A constructor function changes nothing that was declared.               *)
LEMMA RunKeepsLines ==
    ASSUME CrateInv, NEW item, Run(item)
    PROVE  TablesInv' /\ LinesInv' /\ IndexInv' /\ LoadedInv'
<1>0. /\ stage = "links" /\ stage' = "links"
      /\ crate' = crate /\ lines' = lines /\ index' = index
      /\ recorded' = recorded /\ names' = names /\ tasks' = tasks
  BY DEF Run, tables
<1>1. TablesInv' /\ LinesInv'
  <2>1. Expanded' = Expanded
    BY <1>0 DEF Expanded
  <2> QED BY <1>0, <2>1, LinesStay DEF CrateInv
<1>2. IndexInv'
  BY <1>0, IndexStays DEF CrateInv
<1>3. LoadedInv'
  BY <1>0 DEF LoadedInv
<1> QED BY <1>1, <1>2, <1>3

(* An item is registered once.                                             *)
LEMMA RunRegisters ==
    ASSUME StageInv, NEW item, Run(item)
    PROVE  /\ item \in crate /\ item \notin Registered
           /\ Registered' = Registered \cup {item}
BY DEF StageInv, Run, Registered

(* A function, an enum or a const becomes one of the callbacks.            *)
LEMMA ExportKeeps ==
    ASSUME CrateInv, NEW item, Run(item),
           item.kind \in {"fn", "enum", "const"},
           callbacks' = callbacks \cup {Exported(item)}, classes' = classes
    PROVE  RuntimeInv'
<1>1. Registered' = Registered \cup {item} /\ ~InClass(item)
  BY RunRegisters DEF CrateInv, InClass
<1>2. lines' = lines
  BY DEF Run, tables
<1>3. callbacks' = {Exported(i) : i \in {j \in Registered' :
                                  j.kind \in {"fn", "enum", "const"}}}
  BY <1>1 DEF CrateInv, RuntimeInv
<1>4. \A key : {i \in Registered' : InClass(i) /\ Key(i) = key}
                   = {i \in Registered : InClass(i) /\ Key(i) = key}
  BY <1>1
<1>5. DOMAIN classes = {Key(i) : i \in {j \in Registered' : InClass(j)}}
  BY <1>1 DEF CrateInv, RuntimeInv
<1>6. ASSUME NEW key \in DOMAIN classes PROVE ClassOK(key)'
  BY <1>2, <1>4 DEF CrateInv, RuntimeInv, ClassOK
<1> QED BY <1>3, <1>5, <1>6 DEF RuntimeInv

(* A class, an impl or a task becomes a member of its class, which is      *)
(* named as its line is.                                                   *)
LEMMA ClassKeeps ==
    ASSUME CrateInv, NEW item, Run(item), InClass(item),
           NEW line \in lines, line.item = item, NEW name, name = line.name,
           RegisterClass(item, name), callbacks' = callbacks
    PROVE  RuntimeInv'
<1>1. Registered' = Registered \cup {item} /\ item \notin Registered
  BY RunRegisters DEF CrateInv
<1>2. lines' = lines
  BY DEF Run, tables
<1>3. item.kind \notin {"fn", "enum", "const"}
  BY DEF InClass
<1>4. callbacks' = {Exported(i) : i \in {j \in Registered' :
                                  j.kind \in {"fn", "enum", "const"}}}
  BY <1>1, <1>3 DEF CrateInv, RuntimeInv
<1> DEFINE before == IF Key(item) \in DOMAIN classes
                     THEN classes[Key(item)].members ELSE {}
           entry == [js |-> name, members |-> before \cup {item}]
<1>5. classes' = Set(classes, Key(item), entry)
  BY DEF RegisterClass, Key
<1>6. before = {i \in Registered : InClass(i) /\ Key(i) = Key(item)}
  BY DEF CrateInv, RuntimeInv, ClassOK
<1>7. entry.js = line.name /\ entry.members = before \cup {item}
  OBVIOUS
<1> HIDE DEF entry, before
<1>8. /\ DOMAIN classes' = DOMAIN classes \cup {Key(item)}
      /\ classes'[Key(item)] = entry
      /\ \A key \in DOMAIN classes :
            key # Key(item) => classes'[key] = classes[key]
  BY <1>5 DEF Set
<1>9. DOMAIN classes' = {Key(i) : i \in {j \in Registered' : InClass(j)}}
  BY <1>1, <1>8 DEF CrateInv, RuntimeInv
<1>10. ASSUME NEW key \in DOMAIN classes' PROVE ClassOK(key)'
  <2>1. CASE key = Key(item)
    <3>1. classes'[key].members
              = {i \in Registered' : InClass(i) /\ Key(i) = key}
      BY <1>1, <1>6, <1>7, <1>8, <2>1
    <3>2. line.item \in classes'[key].members /\ line.name = classes'[key].js
      BY <1>7, <1>8, <2>1
    <3> QED BY <1>2, <3>1, <3>2 DEF ClassOK, InClass, Key
  <2>2. CASE key # Key(item)
    <3>1. key \in DOMAIN classes /\ classes'[key] = classes[key]
      BY <1>8, <2>2
    <3>2. {i \in Registered' : InClass(i) /\ Key(i) = key}
              = {i \in Registered : InClass(i) /\ Key(i) = key}
      BY <1>1, <2>2
    <3> QED BY <1>2, <3>1, <3>2 DEF CrateInv, RuntimeInv, ClassOK, InClass, Key
  <2> QED BY <2>1, <2>2
<1> QED BY <1>4, <1>9, <1>10 DEF RuntimeInv, InClass, Key, Exported

(* Each constructor function keeps the tables of the runtime true.         *)
LEMMA RegisterKeeps ==
    ASSUME CrateInv, NEW item \in left,
           \/ RegisterStruct(item) \/ RegisterImpl(item) \/ RegisterFn(item)
           \/ RegisterEnum(item) \/ RegisterConst(item)
           \/ RegisterNothing(item)
    PROVE  Run(item) /\ RuntimeInv'
<1>0. Run(item)
  BY DEF RegisterStruct, RegisterImpl, RegisterFn, RegisterEnum,
         RegisterConst, RegisterNothing
<1>1. stage = "links" /\ item \in crate
  BY <1>0 DEF Run, CrateInv, StageInv
<1>2. PICK line \in lines : line.item = item
  BY <1>1 DEF CrateInv, LinesInv, Expanded
<1>3. CASE RegisterStruct(item)
  <2>1. item.kind = "class" /\ RegisterClass(item, item.js)
        /\ callbacks' = callbacks
    BY <1>3 DEF RegisterStruct
  <2>2. line.name = item.js
    BY <1>2, <2>1 DEF CrateInv, TablesInv, LineOK
  <2>3. InClass(item)
    BY <2>1 DEF InClass
  <2> QED BY <1>0, <1>2, <2>1, <2>2, <2>3, ClassKeeps
<1>4. CASE RegisterImpl(item)
  <2>1. (CHOOSE l \in lines : l.item = item) = line
    BY <1>2 DEF CrateInv, LinesInv
  <2>2. RegisterClass(item, line.name) /\ callbacks' = callbacks
    BY <1>4, <2>1 DEF RegisterImpl
  <2>3. InClass(item)
    BY <1>4 DEF RegisterImpl, InClass
  <2> QED BY <1>0, <1>2, <2>2, <2>3, ClassKeeps
<1>5. CASE RegisterFn(item) \/ RegisterEnum(item) \/ RegisterConst(item)
  <2>1. /\ item.kind \in {"fn", "enum", "const"} /\ classes' = classes
        /\ callbacks' = callbacks \cup {Exported(item)}
    BY <1>5 DEF RegisterFn, RegisterEnum, RegisterConst, RegisterExport,
                Exported
  <2> QED BY <1>0, <2>1, ExportKeeps
<1>6. CASE RegisterNothing(item)
  <2>1. ~InClass(item) /\ item.kind \notin {"fn", "enum", "const"}
    BY <1>6 DEF RegisterNothing, InClass
  <2>2. /\ classes' = classes /\ callbacks' = callbacks
        /\ lines' = lines
    BY <1>0, <1>6 DEF RegisterNothing, runtime, Run, tables
  <2>3. Registered' = Registered \cup {item}
    BY <1>0, RunRegisters DEF CrateInv
  <2>4. /\ \A key : {i \in Registered' : InClass(i) /\ Key(i) = key}
                        = {i \in Registered : InClass(i) /\ Key(i) = key}
        /\ {i \in Registered' : InClass(i)} = {i \in Registered : InClass(i)}
        /\ {i \in Registered' : i.kind \in {"fn", "enum", "const"}}
               = {i \in Registered : i.kind \in {"fn", "enum", "const"}}
    BY <2>1, <2>3
  <2>5. ASSUME NEW key \in DOMAIN classes PROVE ClassOK(key)'
    BY <2>2, <2>4 DEF CrateInv, RuntimeInv, ClassOK, InClass, Key
  <2> QED BY <1>0, <2>2, <2>4, <2>5
          DEF CrateInv, RuntimeInv, InClass, Key, Exported
<1> QED BY <1>0, <1>3, <1>4, <1>5, <1>6

(* Every step keeps the invariant.                                         *)
LEMMA CrateStep ==
    ASSUME CrateInv, [CrateNext]_crateVars PROVE CrateInv'
<1>0. StageInv'
  BY StageKept DEF CrateInv
<1>1. CASE StartCrate
  <2>1. /\ stage = "idle" /\ crate = {} /\ stage' = "expands" /\ left' = crate'
        /\ UNCHANGED <<tables, index, runtime, loaded>>
    BY <1>1 DEF StartCrate, CrateInv, StageInv
  <2>2. /\ recorded' = recorded /\ names' = names /\ tasks' = tasks
        /\ lines' = lines /\ classes' = classes /\ callbacks' = callbacks
    BY <2>1 DEF tables, runtime
  <2>3. \A kinds, ident, name : ~Renames(kinds, ident, name)
    BY <2>1 DEF Renames
  <2>4. \A use : ~UseOK(use)
    BY <2>1 DEF UseOK
  <2>5. lines = {}
    BY <2>1 DEF CrateInv, LinesInv, Expanded
  <2>6. DOMAIN recorded = {} /\ DOMAIN names = {}
    BY <2>3 DEF CrateInv, TablesInv
  <2>7. \A x \in DOMAIN tasks : tasks[x] = {}
    BY <2>4 DEF CrateInv, TablesInv
  <2>8. TablesInv'
    BY <2>2, <2>5, <2>6, <2>7 DEF TablesInv
  <2>9. LinesInv'
    BY <2>1, <2>2, <2>5 DEF LinesInv, Expanded
  <2>10. Registered = {} /\ Registered' = {}
    BY <2>1 DEF Registered
  <2>11. DOMAIN classes = {} /\ callbacks = {}
    BY <2>10 DEF CrateInv, RuntimeInv
  <2>12. RuntimeInv'
    BY <2>2, <2>10, <2>11 DEF RuntimeInv
  <2>13. IndexInv' /\ LoadedInv'
    BY <2>1 DEF IndexInv, LoadedInv
  <2> QED BY <1>0, <2>8, <2>9, <2>12, <2>13 DEF CrateInv
<1>2. CASE NextCrate
  <2>1. TablesInv' /\ LinesInv' /\ IndexInv' /\ LoadedInv'
    BY <1>2 DEF NextCrate, NoTable, TablesInv, LinesInv, IndexInv, LoadedInv,
                Expanded
  <2>2. RuntimeInv'
    BY <1>2 DEF NextCrate, NoTable, RuntimeInv, Registered
  <2> QED BY <1>0, <2>1, <2>2 DEF CrateInv
<1>3. CASE Declare
  BY <1>0, <1>3, DeclareKeeps DEF CrateInv
<1>4. CASE RegisterModule
  <2>1. /\ stage = "links" /\ left = {} /\ stage' = "loaded" /\ left' = left
        /\ crate' = crate /\ lines' = lines /\ index' = index
        /\ recorded' = recorded /\ names' = names /\ tasks' = tasks
        /\ classes' = classes /\ callbacks' = callbacks
    BY <1>4 DEF RegisterModule, tables, runtime
  <2>2. TablesInv' /\ LinesInv'
    <3>1. Expanded' = Expanded
      BY <2>1 DEF Expanded
    <3> QED BY <2>1, <3>1, LinesStay DEF CrateInv
  <2>3. IndexInv'
    BY <2>1, IndexStays DEF CrateInv
  <2>4. RuntimeInv'
    <3>1. Registered' = Registered
      BY <2>1 DEF Registered
    <3>2. \A key \in DOMAIN classes : ClassOK(key)'
      BY <2>1, <3>1 DEF CrateInv, RuntimeInv, ClassOK
    <3> QED BY <2>1, <3>1, <3>2 DEF CrateInv, RuntimeInv
  <2>5. LoadedInv'
    BY <1>4, <2>1 DEF RegisterModule, LoadedInv, DefinedClasses, Constructors
  <2> QED BY <1>0, <2>2, <2>3, <2>4, <2>5 DEF CrateInv
<1>5. CASE UNCHANGED crateVars
  <2> USE <1>5 DEF crateVars, tables, runtime, loaded
  <2>1. TablesInv' /\ LinesInv'
    BY DEF CrateInv, TablesInv, LinesInv, Expanded, LineOK, UseOK, Renames
  <2>2. IndexInv'
    BY IndexStays DEF CrateInv
  <2>3. RuntimeInv'
    BY DEF CrateInv, RuntimeInv, ClassOK, Registered
  <2>4. LoadedInv'
    BY DEF CrateInv, LoadedInv, DefinedClasses, Constructors
  <2> QED BY <1>0, <2>1, <2>2, <2>3, <2>4 DEF CrateInv
<1>6. ASSUME NEW item \in left,
             \/ ExpandStruct(item) \/ ExpandEnum(item) \/ ExpandType(item)
             \/ ExpandConst(item) \/ ExpandFn(item)
             \/ ExpandImpl(item) \/ ExpandTask(item)
      PROVE  CrateInv'
  BY <1>0, <1>6, AllExpand, ExpandsKeeps DEF CrateInv
<1>7. ASSUME NEW item \in left,
             \/ RegisterStruct(item) \/ RegisterImpl(item) \/ RegisterFn(item)
             \/ RegisterEnum(item) \/ RegisterConst(item)
             \/ RegisterNothing(item)
      PROVE  CrateInv'
  BY <1>0, <1>7, RegisterKeeps, RunKeepsLines DEF CrateInv
<1> QED BY <1>1, <1>2, <1>3, <1>4, <1>5, <1>6, <1>7 DEF CrateNext

-----------------------------------------------------------------------------
(* IndexIsTrue, from the invariant                                         *)

(* The declaration of a type that is declared                              *)
LEMMA DeclarationIs ==
    ASSUME StageInv, NEW type, \E o \in crate : Declares(o, type)
    PROVE  Declaration(type) \in crate /\ Declares(Declaration(type), type)
BY DEF Declaration

(* A type is declared once.                                                *)
LEMMA DeclarationOf ==
    ASSUME StageInv, NEW o \in crate, o.kind \in Types
    PROVE  Declaration(o.of) = o
<1>1. Declares(o, o.of)
  BY DEF Declares
<1>2. Declaration(o.of) \in crate /\ Declares(Declaration(o.of), o.of)
  BY <1>1, DeclarationIs
<1> QED BY <1>2 DEF StageInv, Compiles

(* A type without a twin has its identifier and its name for itself.       *)
LEMMA Alone ==
    ASSUME StageInv, NEW o \in crate, o.kind \in Types, ~Twin(o.of),
           NEW other \in crate, other # o,
           \/ other.kind \in Types \/ other.kind = "const"
           \/ other.kind = "task" /\ other.of # o.of
    PROVE  /\ Ident(other.of) # Ident(o.of) /\ Ident(other.of) # o.js
           /\ other.js # Ident(o.of) /\ other.js # o.js
<1>1. Declaration(o.of) = o
  BY DeclarationOf
<1> QED BY <1>1 DEF Twin

(* A type is declared in index.d.ts, under the names it is used by.        *)
LEMMA TypeInIndex ==
    ASSUME CrateInv, NEW kept \in Kept, index = Made(kept),
           stage \in {"links", "loaded"},
           NEW o \in crate, o.kind \in Types, ~Twin(o.of)
    PROVE  \E line \in lines :
              /\ line.item = o /\ line.name = o.js
              /\ IF o.kind = "class" THEN PrettyPrint(line) \in index
                 ELSE Printed(line) \in index
<1>1. PICK line \in lines : line.item = o
  BY DEF CrateInv, LinesInv, Expanded
<1>2. line.name = o.js
  BY <1>1 DEF CrateInv, TablesInv, LineOK, Types
<1>3. CASE o.kind = "class"
  <2>1. line \in ClassLines
    BY <1>1, <1>3 DEF ClassLines
  <2>2. PICK k \in kept : k.name = line.name
    BY <2>1 DEF Kept
  <2>3. k \in lines /\ k.item.kind = "class"
    BY <2>2 DEF Kept, ClassLines
  <2>4. k.item \in crate /\ k.name = k.item.js
    BY <2>3 DEF CrateInv, TablesInv, LineOK
  <2>5. k.item.kind \in Types
    BY <2>3 DEF Types
  <2>6. k.item = o
    BY <1>2, <2>2, <2>4, <2>5, Alone DEF CrateInv
  <2>7. k = line
    BY <1>1, <2>3, <2>6 DEF CrateInv, LinesInv
  <2> QED BY <1>1, <1>2, <1>3, <2>2, <2>7 DEF Made
<1>4. CASE o.kind # "class"
  <2>1. o.kind \notin {"class", "impl", "task"}
    BY <1>4 DEF Types
  <2>2. Printed(line) \in Made(kept)
    BY <1>1, <2>1 DEF Made
  <2> QED BY <1>1, <1>2, <1>4, <2>2
<1> QED BY <1>3, <1>4

(* What a declaration of index.d.ts is made of                             *)
LEMMA DeclarationMade ==
    ASSUME CrateInv, NEW kept \in Kept, index = Made(kept), NEW d \in index
    PROVE  \E line \in lines :
              /\ d.item = line.item /\ line.item \in crate
              /\ line.name = line.item.js
              /\ \/ line.item.kind = "class" /\ d = PrettyPrint(line)
                 \/ /\ line.item.kind \notin {"class", "impl", "task"}
                    /\ d = Printed(line)
              /\ line.item.kind \notin {"impl", "task"}
              /\ d.names \subseteq {line.item.js, Ident(line.item.of)}
              /\ \A use \in d.uses : UseOK(use)
<1>1. CASE \E line \in kept : d = PrettyPrint(line)
  <2>1. PICK line \in kept : d = PrettyPrint(line)
    BY <1>1
  <2>2. line \in lines /\ line.item.kind = "class"
    BY DEF Kept, ClassLines
  <2>3. LineOK(line)
    BY <2>2 DEF CrateInv, TablesInv
  <2>4. \A impl \in ImplLines(line.name) : \A use \in impl.uses : UseOK(use)
    BY DEF CrateInv, TablesInv, LineOK, ImplLines
  <2>5. /\ d.item = line.item /\ d.names = {line.name, Ident(line.item.of)}
        /\ d.uses = line.uses \cup UNION {impl.uses :
                                          impl \in ImplLines(line.name)}
    BY <2>1 DEF PrettyPrint
  <2>6. \A use \in d.uses : UseOK(use)
    BY <2>3, <2>4, <2>5 DEF LineOK
  <2> QED BY <2>1, <2>2, <2>3, <2>5, <2>6 DEF LineOK
<1>2. CASE \E line \in {l \in lines :
                          l.item.kind \notin {"class", "impl", "task"}} :
               d = Printed(line)
  <2>1. PICK line \in lines :
              /\ d = Printed(line)
              /\ line.item.kind \notin {"class", "impl", "task"}
    BY <1>2
  <2>2. LineOK(line)
    BY DEF CrateInv, TablesInv
  <2>3. d.item = line.item /\ d.names = {line.name} /\ d.uses = line.uses
    BY <2>1 DEF Printed
  <2> QED BY <2>1, <2>2, <2>3 DEF LineOK
<1> QED BY <1>1, <1>2 DEF Made

(* Each name in a declaration is declared where it is used.                *)
LEMMA AllNamesResolve ==
    ASSUME CrateInv, stage = "loaded" PROVE NamesResolve
<1> SUFFICES ASSUME NEW d \in index, NEW use \in d.uses,
                    ~UsedEarly(use), ~Twin(use.type),
                    Inside(d.item.ns, use.type)
             PROVE  Resolves(d.item.ns, use.as, use.type)
  BY DEF NamesResolve
<1>1. PICK kept \in Kept : index = Made(kept)
  BY DEF CrateInv, IndexInv
<1>2. UseOK(use)
  BY <1>1, DeclarationMade
<1> DEFINE o == Declaration(use.type)
<1>3. o \in crate /\ o.kind \in Types /\ o.of = use.type
  BY <1>2, DeclarationIs DEF CrateInv, UseOK, Declares
<1>4. o.ns \in {d.item.ns, Top}
  BY DEF Inside
<1>5. use.as = Ident(use.type) \/ use.as = o.js
  <2>1. ASSUME NEW p \in crate, p.kind \in Types \cup {"const"},
               Ident(p.of) = Ident(use.type), p.js = use.as
        PROVE  use.as = o.js
    BY <1>3, <2>1, Alone DEF CrateInv
  <2> QED BY <1>2, <2>1 DEF UseOK, Renames
<1>6. o.kind # "class" => use.as = o.js
  BY <1>5 DEF UsedEarly
<1> HIDE DEF o
<1>7. \E e \in index : /\ e.item = o /\ use.as \in e.names
  <2>1. PICK line \in lines :
              /\ line.item = o /\ line.name = o.js
              /\ IF o.kind = "class" THEN PrettyPrint(line) \in index
                 ELSE Printed(line) \in index
    BY <1>1, <1>3, TypeInIndex
  <2>2. CASE o.kind = "class"
    <3>1. /\ PrettyPrint(line).item = o
          /\ PrettyPrint(line).names = {o.js, Ident(o.of)}
      BY <2>1 DEF PrettyPrint
    <3> QED BY <1>3, <1>5, <2>1, <2>2, <3>1
  <2>3. CASE o.kind # "class"
    <3>1. Printed(line).item = o /\ Printed(line).names = {o.js}
      BY <2>1 DEF Printed
    <3> QED BY <1>6, <2>1, <2>3, <3>1
  <2> QED BY <2>2, <2>3
<1>8. ASSUME NEW e \in index, e.item.kind \in Types, use.as \in e.names
      PROVE  e.item = o
  <2>1. e.item \in crate /\ e.names \subseteq {e.item.js, Ident(e.item.of)}
    BY <1>1, DeclarationMade
  <2> QED BY <1>3, <1>5, <1>8, <2>1, Alone DEF CrateInv
<1>9. PICK e \in index : e.item = o /\ use.as \in e.names
  BY <1>7
<1> DEFINE at(where) == {f \in index : /\ f.item.kind \in Types
                                      /\ f.item.ns = where
                                      /\ use.as \in f.names}
<1>10. e \in at(o.ns) /\ e.item.of = use.type
  BY <1>3, <1>9
<1>11. at(d.item.ns) # {} => o.ns = d.item.ns
  BY <1>8
<1>12. e \in IF at(d.item.ns) # {} THEN at(d.item.ns) ELSE at(Top)
  BY <1>4, <1>10, <1>11
<1> QED BY <1>10, <1>12 DEF Resolves

(* The impls of a class that is implemented by its name, in its namespace  *)
Whole(o) ==
    /\ o \in crate /\ o.kind = "class"
    /\ ~ImplementedApart(o.of) /\ ~Twin(o.of)

(* What has the line of an impl with the name of a class implements it.    *)
LEMMA ImplIsOfClass ==
    ASSUME CrateInv, NEW o, Whole(o), NEW line \in ImplLines(o.js)
    PROVE  line.item.of = o.of
<1> DEFINE i == line.item
<1>0. o \in crate /\ o.kind \in Types /\ ~Twin(o.of)
  BY DEF Whole, Types
<1>1. line.name = o.js /\ i.kind \in {"impl", "task"} /\ LineOK(line)
  BY DEF ImplLines, CrateInv, TablesInv
<1>2. i \in crate
  BY <1>1 DEF LineOK
<1>3. Ident(i.of) \in {Ident(o.of), o.js}
  <2>1. ASSUME NEW p \in crate, p.kind \in {"class", "shape"},
               Ident(p.of) = Ident(i.of), p.js = line.name
        PROVE  Ident(i.of) = Ident(o.of)
    <3>1. p.kind \in Types
      BY <2>1 DEF Types
    <3>2. p = o
      BY <1>0, <1>1, <2>1, <3>1, Alone DEF CrateInv
    <3> QED BY <2>1, <3>2
  <2> QED BY <1>1, <2>1 DEF LineOK, Renames
<1>4. CASE i.kind = "impl"
  <2>1. PICK q \in crate : Declares(q, i.of)
    BY <1>2, <1>4 DEF CrateInv, StageInv, Compiles
  <2>2. q.kind \in Types /\ q.of = i.of
    BY <2>1 DEF Declares
  <2>3. q = o
    BY <1>0, <1>3, <2>2, Alone DEF CrateInv
  <2> QED BY <2>2, <2>3
<1>5. CASE i.kind = "task"
  <2>1. i # o
    BY <1>0, <1>5 DEF Types
  <2> QED BY <1>0, <1>2, <1>3, <1>5, <2>1, Alone DEF CrateInv
<1> QED BY <1>1, <1>4, <1>5

(* All that is registered for the type of a class is of one class.         *)
LEMMA ClassOfType ==
    ASSUME CrateInv, stage = "loaded", NEW o, Whole(o),
           NEW i \in crate, InClass(i), i.of = o.of, i # o
    PROVE  /\ Key(i) = Key(o)
           /\ \E line \in ImplLines(o.js) : line.item = i
<1>0. o \in crate /\ o.kind \in Types /\ ~ImplementedApart(o.of)
  BY DEF Whole, Types
<1>1. Declaration(o.of) = o
  BY <1>0, DeclarationOf DEF CrateInv
<1>2. i.kind \in {"impl", "task"}
  <2>1. i.kind # "class"
    BY <1>0, <1>1, DeclarationOf DEF CrateInv, Types
  <2> QED BY <2>1 DEF InClass
<1>3. PICK line \in lines : line.item = i
  BY DEF CrateInv, LinesInv, Expanded
<1>4. line.name = o.js /\ i.ns = o.ns
  BY <1>0, <1>1, <1>2, <1>3 DEF ImplementedApart
<1> QED BY <1>2, <1>3, <1>4 DEF ImplLines, Key

(* A class that is whole has its name and all of its members.              *)
LEMMA WholeClass ==
    ASSUME CrateInv, stage = "loaded", NEW o, Whole(o)
    PROVE  /\ Key(o) \in DOMAIN classes
           /\ classes[Key(o)].js = o.js
           /\ classes[Key(o)].members \ {o}
                  = {line.item : line \in ImplLines(o.js)}
           /\ ctors[o.js] = Key(o)
<1>0. o \in crate /\ o.kind \in Types /\ ~Twin(o.of) /\ InClass(o)
  BY DEF Whole, Types, InClass
<1>1. Registered = crate
  BY DEF Registered, CrateInv, LoadedInv
<1>2. Key(o) \in DOMAIN classes /\ ClassOK(Key(o))
  BY <1>0, <1>1 DEF CrateInv, RuntimeInv
<1>3. classes[Key(o)].members
          = {i \in crate : InClass(i) /\ Key(i) = Key(o)}
  BY <1>1, <1>2 DEF ClassOK
<1>4. ASSUME NEW line \in ImplLines(o.js)
      PROVE  /\ line.item \in crate /\ InClass(line.item) /\ line.item # o
             /\ line.item.of = o.of
  BY <1>0, <1>4, ImplIsOfClass
     DEF ImplLines, CrateInv, TablesInv, LineOK, InClass, Types
<1>5. classes[Key(o)].members \ {o} = {line.item : line \in ImplLines(o.js)}
  <2>1. ASSUME NEW i \in classes[Key(o)].members, i # o
        PROVE  \E line \in ImplLines(o.js) : line.item = i
    BY <1>3, <2>1, ClassOfType DEF Key
  <2>2. ASSUME NEW line \in ImplLines(o.js)
        PROVE  line.item \in classes[Key(o)].members
    BY <1>3, <1>4, ClassOfType
  <2> QED BY <1>4, <2>1, <2>2
<1>6. ASSUME NEW line \in lines, InClass(line.item), line.name = o.js
      PROVE  Key(line.item) = Key(o)
  <2>1. LineOK(line)
    BY DEF CrateInv, TablesInv
  <2>2. CASE line.item.kind = "class"
    <3>1. line.item \in crate /\ line.item.js = o.js
      BY <1>6, <2>1, <2>2 DEF LineOK
    <3>2. line.item.kind \in Types
      BY <2>2 DEF Types
    <3> QED BY <1>0, <3>1, <3>2, Alone DEF CrateInv
  <2>3. CASE line.item.kind \in {"impl", "task"}
    <3>1. line \in ImplLines(o.js)
      BY <1>6, <2>3 DEF ImplLines
    <3> QED BY <1>4, <3>1, ClassOfType
  <2> QED BY <1>6, <2>2, <2>3 DEF InClass
<1>7. classes[Key(o)].js = o.js
  <2>1. PICK line \in lines : /\ line.item \in classes[Key(o)].members
                              /\ line.name = classes[Key(o)].js
    BY <1>2 DEF ClassOK
  <2>2. CASE line.item = o
    BY <1>0, <2>1, <2>2 DEF CrateInv, TablesInv, LineOK, Types
  <2>3. CASE line.item # o
    <3>1. line.item \in crate /\ InClass(line.item) /\ line.item.of = o.of
      BY <1>3, <2>1 DEF Key
    <3>2. PICK l \in ImplLines(o.js) : l.item = line.item
      BY <2>3, <3>1, ClassOfType
    <3>3. l \in lines /\ l.name = o.js
      BY DEF ImplLines
    <3> QED BY <2>1, <3>2, <3>3 DEF CrateInv, LinesInv
  <2> QED BY <2>2, <2>3
<1>8. ctors[o.js] = Key(o)
  <2> DEFINE key == ctors[o.js]
             all == {classes[k].js : k \in DOMAIN classes}
  <2>0. ctors \in Constructors
    BY DEF CrateInv, LoadedInv
  <2>1. o.js \in all
    BY <1>2, <1>7
  <2>2. key \in DOMAIN classes /\ classes[key].js = o.js
    BY <2>0, <2>1 DEF Constructors
  <2> HIDE DEF key
  <2>3. ClassOK(key)
    BY <2>2 DEF CrateInv, RuntimeInv
  <2>4. PICK line \in lines : /\ line.item \in classes[key].members
                              /\ line.name = o.js
    BY <2>2, <2>3 DEF ClassOK
  <2>5. InClass(line.item) /\ Key(line.item) = key
    BY <2>3, <2>4 DEF ClassOK
  <2> QED BY <1>6, <2>4, <2>5 DEF key
<1> QED BY <1>2, <1>5, <1>7, <1>8

(* The declaration and the export of a class that is whole are the same.   *)
LEMMA WholeIsSame ==
    ASSUME CrateInv, stage = "loaded", NEW o, Whole(o),
           NEW d, NEW line \in lines, line.item = o, d = PrettyPrint(line),
           NEW e, e = [ns |-> o.ns, of |-> o.of, name |-> classes[Key(o)].js,
                       members |-> classes[Key(o)].members]
    PROVE  Same(d, e)
<1>1. line.name = o.js
  BY DEF Whole, CrateInv, TablesInv, LineOK
<1>2. /\ e.ns = o.ns /\ e.of = o.of /\ e.name = o.js
      /\ e.members = classes[Key(o)].members
  BY WholeClass
<1>3. d.item = o /\ d.members = {l.item : l \in ImplLines(o.js)}
  BY <1>1 DEF PrettyPrint
<1> QED BY <1>2, <1>3, WholeClass DEF Same, Key

(* A function, an enum or a const is registered as it is declared.         *)
LEMMA PrintedIsSame ==
    ASSUME NEW line, line.name = line.item.js,
           line.item.kind \in {"fn", "enum", "const"},
           ~RenamedConst(line.item)
    PROVE  Same(Printed(line), Exported(line.item))
<1> DEFINE d == Printed(line)
           e == Exported(line.item)
<1>1. d.item = line.item /\ d.members = {}
  BY DEF Printed
<1>2. /\ e.of = line.item.of /\ e.ns = line.item.ns /\ e.members = {}
      /\ e.name = IF line.item.kind = "const" THEN Ident(line.item.of)
                  ELSE line.item.js
  BY DEF Exported
<1> HIDE DEF d, e
<1>3. Same(d, e)
  BY <1>1, <1>2 DEF Same, RenamedConst
<1> QED BY <1>3 DEF d, e

(* What is declared is exported.                                           *)
LEMMA AllDeclaredAreExported ==
    ASSUME CrateInv, stage = "loaded" PROVE DeclaredAreExported
<1> SUFFICES ASSUME NEW d \in index, d.item.kind \notin {"shape", "alias"},
                    ~RenamedConst(d.item),
                    ~(/\ d.item.kind = "class"
                      /\ ImplementedApart(d.item.of) \/ Twin(d.item.of))
             PROVE  \E e \in exports : Same(d, e)
  BY DEF DeclaredAreExported
<1>1. PICK kept \in Kept : index = Made(kept)
  BY DEF CrateInv, IndexInv
<1>2. PICK line \in lines :
              /\ d.item = line.item /\ line.item \in crate
              /\ line.name = line.item.js
              /\ \/ line.item.kind = "class" /\ d = PrettyPrint(line)
                 \/ /\ line.item.kind \notin {"class", "impl", "task"}
                    /\ d = Printed(line)
              /\ line.item.kind \notin {"impl", "task"}
              /\ d.names \subseteq {line.item.js, Ident(line.item.of)}
              /\ \A use \in d.uses : UseOK(use)
  BY <1>1, DeclarationMade
<1> DEFINE o == line.item
<1>3. CASE o.kind = "class"
  <2>1. Whole(o)
    BY <1>2, <1>3 DEF Whole
  <2>2. Key(o) \in DOMAIN classes
    BY <2>1, WholeClass
  <2> DEFINE e == [ns |-> o.ns, of |-> o.of, name |-> classes[Key(o)].js,
                   members |-> classes[Key(o)].members]
  <2>3. e \in DefinedClasses
    <3>1. Key(o)[1] = o.of /\ Key(o)[2] = o.ns
      BY DEF Key
    <3> DEFINE key == Key(o)
    <3>2. key \in DOMAIN classes /\ key[1] = o.of /\ key[2] = o.ns
      BY <2>2, <3>1
    <3>3. e = [ns |-> key[2], of |-> key[1], name |-> classes[key].js,
               members |-> classes[key].members]
      BY <3>2
    <3> HIDE DEF key, e
    <3> QED BY <3>2, <3>3 DEF DefinedClasses
  <2>4. Same(d, e)
    BY <1>2, <1>3, <2>1, WholeIsSame
  <2> QED BY <2>3, <2>4 DEF CrateInv, LoadedInv
<1>4. CASE o.kind # "class"
  <2>1. o.kind \in Kinds
    BY <1>2, ItemsAssumption DEF CrateInv, StageInv
  <2>2. o.kind \in {"fn", "enum", "const"}
    BY <1>2, <1>4, <2>1 DEF Kinds
  <2>3. o \in Registered
    BY <1>2 DEF Registered, CrateInv, LoadedInv
  <2>4. Exported(o) \in callbacks
    BY <2>2, <2>3 DEF CrateInv, RuntimeInv
  <2>5. Same(d, Exported(o))
    BY <1>2, <1>4, <2>2, PrintedIsSame
  <2> QED BY <2>4, <2>5 DEF CrateInv, LoadedInv
<1> QED BY <1>3, <1>4

(* What is exported is declared.                                           *)
LEMMA AllExportedAreDeclared ==
    ASSUME CrateInv, stage = "loaded" PROVE ExportedAreDeclared
<1>0. PICK kept \in Kept : index = Made(kept)
  BY DEF CrateInv, IndexInv
<1>1. Registered = crate
  BY DEF Registered, CrateInv, LoadedInv
<1> SUFFICES ASSUME NEW e \in exports,
                    ~IsTask(e.of), ~NoClass(e.of),
                    \A item \in crate : item.of = e.of => ~RenamedConst(item),
                    \A item \in crate :
                        item.kind = "class" /\ item.of = e.of =>
                            ~ImplementedApart(e.of) /\ ~Twin(e.of)
             PROVE  \E d \in index : Same(d, e)
  BY DEF ExportedAreDeclared
<1>2. CASE e \in callbacks
  <2>1. PICK item \in crate : /\ item.kind \in {"fn", "enum", "const"}
                              /\ e = Exported(item)
    BY <1>1, <1>2 DEF CrateInv, RuntimeInv
  <2>2. PICK line \in lines : line.item = item
    BY DEF CrateInv, LinesInv, Expanded
  <2>3. line.name = item.js
    BY <2>1, <2>2 DEF CrateInv, TablesInv, LineOK
  <2>4. e.of = item.of
    BY <2>1 DEF Exported
  <2>5. Same(Printed(line), e)
    BY <2>1, <2>2, <2>3, <2>4, PrintedIsSame
  <2>6. Printed(line) \in index
    BY <1>0, <2>1, <2>2 DEF Made
  <2> QED BY <2>5, <2>6
<1>3. CASE e \in DefinedClasses
  <2>1. PICK key \in DOMAIN classes :
              e = [ns |-> key[2], of |-> key[1], name |-> classes[key].js,
                   members |-> classes[key].members]
    BY <1>3 DEF DefinedClasses
  <2>2. PICK i \in crate : InClass(i) /\ key = Key(i)
    BY <1>1 DEF CrateInv, RuntimeInv
  <2>3. e.of = i.of
    BY <2>1, <2>2 DEF Key
  <2>4. i.kind # "task"
    BY <2>3 DEF IsTask
  <2>5. \E o \in crate : o.kind = "class" /\ o.of = i.of
    <3>1. CASE i.kind = "class"
      BY <3>1
    <3>2. CASE i.kind = "impl"
      <4>1. Declaration(e.of).kind = "class"
        BY <2>3, <3>2 DEF NoClass
      <4>2. \E o \in crate : Declares(o, i.of)
        BY <3>2 DEF CrateInv, StageInv, Compiles
      <4>3. Declaration(i.of) \in crate /\ Declares(Declaration(i.of), i.of)
        BY <4>2, DeclarationIs DEF CrateInv
      <4> QED BY <2>3, <4>1, <4>3 DEF Declares
    <3> QED BY <2>2, <2>4, <3>1, <3>2 DEF InClass
  <2>6. PICK o \in crate : o.kind = "class" /\ o.of = i.of
    BY <2>5
  <2>7. Whole(o)
    BY <2>3, <2>6 DEF Whole
  <2>8. o.kind \in Types
    BY <2>6 DEF Types
  <2>9. PICK line \in lines : line.item = o /\ PrettyPrint(line) \in index
    BY <1>0, <2>6, <2>7, <2>8, TypeInIndex DEF Whole
  <2>10. key = Key(o)
    BY <2>2, <2>6, <2>7, ClassOfType
  <2>11. e = [ns |-> o.ns, of |-> o.of, name |-> classes[Key(o)].js,
              members |-> classes[Key(o)].members]
    BY <2>1, <2>10 DEF Key
  <2>12. Same(PrettyPrint(line), e)
    BY <2>7, <2>9, <2>11, WholeIsSame
  <2> QED BY <2>9, <2>12
<1> QED BY <1>2, <1>3 DEF CrateInv, LoadedInv

(* For any crate and any order in which its items are expanded, linked and *)
(* registered, index.d.ts declares what the module exports, but for the    *)
(* collisions and the late names that IndexIsTrue excepts.                 *)
THEOREM CratesAreDeclared == CrateSpec => []IndexIsTrue
<1>1. CrateInit => CrateInv
  BY InitIsEmpty
<1>2. CrateInv /\ [CrateNext]_crateVars => CrateInv'
  BY CrateStep
<1>3. CrateInv => IndexIsTrue
  BY AllNamesResolve, AllDeclaredAreExported, AllExportedAreDeclared
     DEF IndexIsTrue
<1> QED BY <1>1, <1>2, <1>3, PTL DEF CrateSpec

=============================================================================
