----------------------------- MODULE MCOhrsBuild -----------------------------
(* Two members of a workspace, one of which uses the other, with a crate   *)
(* that both use, built in turn by a few kinds of command lines, and       *)
(* libraries for the resolution.                                           *)
EXTENDS OhrsBuild, RuntimeLibraries, CrateExports, TLC

CONSTANTS pkg1, pkg2, shared, arm64, x64, lib1, lib2, lib3

MCPackages == <<pkg1, pkg2>>
MCUses == pkg1 :> {pkg2, shared} @@ pkg2 :> {shared} @@ shared :> {}
MCArchs == <<arm64, x64>>

Build(dir, only, on, variant) ==
    [tool |-> "build", dir |-> dir, only |-> only, archs |-> on,
     variant |-> variant, atomic |-> FALSE, skipLibs |-> FALSE]

(* All of the workspace and one package from its root, a package in its    *)
(* own directory for one architecture and for both, another variant, with  *)
(* libatomic, without libraries, and ohrs cargo from the root, and for a   *)
(* package in the directory of the other one.                              *)
MCCommands ==
    {Build(Root, None, {arm64}, "debug"),
     Build(Root, pkg2, {arm64}, "debug"),
     Build(pkg2, None, {arm64, x64}, "debug"),
     Build(pkg2, None, {arm64}, "release"),
     [Build(pkg2, None, {arm64}, "debug") EXCEPT !.skipLibs = TRUE],
     [Build(pkg1, None, {arm64}, "debug") EXCEPT !.atomic = TRUE],
     [Build(pkg1, pkg2, {arm64}, "debug") EXCEPT !.tool = "cargo"],
     [Build(Root, None, {arm64}, "debug") EXCEPT !.tool = "cargo"]}

(* Items of a crate: a class in two namespaces; a class, a struct, an      *)
(* enum, an alias and a const that are renamed; functions that use them in *)
(* a namespace and outside it; a task; impls with and without constructor. *)
Session == <<Top, "Session">>
NetSession == <<"net", "Session">>
Peer == <<Top, "Peer">>
Config == <<Top, "Config">>
Flags == <<"net", "Flags">>
Mode == <<Top, "Mode">>
Level == <<Top, "Level">>
Fetch == <<Top, "Fetch">>

Item(kind, of, js) ==
    [kind |-> kind, of |-> of, ns |-> of[1], js |-> js, uses |-> {},
     runs |-> {}, ctor |-> FALSE]

Fn(ns, name, used) == [Item("fn", <<ns, name>>, name) EXCEPT !.uses = used]
Impl(of, used, ctor) ==
    [Item("impl", of, Ident(of)) EXCEPT !.uses = used, !.ctor = ctor]

MCItems ==
    {Item("class", Session, "Session"),
     Item("class", NetSession, "Session"),
     Item("class", Peer, "Node"),
     Item("shape", Config, "Options"),
     Item("shape", Flags, "Flags"),
     Item("enum", Mode, "OpenMode"),
     Item("const", <<Top, "LIMIT">>, "MAX"),
     Fn(Top, "open", {Config, Mode, Peer}),
     Fn("net", "connect", {NetSession, Flags, Peer}),
     Item("alias", Level, "Depth"),
     Fn(Top, "flags", {Flags, Session, Level}),
     [Fn(Top, "fetch", {}) EXCEPT !.runs = {Fetch}],
     [Item("task", Fetch, "Fetch") EXCEPT !.uses = {Config}],
     Impl(Peer, {}, TRUE),
     Impl(Peer, {Config}, FALSE),
     Impl(Session, {Peer}, FALSE),
     Impl(NetSession, {}, TRUE)}

(* The resolution of libraries and the items of a crate read nothing of    *)
(* what builds leave behind: they are looked at before the first one.      *)
MCInit == Init /\ ResolveInit /\ CrateInit

FirstBuild ==
    /\ cmd = None /\ \A u \in Units : built[u] = None
    /\ \A x \in DOMAIN types : types[x] = None
    /\ archive = "none"

MCNext ==
    \/ /\ scan = "idle" /\ stage = "idle"
       /\ Next
       /\ UNCHANGED <<resolution, crateVars>>
    \/ /\ FirstBuild /\ stage = "idle"
       /\ ResolveNext
       /\ UNCHANGED <<vars, crateVars>>
    \/ /\ FirstBuild /\ scan = "idle"
       /\ CrateNext
       /\ UNCHANGED <<vars, resolution>>

MCSpec == MCInit /\ [][MCNext]_<<vars, resolution, crateVars>>

=============================================================================
