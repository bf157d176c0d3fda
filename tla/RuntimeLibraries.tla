-------------------------- MODULE RuntimeLibraries --------------------------
(***************************************************************************)
(* cargo-ohrs copies the shared libraries that a build needs at run time   *)
(* next to it (resolve_runtime_libraries): what the ELF files need, found  *)
(* in the directories of the build or of the compiler, and again what      *)
(* those need, up to the libraries that every device has.                  *)
(***************************************************************************)
EXTENDS FiniteSets

CONSTANTS
    Libraries,   \* sonames
    Artifacts    \* the libraries that cargo built for the package

ASSUME ArtifactsAreLibraries == Artifacts \subseteq Libraries

VARIABLES
    graph,    \* what each library needs and where it is found
    scan,     \* "idle", or whether the resolution "runs", "ends" or "fails"
    pending,  \* the files that are still to be scanned
    handled   \* the sonames looked for

resolution == <<graph, scan, pending, handled>>

(* Where a file of that name is found: next to the requester, along the    *)
(* search paths of the build or among the compiler's runtime libraries, or *)
(* in the system's directories.                                            *)
Places == {"build", "system"}

Graphs == [needs : [Libraries -> SUBSET Libraries],
           at : [Libraries -> SUBSET Places]]

NoGraph == [needs |-> [lib \in Libraries |-> {}],
            at |-> [lib \in Libraries |-> {}]]

Copied(lib) == "build" \in graph.at[lib]
Missing(lib) == graph.at[lib] = {}

ResolveInit ==
    /\ graph = NoGraph
    /\ scan = "idle"
    /\ pending = {} /\ handled = {}

StartResolve ==
    /\ scan = "idle"
    /\ graph' \in Graphs
    /\ scan' = "runs"
    /\ pending' = Artifacts
    /\ UNCHANGED handled

(* Not like the code: what was copied is not scanned itself.               *)
ScanFile_ArtifactsOnly(file) ==
    /\ scan = "runs" /\ file \in pending
    /\ LET new == graph.needs[file] \ handled
       IN /\ handled' = handled \cup new
          /\ IF \E lib \in new : Missing(lib)
             THEN scan' = "fails" /\ UNCHANGED pending
             ELSE pending' = pending \ {file} /\ UNCHANGED scan
    /\ UNCHANGED graph

(* A file off the queue; its order is that of the directories it was read  *)
(* from.  A soname that was handled is not looked for again, whoever needs *)
(* it; what is found in the build goes on the queue.                       *)
ScanFile(file) ==
    /\ scan = "runs" /\ file \in pending
    /\ LET new == graph.needs[file] \ handled
       IN /\ handled' = handled \cup new
          /\ IF \E lib \in new : Missing(lib)
             THEN scan' = "fails" /\ UNCHANGED pending
             ELSE /\ pending' = (pending \ {file})
                                    \cup {lib \in new : Copied(lib)}
                  /\ UNCHANGED scan
    /\ UNCHANGED graph

QueueIsEmpty ==
    /\ scan = "runs" /\ pending = {}
    /\ scan' = "ends"
    /\ UNCHANGED <<graph, pending, handled>>

(* The libraries are copied, or the build gives up.                        *)
Resolved ==
    /\ scan \in {"ends", "fails"}
    /\ graph' = NoGraph
    /\ scan' = "idle"
    /\ pending' = {} /\ handled' = {}

ResolveNext ==
    \/ StartResolve \/ QueueIsEmpty \/ Resolved
    \/ \E file \in Libraries : ScanFile(file)

ResolveSpec == ResolveInit /\ [][ResolveNext]_resolution

-----------------------------------------------------------------------------
(* What is needed at run time: by an artifact, or by a library that is     *)
(* copied.  A library of the system brings its own.                        *)
Closed(libs) ==
    \A lib \in Artifacts \cup {l \in libs : Copied(l)} :
        graph.needs[lib] \subseteq libs

Needed ==
    {lib \in Libraries :
        \A libs \in SUBSET Libraries : Closed(libs) => lib \in libs}

(* The build copies exactly the libraries that are needed and that the     *)
(* build or the compiler has, and fails exactly when one of them is        *)
(* nowhere, in whichever order files are scanned: cycles, diamonds and     *)
(* shadowed libraries included ("Resolve the runtime closure from the      *)
(* final ELF artifacts").                                                  *)
ResolvesClosure ==
    /\ scan = "ends" =>
          /\ \A lib \in Needed : ~Missing(lib)
          /\ {l \in handled : Copied(l)} = {l \in Needed : Copied(l)}
    /\ scan = "fails" => \E lib \in Needed : Missing(lib)

=============================================================================
