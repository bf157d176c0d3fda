---------------------------- MODULE CrateExports ----------------------------
(***************************************************************************)
(* What a crate exports, and what its index.d.ts says that it exports.     *)
(* #[napi] is expanded item by item, in an order that the compiler chooses *)
(* among files and modules, over tables that are keyed by the identifiers  *)
(* of Rust: what an item is called in a declaration depends on what was    *)
(* expanded before it.  Each expansion appends a line to the types file,   *)
(* from which ohrs makes index.d.ts, and leaves a constructor function     *)
(* that registers the item when the library is loaded, in the order of the *)
(* linker.                                                                 *)
(***************************************************************************)
EXTENDS Naturals, FiniteSets

CONSTANTS
    Items,     \* the #[napi] items that a crate may have
    MaxItems,  \* of them it has at most that many
    Top        \* the namespace of what is in no #[napi] mod

(* A type is known by the module it is in and its identifier.  kind: a     *)
(* class, a struct that is no class, an enum, an alias, a const, a         *)
(* function, an impl block or an impl of Task; of: the type that is        *)
(* declared or implemented; ns: its namespace; js: its JavaScript name;    *)
(* uses: the types in its signature, or of Output; runs: the tasks whose   *)
(* AsyncTask a function returns; ctor: an impl with a constructor or a     *)
(* factory.                                                                *)
Kinds == {"class", "shape", "enum", "alias", "const", "fn", "impl", "task"}
Types == {"class", "shape", "enum", "alias"}
ASSUME ItemsAssumption ==
    \A item \in Items :
        /\ DOMAIN item = {"kind", "of", "ns", "js", "uses", "runs", "ctor"}
        /\ item.kind \in Kinds
        /\ item.ctor => item.kind = "impl"

Ident(type) == type[2]
Declares(item, type) == item.kind \in Types /\ item.of = type

(* What the compiler takes: a type is declared once, and the types that    *)
(* are used are #[napi] items.                                             *)
Compiles(items) ==
    \A item \in items :
        /\ \A other \in items :
              item.kind \in Types /\ Declares(other, item.of) => other = item
        /\ \A type \in item.uses : \E other \in items : Declares(other, type)
        /\ item.kind = "impl" => \E other \in items : Declares(other, item.of)
        /\ \A task \in item.runs :
              \E other \in items : other.kind = "task" /\ other.of = task

Sources == {items \in SUBSET Items :
              items # {} /\ Cardinality(items) <= MaxItems /\ Compiles(items)}

VARIABLES
    crate,     \* its items
    stage,     \* "idle", "expands", "fails", "links" or "loaded"
    left,      \* the items that are not expanded, or not registered, yet
    recorded,  \* STRUCTS: identifier -> JavaScript name
    names,     \* CLASS_STRUCTS and ALIAS: identifier -> JavaScript name
    tasks,     \* TASK_STRUCTS: identifier -> the names in Output
    lines,     \* the file of types
    index,     \* the declarations of index.d.ts
    classes,   \* MODULE_CLASS_PROPERTIES: by type and namespace
    callbacks, \* MODULE_REGISTER_CALLBACK
    exports,   \* the properties of the module's objects
    ctors      \* REGISTERED_CLASSES: by JavaScript name

tables == <<recorded, names, tasks, lines>>
runtime == <<classes, callbacks>>
loaded == <<exports, ctors>>
crateVars == <<crate, stage, left, tables, index, runtime, loaded>>

NoTable == [x \in {} |-> x]

CrateInit ==
    /\ crate = {} /\ stage = "idle" /\ left = {}
    /\ recorded = NoTable /\ names = NoTable /\ tasks = NoTable
    /\ lines = {} /\ index = {}
    /\ classes = NoTable /\ callbacks = {}
    /\ exports = {} /\ ctors = NoTable

StartCrate ==
    /\ stage = "idle"
    /\ crate' \in Sources
    /\ stage' = "expands" /\ left' = crate'
    /\ UNCHANGED <<tables, index, runtime, loaded>>

-----------------------------------------------------------------------------
Set(table, key, value) ==
    [k \in DOMAIN table \cup {key} |-> IF k = key THEN value ELSE table[k]]

(* The name of a type in a declaration: handle_type_path                   *)
Written(type) ==
    [type |-> type,
     as |-> IF Ident(type) \in DOMAIN names' THEN names'[Ident(type)]
            ELSE Ident(type)]

WrittenUses(item) == {Written(type) : type \in item.uses}

(* Promise<unknown> if the task is not known (yet)                         *)
TaskUses(item) ==
    UNION {IF Ident(task) \in DOMAIN tasks THEN tasks[Ident(task)] ELSE {} :
               task \in item.runs}

Line(item, name) ==
    lines' = lines \cup
        {[item |-> item, name |-> name,
          uses |-> WrittenUses(item) \cup TaskUses(item)]}

(* check_recorded_struct_for_impl, or the name by default                  *)
ImplName(item) ==
    IF Ident(item.of) \in DOMAIN recorded THEN recorded[Ident(item.of)]
    ELSE Ident(item.of)

Expand(item) ==
    /\ stage = "expands" /\ item \in left
    /\ left' = left \ {item}
    /\ UNCHANGED <<crate, index, runtime, loaded>>

(* record_struct: impls that are expanded later learn the name.            *)
Record(item) == recorded' = Set(recorded, Ident(item.of), item.js)

(* add_alias: what is expanded later uses the name.                        *)
NameAndLine(item) ==
    /\ names' = Set(names, Ident(item.of), item.js)
    /\ Line(item, item.js)
    /\ UNCHANGED <<stage, tasks>>

ExpandStruct(item) ==
    /\ Expand(item)
    /\ item.kind \in {"class", "shape"}
    /\ Record(item)
    /\ NameAndLine(item)

ExpandEnum(item) ==
    /\ Expand(item)
    /\ item.kind = "enum"
    /\ UNCHANGED recorded
    /\ NameAndLine(item)

ExpandType(item) ==
    /\ Expand(item)
    /\ item.kind = "alias"
    /\ UNCHANGED recorded
    /\ NameAndLine(item)

ExpandConst(item) ==
    /\ Expand(item)
    /\ item.kind = "const"
    /\ UNCHANGED recorded
    /\ NameAndLine(item)

ExpandFn(item) ==
    /\ Expand(item)
    /\ item.kind = "fn"
    /\ UNCHANGED <<stage, recorded, names, tasks>>
    /\ Line(item, item.js)

ExpandImpl(item) ==
    /\ Expand(item)
    /\ item.kind = "impl"
    /\ UNCHANGED <<recorded, names, tasks>>
    /\ IF item.ctor /\ Ident(item.of) \notin DOMAIN recorded
       THEN stage' = "fails" /\ UNCHANGED lines
       ELSE Line(item, ImplName(item)) /\ UNCHANGED stage

ExpandTask(item) ==
    /\ Expand(item)
    /\ item.kind = "task"
    /\ UNCHANGED <<stage, recorded, names>>
    /\ tasks' = Set(tasks, Ident(item.of), WrittenUses(item))
    /\ lines' = lines \cup
           {[item |-> item, name |-> ImplName(item), uses |-> {}]}

-----------------------------------------------------------------------------
(* preprocess_type_def: classes by name, whatever their namespace, one of  *)
(* which stays; impls are added to the class of that name, or dropped.     *)
ClassLines == {line \in lines : line.item.kind = "class"}
ImplLines(name) ==
    {line \in lines : line.item.kind \in {"impl", "task"} /\ line.name = name}

Kept == {kept \in SUBSET ClassLines :
            /\ \A line \in ClassLines : \E k \in kept : k.name = line.name
            /\ \A k1, k2 \in kept : k1.name = k2.name => k1 = k2}

Printed(line) ==
    [item |-> line.item, names |-> {line.name}, uses |-> line.uses,
     members |-> {}]

(* Not like pretty_print: no other name for a class that is renamed.       *)
PrettyPrint_OneName(line) ==
    LET impls == ImplLines(line.name)
    IN [item |-> line.item, names |-> {line.name},
        uses |-> line.uses \cup UNION {impl.uses : impl \in impls},
        members |-> {impl.item : impl \in impls}]

(* A class with the lines of its impls, and a type of its Rust name        *)
PrettyPrint(line) ==
    LET impls == ImplLines(line.name)
    IN [item |-> line.item, names |-> {line.name, Ident(line.item.of)},
        uses |-> line.uses \cup UNION {impl.uses : impl \in impls},
        members |-> {impl.item : impl \in impls}]

(* ohrs writes index.d.ts and the library is linked.                       *)
Declare ==
    /\ stage = "expands" /\ left = {}
    /\ \E kept \in Kept :
          index' = {PrettyPrint(line) : line \in kept}
                     \cup {Printed(line) :
                               line \in {l \in lines : l.item.kind \notin
                                             {"class", "impl", "task"}}}
    /\ stage' = "links" /\ left' = crate
    /\ UNCHANGED <<crate, tables, runtime, loaded>>

-----------------------------------------------------------------------------
Run(item) ==
    /\ stage = "links" /\ item \in left
    /\ left' = left \ {item}
    /\ UNCHANGED <<crate, stage, tables, index, loaded>>

(* register_class: the last one names the class.                           *)
RegisterClass(item, name) ==
    LET key == <<item.of, item.ns>>
        before == IF key \in DOMAIN classes THEN classes[key].members ELSE {}
        entry == [js |-> name, members |-> before \cup {item}]
    IN classes' = Set(classes, key, entry)

(* register_module_export                                                  *)
RegisterExport(item, name) ==
    callbacks' = callbacks \cup
        {[ns |-> item.ns, of |-> item.of, name |-> name, members |-> {}]}

(* The constructor functions, with the names that they were expanded with  *)
RegisterStruct(item) ==
    /\ Run(item) /\ item.kind = "class"
    /\ RegisterClass(item, item.js)
    /\ UNCHANGED callbacks

RegisterImpl(item) ==
    /\ Run(item) /\ item.kind \in {"impl", "task"}
    /\ LET line == CHOOSE l \in lines : l.item = item
       IN RegisterClass(item, line.name)
    /\ UNCHANGED callbacks

RegisterFn(item) ==
    /\ Run(item) /\ item.kind = "fn"
    /\ RegisterExport(item, item.js)
    /\ UNCHANGED classes

RegisterEnum(item) ==
    /\ Run(item) /\ item.kind = "enum"
    /\ RegisterExport(item, item.js)
    /\ UNCHANGED classes

(* By its identifier                                                       *)
RegisterConst(item) ==
    /\ Run(item) /\ item.kind = "const"
    /\ RegisterExport(item, Ident(item.of))
    /\ UNCHANGED classes

RegisterNothing(item) ==
    Run(item) /\ item.kind \in {"shape", "alias"} /\ UNCHANGED runtime

DefinedClasses ==
    {[ns |-> key[2], of |-> key[1], name |-> classes[key].js,
      members |-> classes[key].members] : key \in DOMAIN classes}

(* The map from names to classes keeps one of those of a name.             *)
Constructors ==
    LET all == {classes[key].js : key \in DOMAIN classes}
    IN {byName \in [all -> DOMAIN classes] :
           \A js \in all : classes[byName[js]].js = js}

(* napi_register_module_v1                                                 *)
RegisterModule ==
    /\ stage = "links" /\ left = {}
    /\ stage' = "loaded"
    /\ exports' = callbacks \cup DefinedClasses
    /\ ctors' \in Constructors
    /\ UNCHANGED <<crate, left, tables, index, runtime>>

NextCrate ==
    /\ stage \in {"fails", "loaded"}
    /\ crate' = {} /\ stage' = "idle" /\ left' = {}
    /\ recorded' = NoTable /\ names' = NoTable /\ tasks' = NoTable
    /\ lines' = {} /\ index' = {}
    /\ classes' = NoTable /\ callbacks' = {}
    /\ exports' = {} /\ ctors' = NoTable

CrateNext ==
    \/ StartCrate \/ Declare \/ RegisterModule \/ NextCrate
    \/ \E item \in left :
          \/ ExpandStruct(item) \/ ExpandEnum(item) \/ ExpandType(item)
          \/ ExpandConst(item) \/ ExpandFn(item)
          \/ ExpandImpl(item) \/ ExpandTask(item)
          \/ RegisterStruct(item) \/ RegisterImpl(item) \/ RegisterFn(item)
          \/ RegisterEnum(item) \/ RegisterConst(item) \/ RegisterNothing(item)

CrateSpec == CrateInit /\ [][CrateNext]_crateVars

-----------------------------------------------------------------------------
(* What is expected to go wrong, in the code as it is: something else of   *)
(* the crate, in another namespace or of another kind, has the identifier  *)
(* or the JavaScript name of a type;                                       *)
Declaration(type) == CHOOSE item \in crate : Declares(item, type)

Twin(type) ==
    \E other \in crate \ {Declaration(type)} :
        /\ \/ other.kind \in Types
           \/ other.kind = "const"
           \/ other.kind = "task" /\ other.of # type
        /\ {Ident(other.of), other.js}
               \cap {Ident(type), Declaration(type).js} # {}

(* a type that is renamed, and is no class, is used before it is expanded; *)
UsedEarly(use) ==
    /\ Declaration(use.type).kind # "class"
    /\ use.as = Ident(use.type) /\ use.as # Declaration(use.type).js

(* a class is implemented before it is expanded, and renamed, or in        *)
(* another namespace;                                                      *)
ImplementedApart(type) ==
    \E line \in lines :
        /\ line.item.kind \in {"impl", "task"} /\ line.item.of = type
        /\ \/ line.name # Declaration(type).js
           \/ line.item.ns # Declaration(type).ns

(* what is implemented is no class;                                        *)
NoClass(type) ==
    \E item \in crate :
        /\ item.kind = "impl" /\ item.of = type
        /\ Declaration(type).kind # "class"

(* what is in a namespace is not named with it elsewhere; a const that is  *)
(* renamed is exported by its identifier; and a task is exported as if it  *)
(* were a class.                                                           *)
Inside(ns, type) == Declaration(type).ns \in {ns, Top}
RenamedConst(item) == item.kind = "const" /\ item.js # Ident(item.of)
IsTask(type) == \E item \in crate : item.kind = "task" /\ item.of = type

(* The type that a name stands for in a namespace                          *)
Resolves(ns, name, type) ==
    LET at(where) == {d \in index : /\ d.item.kind \in Types
                                   /\ d.item.ns = where /\ name \in d.names}
        found == IF at(ns) # {} THEN at(ns) ELSE at(Top)
    IN \E d \in found : d.item.of = type

NamesResolve ==
    \A d \in index : \A use \in d.uses :
        \/ Resolves(d.item.ns, use.as, use.type)
        \/ UsedEarly(use) \/ Twin(use.type) \/ ~Inside(d.item.ns, use.type)

Same(d, e) ==
    /\ e.of = d.item.of /\ e.ns = d.item.ns /\ e.name = d.item.js
    /\ d.members = e.members \ {d.item}
    /\ d.item.kind = "class" => ctors[e.name] = <<e.of, e.ns>>

DeclaredAreExported ==
    \A d \in index :
        \/ d.item.kind \in {"shape", "alias"}
        \/ \E e \in exports : Same(d, e)
        \/ RenamedConst(d.item)
        \/ d.item.kind = "class"
               /\ (ImplementedApart(d.item.of) \/ Twin(d.item.of))

ExportedAreDeclared ==
    \A e \in exports :
        \/ \E d \in index : Same(d, e)
        \/ IsTask(e.of) \/ NoClass(e.of)
        \/ \E item \in crate : item.of = e.of /\ RenamedConst(item)
        \/ \E item \in crate :
               /\ item.kind = "class" /\ item.of = e.of
               /\ ImplementedApart(e.of) \/ Twin(e.of)

(* In whichever order items are expanded and registered, index.d.ts is one *)
(* with the module: each name in a declaration is declared there, where it *)
(* is used and for the type that is meant, and functions, enums, consts    *)
(* and classes with their methods are exported exactly if they are         *)
(* declared, by that name and in that namespace, with the class that Rust  *)
(* makes instances of.                                                     *)
IndexIsTrue ==
    stage = "loaded" =>
        NamesResolve /\ DeclaredAreExported /\ ExportedAreDeclared

=============================================================================
