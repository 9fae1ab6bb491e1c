---------------------------- MODULE ModuleLoader ----------------------------
(***************************************************************************)
(* require, as init_bindings.js defines it.  It runs the script of a       *)
(* module and keeps the exports once the script has come to its end; what  *)
(* requires a module that is being loaded has it loaded once more.         *)
(***************************************************************************)
EXTENDS CallStack, FiniteSets

CONSTANTS Names,         \* what require is called with
          Mapped,        \* the names that mapping knows
          MaxInstances   \* how many scripts are run, bound of the model

ASSUME LoaderAssumption == Mapped \subseteq Names /\ MaxInstances \in Nat

VARIABLES
    modules,         \* the instance whose exports are kept for each name, or 0
    moduleLoadList,  \* the names in it
    instances,       \* the names of the modules whose scripts have been run
    falsy,           \* the instances whose exports are false as a condition
    got,             \* history: the instances whose exports require has returned
    thrown,          \* history: the instances whose scripts threw
    inside           \* history: what was being loaded when each was begun

loader == <<modules, moduleLoadList, instances, falsy, got, thrown, inside>>

Instance == 1 .. MaxInstances

LoaderTypeOK ==
    /\ modules \in [Names -> Instance \cup {0}]
    /\ moduleLoadList \subseteq Names
    /\ instances \in Seq(Mapped) /\ Len(instances) <= MaxInstances
    /\ falsy \subseteq Instance
    /\ got \subseteq Instance
    /\ thrown \subseteq Instance
    /\ inside \in [Instance -> SUBSET Instance]

LoaderInit ==
    /\ modules = [n \in Names |-> 0]
    /\ moduleLoadList = {}
    /\ instances = <<>>
    /\ falsy = {}
    /\ got = {}
    /\ thrown = {}
    /\ inside = [i \in Instance |-> {}]

\* The instances whose scripts are running.
Loading == {stack[i].of : i \in {k \in DOMAIN stack : stack[k].kind = "module"}}

-----------------------------------------------------------------------------
\* The exports are kept, and are not taken for none.
Kept_never(name) == FALSE
Kept(name) == modules[name] # 0 /\ modules[name] \notin falsy

RequireKept(name) ==
    /\ Running
    /\ Kept(name)
    /\ got' = got \cup {modules[name]}
    /\ UNCHANGED <<stack, throwing, modules, moduleLoadList, instances, falsy, thrown, inside>>

\* The name is in the list by the time it turns out to be none.
RequireUnknown(name) ==
    /\ Running
    /\ name \notin Mapped
    /\ moduleLoadList' = moduleLoadList \cup {name}
    /\ throwing' = TRUE
    /\ UNCHANGED <<stack, modules, instances, falsy, got, thrown, inside>>

\* Nothing says that the module is being loaded.  A file that is not there has
\* an empty script, and one that cannot be parsed throws at once.
Load(name) ==
    /\ Running
    /\ name \in Mapped /\ ~Kept(name)
    /\ Len(instances) < MaxInstances
    /\ moduleLoadList' = moduleLoadList \cup {name}
    /\ Push(<<Frame("module", Len(instances) + 1, "code")>>)
    /\ IF throwing'
       THEN UNCHANGED <<instances, inside>>
       ELSE /\ instances' = Append(instances, name)
            /\ inside' = [inside EXCEPT ![Len(instances) + 1] = Loading]
    /\ UNCHANGED <<modules, falsy, got, thrown>>

\* The script has run: its exports replace those of an instance that was loaded
\* while it ran.
Loaded ==
    /\ Within("module", "code") /\ ~throwing
    /\ Pop
    /\ modules' = [modules EXCEPT ![instances[Top.of]] = Top.of]
    /\ got' = got \cup {Top.of}
    /\ \E f \in SUBSET {Top.of} : falsy' = falsy \cup f
    /\ UNCHANGED <<throwing, moduleLoadList, instances, thrown, inside>>

\* It threw: nothing is kept.
LoadThrows ==
    /\ Within("module", "code") /\ throwing
    /\ Pop
    /\ thrown' = thrown \cup {Top.of}
    /\ UNCHANGED <<throwing, modules, moduleLoadList, instances, falsy, got, inside>>

LoaderNext ==
    \/ \E name \in Names :
          \/ RequireKept(name)
          \/ RequireUnknown(name)
          \/ Load(name)
    \/ Loaded
    \/ LoadThrows

-----------------------------------------------------------------------------
\* require returns the exports of scripts that have come to their end, never
\* of one that is running or has thrown; and it returns two instances of one
\* module only if the one was begun while the other was being loaded, or the
\* exports of one are taken for none.
LoadedOnce ==
    /\ got \cap (Loading \cup thrown) = {}
    /\ \A i, j \in got :
          i < j /\ instances[i] = instances[j]
            => \/ i \in inside[j]
               \/ \E f \in falsy : instances[f] = instances[i]
=============================================================================
