---------------------------- MODULE ReplaySetup ----------------------------
(***************************************************************************)
(* start_replay_execution (server/replay.rs) up to the spawn: the packages *)
(* the user names replace modules of the chain, and give the source that   *)
(* breakpoints are set in.  Local packages are built, prebuilt ones read,  *)
(* in the order named; a module may be in several of them.  The modules go *)
(* to the VM and to the source locator separately, and the second can fail *)
(* without the first.                                                      *)
(*                                                                         *)
(* The compiler, the file system and AptosSourceLocator, which keeps one   *)
(* source map per module, are external.                                    *)
(***************************************************************************)
EXTENDS Naturals, Sequences

CONSTANTS
    Modules,
    LocalPackages,        \* sequence of packages
    PrebuiltPackages,     \* sequence of packages
    Contents,             \* package -> its modules
    NoPackage

Packages == LocalPackages \o PrebuiltPackages
Named    == {Packages[i] : i \in DOMAIN Packages}

(* The source file of a module in a package.                               *)
Sources == {s \in Named \X Modules : s[2] \in Contents[s[1]]}

ASSUME PackageAssumption ==
    /\ LocalPackages \in Seq(DOMAIN Contents)
    /\ PrebuiltPackages \in Seq(DOMAIN Contents)
    /\ NoPackage \notin Named
    /\ \A p \in Named : Contents[p] \subseteq Modules

VARIABLES
    pc,                   \* "packages", "warning", "started" or "failed"
    at,                   \* number of the package at hand, 0 before the first
    left,                 \* its modules not yet handled
    module_overrides,     \* module -> the package whose code will run
    locator,              \* module -> the package whose source is shown
    unmapped,             \* sources the locator did not take
    pending_breakpoints,  \* files with breakpoints
    warned,               \* those the user was warned of
    client_reads

vars == <<pc, at, left, module_overrides, locator, unmapped,
          pending_breakpoints, warned, client_reads>>

IsLocal == at \in DOMAIN LocalPackages

TypeOK ==
    /\ pc \in {"packages", "warning", "started", "failed"}
    /\ at \in 0 .. Len(Packages)
    /\ left \in SUBSET Modules
    /\ module_overrides \in [Modules -> Named \cup {NoPackage}]
    /\ locator \in [Modules -> Named \cup {NoPackage}]
    /\ unmapped \in SUBSET Sources
    /\ pending_breakpoints \in SUBSET Sources
    /\ warned \in SUBSET pending_breakpoints
    /\ client_reads \in BOOLEAN

Init ==
    /\ pc = "packages"
    /\ at = 0
    /\ left = {}
    /\ module_overrides = [m \in Modules |-> NoPackage]
    /\ locator = [m \in Modules |-> NoPackage]
    /\ unmapped = {}
    /\ pending_breakpoints \in SUBSET Sources
    /\ warned = {}
    /\ client_reads = TRUE

-----------------------------------------------------------------------------
(* The next package is announced, and built or its directory read.         *)
NextPackage ==
    /\ pc = "packages"
    /\ client_reads
    /\ left = {}
    /\ at < Len(Packages)
    /\ at' = at + 1
    /\ left' = Contents[Packages[at + 1]]
    /\ UNCHANGED <<pc, module_overrides, locator, unmapped, pending_breakpoints,
                   warned, client_reads>>

(* Slip: a module once overridden stays so.                                *)
AddModuleOnce(m) ==
    /\ pc = "packages"
    /\ m \in left
    /\ left' = left \ {m}
    /\ module_overrides' = [module_overrides EXCEPT
          ![m] = IF @ = NoPackage THEN Packages[at] ELSE @]
    /\ locator' = [locator EXCEPT ![m] = Packages[at]]
    /\ UNCHANGED <<pc, at, unmapped, pending_breakpoints, warned, client_reads>>

(* A module and its source map are added.                                  *)
AddModule(m) ==
    /\ pc = "packages"
    /\ m \in left
    /\ left' = left \ {m}
    /\ module_overrides' = [module_overrides EXCEPT ![m] = Packages[at]]
    /\ locator' = [locator EXCEPT ![m] = Packages[at]]
    /\ UNCHANGED <<pc, at, unmapped, pending_breakpoints, warned, client_reads>>

(* A module whose source map is missing (of a prebuilt package) or cannot  *)
(* be loaded is added all the same.  Only for a local one is that console  *)
(* output, which has to succeed.                                           *)
AddModuleUnmapped(m) ==
    /\ pc = "packages"
    /\ m \in left
    /\ IsLocal => client_reads
    /\ left' = left \ {m}
    /\ module_overrides' = [module_overrides EXCEPT ![m] = Packages[at]]
    /\ unmapped' = unmapped \cup {<<Packages[at], m>>}
    /\ UNCHANGED <<pc, at, locator, pending_breakpoints, warned, client_reads>>

(* What the locator knows when all packages have been added.               *)
known_files == {s \in Sources : locator[s[2]] = s[1]}

(* Slip: any package that has the module will do.                          *)
unreachable_by_module ==
    {s \in pending_breakpoints : locator[s[2]] = NoPackage}

(* Slip: the files are taken from the packages.                            *)
unreachable_files == Sources \ known_files

unreachable == pending_breakpoints \ known_files

WarnOnUnreachableBreakpoints ==
    /\ pc = "packages"
    /\ left = {}
    /\ at = Len(Packages)
    /\ unreachable # {} => client_reads
    /\ warned' = unreachable
    /\ pc' = "warning"
    /\ UNCHANGED <<at, left, module_overrides, locator, unmapped,
                   pending_breakpoints, client_reads>>

Start ==
    /\ pc = "warning"
    /\ client_reads
    /\ pc' = "started"
    /\ UNCHANGED <<at, left, module_overrides, locator, unmapped,
                   pending_breakpoints, warned, client_reads>>

(* A build, a file or a write to the client fails, and start_* with it.    *)
Fails ==
    /\ pc \in {"packages", "warning"}
    /\ pc' = "failed"
    /\ UNCHANGED <<at, left, module_overrides, locator, unmapped,
                   pending_breakpoints, warned, client_reads>>

ClientGone ==
    /\ client_reads
    /\ client_reads' = FALSE
    /\ UNCHANGED <<pc, at, left, module_overrides, locator, unmapped,
                   pending_breakpoints, warned>>

Next ==
    \/ NextPackage
    \/ \E m \in Modules : AddModule(m) \/ AddModuleUnmapped(m)
    \/ WarnOnUnreachableBreakpoints
    \/ Start
    \/ Fails
    \/ ClientGone

Spec == Init /\ [][Next]_vars

-----------------------------------------------------------------------------
(* The code that runs is that of the last package named that has the       *)
(* module, prebuilt after local, whatever becomes of its source            *)
(* (replay.rs:83-140, 254).                                                *)
LastPackageRuns ==
    pc = "started" =>
        \A m \in Modules :
            LET with == {i \in DOMAIN Packages : m \in Contents[Packages[i]]}
            IN  module_overrides[m] =
                    IF with = {} THEN NoPackage
                    ELSE Packages[CHOOSE i \in with : \A j \in with : j <= i]

(* A breakpoint the user is not warned of is in a file of the code that    *)
(* runs, and one he is warned of is not: the warning is computed from what *)
(* the locator took, the code from what the VM is given (server.rs:343-369,*)
(* replay.rs:122-155).  They part only where the locator did not take the  *)
(* source of the code that runs; then an older file may stand for it.      *)
WarnedExactlyWhenUnreachable ==
    pc = "started" =>
        \A s \in pending_breakpoints :
            \/ s \in warned <=> module_overrides[s[2]] # s[1]
            \/ <<module_overrides[s[2]], s[2]>> \in unmapped
=============================================================================
