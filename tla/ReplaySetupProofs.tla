------------------------- MODULE ReplaySetupProofs -------------------------
(***************************************************************************)
(* Proofs about ReplaySetup, for any packages and modules: which package's *)
(* code runs, and what the user is warned of.                              *)
(***************************************************************************)
EXTENDS ReplaySetup, SequenceTheorems, TLAPS

(* Module m has been added from the j-th package.                          *)
Added(m, j) == m \in Contents[Packages[j]] /\ (j = at => m \notin left)

LeftFits == left \subseteq (IF at = 0 THEN {} ELSE Contents[Packages[at]])

(* So far, the last package that had the module has overridden it.         *)
LastAdded(m) ==
    \/ module_overrides[m] = NoPackage /\ \A j \in 1 .. at : ~Added(m, j)
    \/ \E i \in 1 .. at :
          /\ Added(m, i)
          /\ module_overrides[m] = Packages[i]
          /\ \A j \in 1 .. at : Added(m, j) => j <= i

LastAddedCounts == \A m \in Modules : LastAdded(m)

(* The locator shows the code that will run, or failed to take its source. *)
LocatorFollows ==
    \A m \in Modules :
        \/ locator[m] = module_overrides[m]
        \/ <<module_overrides[m], m>> \in unmapped

Finished ==
    pc \in {"warning", "started"} =>
        left = {} /\ at = Len(Packages) /\ warned = unreachable

Inv == TypeOK /\ LeftFits /\ LastAddedCounts /\ LocatorFollows /\ Finished

-----------------------------------------------------------------------------
(* The packages.                                                           *)

LEMMA PackagesType ==
    /\ Len(Packages) \in Nat /\ DOMAIN Packages = 1 .. Len(Packages)
    /\ \A i \in 1 .. Len(Packages) :
          Packages[i] \in Named /\ Contents[Packages[i]] \subseteq Modules
<1>1. Packages \in Seq(DOMAIN Contents)
    BY PackageAssumption, ConcatProperties DEF Packages
<1>2. Len(Packages) \in Nat /\ DOMAIN Packages = 1 .. Len(Packages)
    BY <1>1, LenProperties
<1>3. QED  BY <1>2, PackageAssumption DEF Named

LEMMA InitInv == Init => Inv
<1> SUFFICES ASSUME Init
             PROVE  Inv
    OBVIOUS
<1>1. TypeOK
    BY PackagesType DEF Init, TypeOK
<1>2. LeftFits /\ LastAddedCounts /\ LocatorFollows /\ Finished
    BY DEF Init, LeftFits, LastAddedCounts, LastAdded, LocatorFollows,
           Finished
<1>3. QED  BY <1>1, <1>2 DEF Inv

(* A module is handled: it is overridden, whatever its source.             *)
LEMMA StepModule ==
    ASSUME Inv, NEW m \in Modules, AddModule(m) \/ AddModuleUnmapped(m)
    PROVE  Inv'
<1>1. /\ pc = "packages" /\ m \in left /\ left' = left \ {m}
      /\ module_overrides' = [module_overrides EXCEPT ![m] = Packages[at]]
      /\ UNCHANGED <<pc, at, pending_breakpoints, warned, client_reads>>
    BY DEF AddModule, AddModuleUnmapped
<1>2. at \in 1 .. Len(Packages) /\ m \in Contents[Packages[at]] /\ at \in Nat
    BY <1>1, PackagesType DEF Inv, TypeOK, LeftFits
<1>3. Packages[at] \in Named /\ <<Packages[at], m>> \in Sources
    BY <1>2, PackagesType DEF Sources
<1>4. TypeOK'
    BY <1>1, <1>3 DEF Inv, TypeOK, AddModule, AddModuleUnmapped
<1>5. LeftFits'
    BY <1>1 DEF Inv, LeftFits
<1>6. LastAddedCounts'
    <2> SUFFICES ASSUME NEW n \in Modules
                 PROVE  LastAdded(n)'
        BY DEF LastAddedCounts
    <2>1. CASE n = m
        <3>1. module_overrides'[n] = Packages[at] /\ Added(n, at)'
            BY <1>1, <1>2, <2>1 DEF Inv, TypeOK, Added
        <3>2. at \in 1 .. at /\ \A j \in 1 .. at : j <= at
            BY <1>2
        <3>3. at' = at
            BY <1>1
        <3>4. QED  BY <3>1, <3>2, <3>3 DEF LastAdded
    <2>2. CASE n # m
        <3>1. module_overrides'[n] = module_overrides[n]
            BY <1>1, <2>2 DEF Inv, TypeOK
        <3>2. \A j \in 1 .. at : Added(n, j)' <=> Added(n, j)
            BY <1>1, <2>2 DEF Added
        <3>3. LastAdded(n)
            BY DEF Inv, LastAddedCounts
        <3>4. QED  BY <1>1, <3>1, <3>2, <3>3 DEF LastAdded
    <2>3. QED  BY <2>1, <2>2
<1>7. LocatorFollows'
    <2>1. CASE AddModule(m)
        <3>1. UNCHANGED unmapped /\ locator' = [locator EXCEPT ![m] = Packages[at]]
            BY <2>1 DEF AddModule
        <3>2. QED  BY <1>1, <3>1 DEF Inv, TypeOK, LocatorFollows
    <2>2. CASE AddModuleUnmapped(m)
        <3>1. UNCHANGED locator /\ unmapped' = unmapped \cup {<<Packages[at], m>>}
            BY <2>2 DEF AddModuleUnmapped
        <3>2. QED  BY <1>1, <3>1 DEF Inv, TypeOK, LocatorFollows
    <2>3. QED  BY <2>1, <2>2
<1>8. Finished'
    BY <1>1 DEF Finished
<1>9. QED  BY <1>4, <1>5, <1>6, <1>7, <1>8 DEF Inv

LEMMA StepInv == Inv /\ [Next]_vars => Inv'
<1> SUFFICES ASSUME Inv, [Next]_vars
             PROVE  Inv'
    OBVIOUS
<1>1. CASE NextPackage
    <2>1. /\ pc = "packages" /\ left = {} /\ at' = at + 1
          /\ left' = Contents[Packages[at + 1]]
          /\ at + 1 \in 1 .. Len(Packages) /\ at \in Nat
          /\ UNCHANGED <<pc, module_overrides, locator, unmapped, pending_breakpoints,
                         warned, client_reads>>
        BY <1>1, PackagesType DEF NextPackage, Inv, TypeOK
    <2>2. TypeOK'
        BY <2>1, PackagesType DEF Inv, TypeOK
    <2>3. LeftFits'
        BY <2>1 DEF LeftFits
    <2>4. LastAddedCounts'
        <3> SUFFICES ASSUME NEW m \in Modules
                     PROVE  LastAdded(m)'
            BY DEF LastAddedCounts
        <3>1. \A j : j \in 1 .. at' <=> j \in 1 .. at \/ j = at + 1
            BY <2>1
        <3>2. \A j \in 1 .. at : Added(m, j)' <=> Added(m, j)
            BY <2>1 DEF Added
        <3>3. \A j : j = at + 1 => ~Added(m, j)'
            BY <2>1 DEF Added
        <3>4. LastAdded(m)
            BY DEF Inv, LastAddedCounts
        <3>5. QED  BY <2>1, <3>1, <3>2, <3>3, <3>4 DEF LastAdded
    <2>5. LocatorFollows' /\ Finished'
        BY <2>1 DEF Inv, LocatorFollows, Finished
    <2>6. QED  BY <2>2, <2>3, <2>4, <2>5 DEF Inv
<1>2. ASSUME NEW m \in Modules, AddModule(m) \/ AddModuleUnmapped(m)
      PROVE  Inv'
    BY <1>2, StepModule
<1>3. CASE WarnOnUnreachableBreakpoints \/ Start \/ Fails \/ ClientGone \/ UNCHANGED vars
    <2>1. UNCHANGED <<at, left, module_overrides, locator, unmapped, pending_breakpoints>>
        BY <1>3 DEF WarnOnUnreachableBreakpoints, Start, Fails, ClientGone, vars
    <2>2. TypeOK'
        BY <1>3, <2>1 DEF Inv, TypeOK, WarnOnUnreachableBreakpoints, Start, Fails,
              ClientGone, vars, unreachable
    <2>3. LeftFits' /\ LastAddedCounts' /\ LocatorFollows'
        BY <2>1 DEF Inv, LeftFits, LastAddedCounts, LastAdded, Added,
              LocatorFollows
    <2>4. Finished'
        BY <1>3, <2>1 DEF Inv, Finished, WarnOnUnreachableBreakpoints, Start, Fails,
              ClientGone, vars, unreachable, known_files
    <2>5. QED  BY <2>2, <2>3, <2>4 DEF Inv
<1>4. QED  BY <1>1, <1>2, <1>3 DEF Next

LEMMA Invariance == Spec => []Inv
<1>1. QED  BY InitInv, StepInv, PTL DEF Spec

-----------------------------------------------------------------------------
(* The theorems.                                                           *)

(* TypeOK holds throughout start_replay_execution.                         *)
THEOREM ReplaySetupTypeCorrect == Spec => []TypeOK
<1>1. Inv => TypeOK  BY DEF Inv
<1>2. QED  BY Invariance, <1>1, PTL

(* Of several packages with the same module the last one named runs,       *)
(* whatever becomes of the source maps (replay.rs:83-140, 254).            *)
THEOREM LastNamedPackageRuns == Spec => []LastPackageRuns
<1>1. Inv => LastPackageRuns
    <2> SUFFICES ASSUME Inv, pc = "started", NEW m \in Modules
                 PROVE  LET with == {i \in DOMAIN Packages : m \in Contents[Packages[i]]}
                        IN  module_overrides[m] =
                                IF with = {} THEN NoPackage
                                ELSE Packages[CHOOSE i \in with : \A j \in with : j <= i]
        BY DEF LastPackageRuns
    <2> DEFINE with == {i \in DOMAIN Packages : m \in Contents[Packages[i]]}
    <2>1. with = {i \in 1 .. at : Added(m, i)}
        BY PackagesType DEF Inv, Finished, Added
    <2>2. CASE with = {}
        BY <2>1, <2>2 DEF Inv, LastAddedCounts, LastAdded
    <2>3. CASE with # {}
        <3>1. PICK i \in with : /\ module_overrides[m] = Packages[i]
                                /\ \A j \in with : j <= i
            BY <2>1, <2>3 DEF Inv, LastAddedCounts, LastAdded
        <3>2. \A k \in with : (\A j \in with : j <= k) => k = i
            BY <3>1, PackagesType
        <3>3. QED  BY <2>3, <3>1, <3>2
    <2>4. QED  BY <2>2, <2>3
<1>2. QED  BY Invariance, <1>1, PTL

(* The user is warned of the breakpoints in files that are not those of    *)
(* the code that runs, and of no others, except where the locator did not  *)
(* take the source of that code (server.rs:343-369, replay.rs:122-155).    *)
THEOREM WarningIsExact == Spec => []WarnedExactlyWhenUnreachable
<1>1. Inv => WarnedExactlyWhenUnreachable
    <2> SUFFICES ASSUME Inv, pc = "started", NEW s \in pending_breakpoints
                 PROVE  \/ s \in warned <=> module_overrides[s[2]] # s[1]
                        \/ <<module_overrides[s[2]], s[2]>> \in unmapped
        BY DEF WarnedExactlyWhenUnreachable
    <2>1. s \in Sources /\ s[2] \in Modules
        BY DEF Inv, TypeOK, Sources
    <2>2. s \in warned <=> locator[s[2]] # s[1]
        BY <2>1 DEF Inv, Finished, unreachable, known_files
    <2>3. QED  BY <2>1, <2>2 DEF Inv, LocatorFollows
<1>2. QED  BY Invariance, <1>1, PTL
=============================================================================
