------------------------- MODULE ApplicationInstaller -------------------------
(***************************************************************************)
(* The application installer of packages/apps: installation, update and    *)
(* rollback of application instances, and the versions of packages that it *)
(* has seen, which instances share.                                        *)
(*                                                                         *)
(* Packages are the ones defineApplicationPackage accepts.  A version is a *)
(* number in the order of compareVersions; two packages with one name and  *)
(* version may differ in content, that is in their blueprint, requirements,*)
(* compatibility or migrations.  What an instance binds and how it is      *)
(* configured is left out, except that it may be refused: for another      *)
(* workspace or an overlay of another package early, for a malformed       *)
(* binding late.                                                           *)
(***************************************************************************)
EXTENDS Naturals, SequencesExt

CONSTANTS
  Instances, Names, Blueprints, Migrations,
  Packages,           \* the packages at hand
  PlatformVersion,
  MaxHistory          \* bound

VARIABLES
  packages,           \* <<name, version>> -> the package seen
  instances

apps == <<packages, instances>>

\* What the installer reads of a portable package.
ApplicationPackage ==
  [id : Names, version : Nat, blueprintRef : Blueprints,
   minInclusive : Nat, maxExclusive : Nat, compatibleFrom : SUBSET Nat,
   migrations : SUBSET [id : Migrations, from : Nat, to : Nat]]

PackagesAssumption ==
  \A p \in Packages : /\ p.minInclusive < p.maxExclusive
                      /\ \A m \in p.migrations : m.from < m.to

PlatformCompatible(p) ==
  p.minInclusive <= PlatformVersion /\ PlatformVersion < p.maxExclusive

\* Mutant: the package seen last is kept.
RegisterableAlways(p) == TRUE

Registerable(p) ==
  <<p.id, p.version>> \in DOMAIN packages => packages[<<p.id, p.version>>] = p

RegisterPackage(p) == packages' = (<<p.id, p.version>> :> p) @@ packages

-----------------------------------------------------------------------------
Install(i, p, boundariesRespected, bindingsOk) ==
  /\ PlatformCompatible(p)
  /\ i \notin DOMAIN instances
  /\ boundariesRespected
  /\ Registerable(p)
  /\ RegisterPackage(p)
  \* A malformed binding throws here, when the package has been registered.
  /\ instances' = IF ~bindingsOk THEN instances
                  ELSE (i :> [package |-> p.id, version |-> p.version,
                              blueprintRef |-> p.blueprintRef, history |-> <<>>]) @@ instances

RequiredMigrations(i, p) ==
  {m.id : m \in {n \in p.migrations : n.from = instances[i].version /\ n.to = p.version}}

Newer(i, p) == p.version > instances[i].version

Update(i, p, completed) ==
  /\ p.id = instances[i].package
  /\ Newer(i, p)
  /\ PlatformCompatible(p)
  /\ instances[i].version \in p.compatibleFrom
  /\ RequiredMigrations(i, p) \subseteq completed
  /\ Registerable(p)
  /\ RegisterPackage(p)
  /\ Len(instances[i].history) < MaxHistory
  /\ instances' = [instances EXCEPT ![i] =
       [@ EXCEPT !.version = p.version, !.blueprintRef = p.blueprintRef,
                 !.history = Append(@, [version |-> instances[i].version,
                                        blueprintRef |-> instances[i].blueprintRef])]]

Previous(i) == Last(instances[i].history)

\* What rollback looks for among the packages.
Available(i) ==
  LET key == <<instances[i].package, Previous(i).version>>
  IN key \in DOMAIN packages /\ packages[key].blueprintRef = Previous(i).blueprintRef

Rollback(i) ==
  /\ instances[i].history # <<>>
  /\ Available(i)
  /\ LET p == packages[<<instances[i].package, Previous(i).version>>]
     IN instances' = [instances EXCEPT ![i] =
          [@ EXCEPT !.version = p.version, !.blueprintRef = p.blueprintRef, !.history = Front(@)]]
  /\ UNCHANGED packages

-----------------------------------------------------------------------------
Init == packages = <<>> /\ instances = <<>>

Next ==
  \/ \E i \in Instances, p \in Packages, bounded, bound \in BOOLEAN : Install(i, p, bounded, bound)
  \/ \E i \in DOMAIN instances :
       \/ \E p \in Packages, completed \in SUBSET Migrations : Update(i, p, completed)
       \/ Rollback(i)

Spec == Init /\ [][Next]_apps

-----------------------------------------------------------------------------
\* Through any sequence of installations, updates and rollbacks of several
\* instances of the same packages, every instance runs what is registered for
\* its version, can be taken back through all of its history to the version
\* it was installed at, and gets there through ever older versions.
RollbackPossible ==
  \A i \in DOMAIN instances :
    LET instance == instances[i]
        past == Append(instance.history,
                       [version |-> instance.version, blueprintRef |-> instance.blueprintRef])
    IN \A k \in DOMAIN past :
         /\ <<instance.package, past[k].version>> \in DOMAIN packages
         /\ packages[<<instance.package, past[k].version>>].blueprintRef = past[k].blueprintRef
         /\ k > 1 => past[k - 1].version < past[k].version
=============================================================================
