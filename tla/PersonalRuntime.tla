---------------------------- MODULE PersonalRuntime ----------------------------
(***************************************************************************)
(* The personal runtime: a local state directory is seeded once with an    *)
(* owner and an application package, and opened again at every start.      *)
(*                                                                         *)
(* The directory holds a ledger file and an object store.  Seeding reads   *)
(* the ledger, reads the package, stores the state as an object under its  *)
(* hash and appends one artifact that names the hash; each of these is a   *)
(* step of its own, another process may be at work on the directory        *)
(* meanwhile, and a process may stop between any two.  Objects and ledger  *)
(* are written to a temporary file and renamed: a reader finds all of a    *)
(* write or nothing.  Two states with one hash are the same state.         *)
(***************************************************************************)
EXTENDS Naturals, SequencesExt

CONSTANTS
  Owners,
  Packages,     \* the contents the package manifest may have
  Compatible,   \* those the platform version accepts
  MaxSeeds,     \* bound: the calls of seedPersonalRuntime
  MaxOpens      \* bound: the calls of openPersonalRuntime

CompatibleAssumption == Compatible \subseteq Packages

VARIABLES
  manifest,     \* the content of the package manifest
  ledger,       \* the hash in the state artifact of the ledger file, or NotSeeded
  objects,      \* the hashes in the object store
  seeds,        \* the calls of seedPersonalRuntime
  opened        \* the states of the sessions that were opened

personal == <<manifest, ledger, objects, seeds, opened>>

NotSeeded == "none"

\* A state is its owner with the operations that make the workspace, the
\* package and the installation; its hash is the state.
State == Owners \X Compatible

-----------------------------------------------------------------------------
(* Seeding. *)

Begin(owner) ==
  /\ Len(seeds) < MaxSeeds
  /\ ledger = NotSeeded
  /\ seeds' = Append(seeds, [owner |-> owner, phase |-> "reading", state |-> NotSeeded])
  /\ UNCHANGED <<manifest, ledger, objects, opened>>

Moves(s, phase) == seeds' = [seeds EXCEPT ![s].phase = phase]

\* The package is read, and installed into a fresh installer.
ReadPackage(s) ==
  /\ seeds[s].phase = "reading"
  /\ IF manifest \in Compatible
     THEN seeds' = [seeds EXCEPT ![s].phase = "storing",
                                 ![s].state = <<seeds[s].owner, manifest>>]
     ELSE Moves(s, "failed")
  /\ UNCHANGED <<manifest, ledger, objects, opened>>

\* Mutant: the artifact is appended first, as the object can be stored later.
PutObjectLater(s) ==
  /\ seeds[s].phase = "storing"
  /\ Moves(s, "appending")
  /\ UNCHANGED <<manifest, ledger, objects, opened>>

PutObject(s) ==
  /\ seeds[s].phase = "storing"
  /\ objects' = objects \cup {seeds[s].state}
  /\ Moves(s, "appending")
  /\ UNCHANGED <<manifest, ledger, opened>>

\* The ledger of this process was read when it was not seeded, so it writes a
\* file with its artifact alone, whatever the file holds by then.
AppendArtifact(s) ==
  /\ seeds[s].phase = "appending"
  /\ ledger' = seeds[s].state
  /\ Moves(s, "seeded")
  /\ UNCHANGED <<manifest, objects, opened>>

\* The process stops, or a write throws; what it was writing may be there.
Stop(s, written) ==
  LET phase == seeds[s].phase IN
  /\ phase \in {"reading", "storing", "appending"}
  /\ objects' = IF written /\ phase = "storing" THEN objects \cup {seeds[s].state} ELSE objects
  /\ ledger' = IF written /\ phase = "appending" THEN seeds[s].state ELSE ledger
  /\ Moves(s, IF written /\ phase = "appending" THEN "unanswered" ELSE "failed")
  /\ UNCHANGED <<manifest, opened>>

-----------------------------------------------------------------------------
(* Opening. *)

\* Replays the operations and installs the package of the state, as it was
\* stored: the package directory is not read again.
Restore(state) == state

\* Without its object the state is lost: opening throws.
Open ==
  /\ Len(opened) < MaxOpens
  /\ ledger # NotSeeded
  /\ ledger \in objects
  /\ opened' = Append(opened, Restore(ledger))
  /\ UNCHANGED <<manifest, ledger, objects, seeds>>

PackageChanges(content) ==
  /\ manifest' = content
  /\ UNCHANGED <<ledger, objects, seeds, opened>>

Init == /\ manifest \in Packages /\ ledger = NotSeeded
        /\ objects = {} /\ seeds = <<>> /\ opened = <<>>

Next ==
  \/ \E owner \in Owners : Begin(owner)
  \/ \E s \in DOMAIN seeds :
       \/ ReadPackage(s) \/ PutObject(s) \/ AppendArtifact(s)
       \/ \E written \in BOOLEAN : Stop(s, written)
  \/ Open
  \/ \E content \in Packages : PackageChanges(content)

Spec == Init /\ [][Next]_personal

-----------------------------------------------------------------------------
\* Whenever processes stop and however they overlap: a directory that is
\* seeded can be opened, what is opened is what one call seeded, its owner and
\* its package together, and when only one call got through, answered or not,
\* every session is of what that call seeded.
SeedSurvives ==
  LET done == {s \in DOMAIN seeds : seeds[s].phase \in {"seeded", "unanswered"}}
  IN /\ ledger # NotSeeded => ledger \in objects
     /\ \A k \in DOMAIN opened : \E s \in done : seeds[s].state = opened[k]
     /\ \A s \in done : done = {s} => ledger = seeds[s].state
=============================================================================
