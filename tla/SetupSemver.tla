---------------------------- MODULE SetupSemver -----------------------------
(***************************************************************************)
(* scripts/setup-semver.sh: the version in package.json is read, bumped    *)
(* with semver.sh and written back.  A developer may bump it by hand with  *)
(* the other commands of semver.sh in between.                             *)
(***************************************************************************)
EXTENDS Semver

CONSTANTS
  Versions,    \* versions package.json may have in the beginning
  Protos,      \* third arguments of a bump prerel by hand
  MaxBumps     \* bound of the model: bumps one after the other

ASSUME SemverAssumption ==
  /\ \A v \in Versions : /\ v.core \in Nat \X Nat \X Nat
                         /\ v.pre \in Seq(Int)
                         /\ v = [core |-> v.core, pre |-> v.pre, build |-> v.build]
  /\ Protos \subseteq Seq(Int)
  /\ MaxBumps \in Nat

VARIABLES
  file,      \* the version in package.json
  highest,   \* the highest release it ever had
  bumps      \* bumps so far

vars == <<file, highest, bumps>>

Unreleased == <<0, 0, 0>>

Init ==
  /\ file \in Versions
  /\ highest = IF file.pre = <<>> THEN file.core ELSE Unreleased
  /\ bumps = 0

Write(new) ==
  /\ file' = new
  /\ highest' = IF new # Empty /\ new.pre = <<>> /\ CoreLess(highest, new.core)
                  THEN new.core ELSE highest

Bump == bumps < MaxBumps /\ bumps' = bumps + 1

\* setup_new_version: what the bump printed goes into package.json, and
\* nothing does when it failed.  The `+` of a build part is a quantifier in
\* the pattern of perl, which then matches nothing; success is reported
\* whatever happened, since the code that is checked (49) is that of msg.
setup_new_version(command) ==
  /\ Bump
  /\ IF file.build THEN UNCHANGED <<file, highest>>
     ELSE Write(command_bump(command, NoProto, file))

\* semver.sh by hand; its output is stored when it has one.
BumpByHand(command, arg) ==
  /\ Bump
  /\ command_bump(command, arg, file) # Empty
  /\ Write(command_bump(command, arg, file))

Next ==
  \/ \E command \in {"patch", "minor", "major", "release", "prerel"} :
       setup_new_version(command)
  \/ \E arg \in Protos : BumpByHand("prerel", arg)
  \/ BumpByHand("build", <<>>)

Spec == Init /\ [][Next]_vars
-----------------------------------------------------------------------------
\* compare prints the order of semver 2.0.0 for every two versions of the
\* usage text, whatever bumps they come from: fields of different kinds and
\* lengths, numbers of one and two digits, releases and pre-releases.
ComparesBySpec ==
  \A w \in Versions :
    file # Empty /\ Canonical(file) /\ Canonical(w) =>
      compare_version(file, w) =
        IF Precedes(file, w) THEN -1 ELSE IF Precedes(w, file) THEN 1 ELSE 0

\* However bumps follow each other, the version never falls behind a
\* release that was made, except to a pre-release of that same release.
NeverBelowARelease == file # Empty => ~CoreLess(file.core, highest)
=============================================================================
