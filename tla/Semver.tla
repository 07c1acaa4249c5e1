------------------------------- MODULE Semver -------------------------------
(***************************************************************************)
(* scripts/semver.sh: the commands bump and compare, as operators.         *)
(*                                                                         *)
(* A version is a record: core, the three numbers; pre, the pre-release    *)
(* part without its hyphen, as the sequence of its characters; build,      *)
(* whether there is a build part.  A character is a digit, or a number     *)
(* above 9 for a letter, in the order of ASCII; hyphens are left out.      *)
(* `[[ a < b ]]` sorts in the locale of the shell: here it is C.           *)
(***************************************************************************)
EXTENDS Integers, Sequences, SequencesExt

CONSTANT MaxInt   \* the largest integer of test and of $(( ))

ASSUME MaxIntAssumption == MaxInt \in Nat

Digit == 0..9
Dot   == -1
Plus  == -2

\* What a failed bump leaves in VERSION: nothing.
Empty == [core |-> <<>>, pre |-> <<>>, build |-> FALSE]

\* The sub_version of a bump without a third argument (line 286).
NoProto == <<Plus, Dot>>
-----------------------------------------------------------------------------
(* Characters and fields.                                                  *)

Decimal[n \in Nat] == IF n < 10 THEN <<n>> ELSE Append(Decimal[n \div 10], n % 10)

Value(digits, base) ==
  LET upto[n \in 0..Len(digits)] ==
        IF n = 0 THEN 0 ELSE base * upto[n - 1] + digits[n]
  IN  upto[Len(digits)]

AllDigits(f) == \A i \in DOMAIN f : f[i] \in Digit

\* ${prerel//./ } in an array: a dot begins a field, and every other
\* character goes to the last one.
Fields(s) ==
  LET upto[n \in 0..Len(s)] ==
        IF n = 0 THEN <<<<>>>>
        ELSE IF s[n] = Dot THEN Append(upto[n - 1], <<>>)
        ELSE [upto[n - 1] EXCEPT ![Len(upto[n - 1])] = Append(@, s[n])]
  IN  upto[Len(s)]

\* The order of strings, character by character.
StringLess(a, b) ==
  \E i \in DOMAIN b :
    /\ \A j \in 1..(i - 1) : j \in DOMAIN a /\ a[j] = b[j]
    /\ i \in DOMAIN a => a[i] < b[i]

\* NAT: no leading zeros.
is_nat(f) == f # <<>> /\ AllDigits(f) /\ (f[1] = 0 => Len(f) = 1)

\* The prerelease part matches the regular expression of line 11.
Accepted(pre) == pre # <<>> /\ \A k \in DOMAIN Fields(pre) : Fields(pre)[k] # <<>>
-----------------------------------------------------------------------------
(* compare                                                                 *)

\* test fails with an error on a larger number, and 0 is printed.
order_nat(a, b) ==
  LET m == Value(a, 10)  n == Value(b, 10)
  IN  IF m > MaxInt \/ n > MaxInt \/ m = n THEN 0 ELSE IF m < n THEN -1 ELSE 1

order_string(a, b) ==
  IF StringLess(a, b) THEN -1 ELSE IF StringLess(b, a) THEN 1 ELSE 0

\* One turn of the loop, for two fields that are there.
order_field(a, b) ==
  IF is_nat(a) /\ is_nat(b) THEN order_nat(a, b)
  ELSE IF is_nat(a) THEN -1
  ELSE IF is_nat(b) THEN 1
  ELSE order_string(a, b)

\* The turns in which the loop may return; it does in the first of them.
Decided(l, r) ==
  {i \in 1..(Len(l) + 1) : \/ i > Len(l) \/ i > Len(r)
                           \/ order_field(l[i], r[i]) # 0}

compare_fields(l, r) ==
  LET i == Min(Decided(l, r))
  IN  IF i > Len(l) /\ i > Len(r) THEN 0
      ELSE IF i > Len(l) THEN -1
      ELSE IF i > Len(r) THEN 1
      ELSE order_field(l[i], r[i])

\* Mutant of compare_version: the version without a pre-release is the
\* shorter array, and so the smaller one.
compare_version_short(v, w) ==
  LET core == compare_fields([i \in 1..3 |-> Decimal[v.core[i]]],
                             [i \in 1..3 |-> Decimal[w.core[i]]])
  IN  IF core # 0 THEN core
      ELSE compare_fields(IF v.pre = <<>> THEN <<>> ELSE Fields(v.pre),
                          IF w.pre = <<>> THEN <<>> ELSE Fields(w.pre))

compare_version(v, w) ==
  LET core == compare_fields([i \in 1..3 |-> Decimal[v.core[i]]],
                             [i \in 1..3 |-> Decimal[w.core[i]]])
  IN  IF core # 0 THEN core
      ELSE IF v.pre = <<>> /\ w.pre = <<>> THEN 0
      ELSE IF v.pre = <<>> THEN 1
      ELSE IF w.pre = <<>> THEN -1
      ELSE compare_fields(Fields(v.pre), Fields(w.pre))
-----------------------------------------------------------------------------
(* bump                                                                    *)

\* $(( ++prev_numeric )): a leading zero makes the number octal, and with
\* an 8 or a 9 it is an error that ends the subshell.
Increment(digits) ==
  LET base == IF digits[1] = 0 THEN 8 ELSE 10
  IN  IF \E i \in DOMAIN digits : digits[i] >= base THEN <<>>
      ELSE Decimal[Value(digits, base) + 1]

\* The three cases: take the prototype, bump or append a number, or start
\* at 1 when the prefix is not that of the prototype.
bump_prerel(arg, previous) ==
  LET cut     == Max({0} \cup {i \in DOMAIN previous : previous[i] \notin Digit})
      prefix  == SubSeq(previous, 1, cut)
      numeric == SubSeq(previous, cut + 1, Len(previous))
      number  == IF numeric = <<>> THEN <<1>> ELSE Increment(numeric)
  IN  IF arg = <<>> \/ Last(arg) # Dot THEN arg
      ELSE IF arg # NoProto /\ prefix # Front(arg) THEN Append(Front(arg), 1)
      ELSE IF number = <<>> THEN <<>>
      ELSE prefix \o number

Plain(core) == [core |-> core, pre |-> <<>>, build |-> FALSE]

\* Mutant of command_bump: release drops the patch number.
command_bump_release(command, arg, v) ==
  LET major == v.core[1]  minor == v.core[2]  patch == v.core[3]
      pre   == bump_prerel(arg, v.pre)
  IN  IF v = Empty THEN Empty ELSE
      CASE command = "major"    -> Plain(<<major + 1, 0, 0>>)
        [] command = "minor"    -> Plain(<<major, minor + 1, 0>>)
        [] command = "patch"    -> Plain(<<major, minor, patch + 1>>)
        [] command = "release"  -> Plain(<<major, minor, 0>>)
        [] command = "prerel"   -> IF Accepted(pre)
                                     THEN [Plain(v.core) EXCEPT !.pre = pre]
                                     ELSE Empty
        [] command = "build"    -> [v EXCEPT !.build = TRUE]

command_bump(command, arg, v) ==
  LET major == v.core[1]  minor == v.core[2]  patch == v.core[3]
      pre   == bump_prerel(arg, v.pre)
  IN  IF v = Empty THEN Empty ELSE
      CASE command = "major"    -> Plain(<<major + 1, 0, 0>>)
        [] command = "minor"    -> Plain(<<major, minor + 1, 0>>)
        [] command = "patch"    -> Plain(<<major, minor, patch + 1>>)
        [] command = "release"  -> Plain(v.core)
        [] command = "prerel"   -> IF Accepted(pre)
                                     THEN [Plain(v.core) EXCEPT !.pre = pre]
                                     ELSE Empty
        [] command = "build"    -> [v EXCEPT !.build = TRUE]
-----------------------------------------------------------------------------
(* Precedence in semver 2.0.0 (section 11), which the usage text and the   *)
(* comment above compare_fields refer to.                                  *)

CoreLess(c, d) ==
  \/ c[1] < d[1]
  \/ c[1] = d[1] /\ c[2] < d[2]
  \/ c[1] = d[1] /\ c[2] = d[2] /\ c[3] < d[3]

\* Numbers by value, below all other identifiers, which are in ASCII order.
IdentifierLess(a, b) ==
  \/ AllDigits(a) /\ AllDigits(b) /\ Value(a, 10) < Value(b, 10)
  \/ AllDigits(a) /\ ~AllDigits(b)
  \/ ~AllDigits(a) /\ ~AllDigits(b) /\ StringLess(a, b)

\* The first identifier that differs decides, or there are more of them.
PreLess(p, q) ==
  \E i \in DOMAIN q :
    /\ \A j \in 1..(i - 1) : j \in DOMAIN p /\ p[j] = q[j]
    /\ i \in DOMAIN p => IdentifierLess(p[i], q[i])

Precedes(v, w) ==
  \/ CoreLess(v.core, w.core)
  \/ /\ v.core = w.core /\ v.pre # <<>>
     /\ w.pre = <<>> \/ PreLess(Fields(v.pre), Fields(w.pre))

\* A version as the usage text has it (lines 36-39), with numbers that fit.
Canonical(v) ==
  /\ \A i \in 1..3 : v.core[i] <= MaxInt
  /\ v.pre = <<>> \/ \A k \in DOMAIN Fields(v.pre) :
       AllDigits(Fields(v.pre)[k]) =>
         is_nat(Fields(v.pre)[k]) /\ Value(Fields(v.pre)[k], 10) <= MaxInt
=============================================================================
