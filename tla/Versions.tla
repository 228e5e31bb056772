-------------------------------- MODULE Versions --------------------------------
(***************************************************************************)
(* Versions: how strings of a version or a release compare for rpm         *)
(* (vercmp) and for dpkg (verrevcmp), how specs compare, how a version is  *)
(* parsed and written, what dependency a provision meets, and how an       *)
(* alternative of dependencies is written into a name and read back; and   *)
(* what that amounts to.  A string is a sequence of ASCII codes.  ints     *)
(* have IntBits bits.  A state holds two strings and three versions that a *)
(* client has met, one after another.                                      *)
(***************************************************************************)
EXTENDS Integers, Sequences, SequencesExt

CONSTANTS
  IntBits,     \* the width of an int
  ABSENT,      \* a string that is NULL
  AlwaysVerifyRelease, IgnoreAbsentEpochs, ProvideAllVersions,  \* RCPackmanCapabilities
  Chars, MaxLen,  \* the characters of the strings that are compared, and their length
  Specs,          \* the specs that are met
  Relations,      \* the relations of dependencies
  Junk            \* what an epoch that is not initialized may be

\* What the constants are, assumed wherever they are given values.
VersionsAssumption ==
  /\ IntBits \in Nat \ {0}
  /\ {AlwaysVerifyRelease, IgnoreAbsentEpochs, ProvideAllVersions} \subseteq BOOLEAN

Hyphen == 45
Colon  == 58
Zero   == 48

IsDigit(c) == c \in 48..57
IsAlpha(c) == c \in (65..90) \cup (97..122)
IsAlnum(c) == IsDigit(c) \/ IsAlpha(c)

TakeWhile(s, Test(_)) ==
  LET i == SelectInSeq(s, LAMBDA c : ~Test(c))
  IN  IF i = 0 THEN s ELSE SubSeq(s, 1, i - 1)

DropWhile(s, Test(_)) ==
  SubSeq(s, Len(TakeWhile(s, Test)) + 1, Len(s))

\* strcmp
RECURSIVE Strcmp(_, _)
Strcmp(s, t) ==
  IF s = t THEN 0 ELSE IF s = <<>> THEN -1 ELSE IF t = <<>> THEN 1
  ELSE IF Head(s) # Head(t) THEN Head(s) - Head(t) ELSE Strcmp(Tail(s), Tail(t))

\* strtol and strtoul, in range
Value(digits) == FoldLeft(LAMBDA n, c : 10 * n + (c - Zero), 0, digits)

\* A number that is returned as an int.
AsInt(n) ==
  LET m == n % 2 ^ IntBits
  IN  IF m >= 2 ^ (IntBits - 1) THEN m - 2 ^ IntBits ELSE m

Sign(n) == IF n > 0 THEN 1 ELSE IF n < 0 THEN -1 ELSE 0

-----------------------------------------------------------------------------
\* vercmp of the RPM back end.

\* Faulty: numbers are compared as strings are.
SegcmpNoLength(one, two, isnum) == Strcmp(one, two)

\* Two segments, both of digits or both of letters: leading zeros are dropped, then
\* the longer number wins.
Segcmp(one, two, isnum) ==
  IF ~isnum THEN Strcmp(one, two)
  ELSE LET n == DropWhile(one, LAMBDA c : c = Zero)
           m == DropWhile(two, LAMBDA c : c = Zero)
       IN  IF Len(n) # Len(m) THEN Sign(Len(n) - Len(m)) ELSE Strcmp(n, m)

RECURSIVE VercmpSegments(_, _)
VercmpSegments(a, b) ==
  IF a = <<>> /\ b = <<>> THEN 0
  ELSE IF a = <<>> THEN -1
  ELSE IF b = <<>> THEN 1
  ELSE LET one    == DropWhile(a, LAMBDA c : ~IsAlnum(c))
           two    == DropWhile(b, LAMBDA c : ~IsAlnum(c))
           isnum  == one # <<>> /\ IsDigit(Head(one))
           In(c)  == IF isnum THEN IsDigit(c) ELSE IsAlpha(c)
           first  == TakeWhile(one, In)
           second == TakeWhile(two, In)
           rc     == Segcmp(first, second, isnum)
       IN  IF first = <<>> THEN -1
           ELSE IF second = <<>> THEN (IF isnum THEN 1 ELSE -1)
           ELSE IF rc # 0 THEN rc
           ELSE VercmpSegments(DropWhile(one, In), DropWhile(two, In))

Vercmp(a, b) == IF a = b THEN 0 ELSE VercmpSegments(a, b)

-----------------------------------------------------------------------------
\* verrevcmp of the Debian back end.

Order(c) == IF IsAlpha(c) THEN c ELSE c + 256

\* The characters up to the next digit, the end of them counting as 0.
RECURSIVE Nondigits(_, _)
Nondigits(v, r) ==
  IF v = <<>> /\ r = <<>> THEN 0
  ELSE LET vc == IF v = <<>> THEN 0 ELSE Order(Head(v))
           rc == IF r = <<>> THEN 0 ELSE Order(Head(r))
       IN  IF vc # rc THEN vc - rc ELSE Nondigits(Tail(v), Tail(r))

RECURSIVE Verrevcmp(_, _)
Verrevcmp(val, ref) ==
  LET NotDigit(c) == ~IsDigit(c)
      text  == Nondigits(TakeWhile(val, NotDigit), TakeWhile(ref, NotDigit))
      vp    == DropWhile(val, NotDigit)
      rp    == DropWhile(ref, NotDigit)
      vl    == Value(TakeWhile(vp, IsDigit))
      rl    == Value(TakeWhile(rp, IsDigit))
      v     == DropWhile(vp, IsDigit)
      r     == DropWhile(rp, IsDigit)
  IN  IF text # 0 THEN text
      ELSE IF vl # rl THEN AsInt(vl - rl)
      ELSE IF v = <<>> /\ r = <<>> THEN 0
      ELSE IF v = <<>> THEN -1
      ELSE IF r = <<>> THEN 1
      ELSE Verrevcmp(v, r)

-----------------------------------------------------------------------------
\* Specs: [hasEpoch, epoch, version, release], of one name.

OrEmpty(s) == IF s = ABSENT THEN <<>> ELSE s

\* rc_rpmman_version_compare
RpmCompare(x, y) ==
  LET epochs   == IF x.hasEpoch /\ y.hasEpoch THEN AsInt(x.epoch - y.epoch)
                  ELSE IF x.hasEpoch /\ x.epoch > 0 THEN 1
                  ELSE IF y.hasEpoch /\ y.epoch > 0 THEN -1 ELSE 0
      versions == Vercmp(OrEmpty(x.version), OrEmpty(y.version))
  IN  IF epochs # 0 THEN epochs
      ELSE IF versions # 0 THEN versions
      ELSE IF OrEmpty(x.release) # <<>> /\ OrEmpty(y.release) # <<>>
           THEN Vercmp(x.release, y.release) ELSE 0

\* rc_packman_generic_version_compare, rc_debman_version_compare
DebCompare(x, y) ==
  LET epochs   == AsInt(x.epoch - y.epoch)
      versions == Verrevcmp(OrEmpty(x.version), OrEmpty(y.version))
  IN  IF epochs # 0 THEN epochs
      ELSE IF versions # 0 THEN versions
      ELSE Verrevcmp(OrEmpty(x.release), OrEmpty(y.release))

\* The place of a character, 0 if there is none: strchr, strrchr.
Strchr(s, c)  == SelectInSeq(s, LAMBDA d : d = c)
Strrchr(s, c) == LET i == Strchr(Reverse(s), c) IN IF i = 0 THEN 0 ELSE Len(s) + 1 - i

\* What is before and after a hyphen, if there is one.
Released(hasEpoch, epoch, s, at) ==
  [hasEpoch |-> hasEpoch, epoch |-> epoch,
   version |-> IF at = 0 THEN s ELSE SubSeq(s, 1, at - 1),
   release |-> IF at = 0 THEN ABSENT ELSE SubSeq(s, at + 1, Len(s))]

\* parse_version of the RPM back end: what is before a colon is an epoch only if it is
\* a number, and the release begins at the first hyphen.
RpmParse(s) ==
  LET i     == Strchr(s, Colon)
      isNum == i # 0 /\ \A j \in 1..(i - 1) : IsDigit(s[j])
      rest  == IF isNum THEN SubSeq(s, i + 1, Len(s)) ELSE s
  IN  Released(isNum, IF isNum THEN Value(SubSeq(s, 1, i - 1)) ELSE 0, rest,
               Strchr(rest, Hyphen))

\* rc_debman_parse_version, rc_debman_parse_version_wrapper: a colon always ends an
\* epoch, and the release begins at the last hyphen.
DebParse(s) ==
  LET i    == Strchr(s, Colon)
      rest == SubSeq(s, i + 1, Len(s))
  IN  Released(TRUE, Value(TakeWhile(SubSeq(s, 1, i - 1), IsDigit)), rest,
               Strrchr(rest, Hyphen))

RECURSIVE Decimal(_)
Decimal(n) == IF n < 10 THEN <<Zero + n>> ELSE Decimal(n \div 10) \o <<Zero + (n % 10)>>

\* rc_package_spec_version_to_str
VersionToStr(x) ==
  (IF x.hasEpoch /\ x.epoch > 0 THEN Decimal(x.epoch) \o <<Colon>> ELSE <<>>)
  \o OrEmpty(x.version)
  \o (IF OrEmpty(x.release) = <<>> THEN <<>> ELSE <<Hyphen>> \o x.release)

-----------------------------------------------------------------------------
\* Dependencies: a spec and a relation, the set of what may be: "lt", "eq", "gt";
\* none of them is RC_RELATION_ANY.

\* The table at the end of rc_package_dep_verify_relation.
Meets(c, dep, prov) ==
  \/ c < 0 /\ ("gt" \in prov \/ "lt" \in dep)
  \/ c > 0 /\ ("lt" \in prov \/ "gt" \in dep)
  \/ c = 0 /\ \E r \in {"eq", "lt", "gt"} : r \in prov /\ r \in dep

Bare(x) == [x EXCEPT !.hasEpoch = FALSE, !.epoch = 0]

\* How a provided spec compares with one that is required, for a back end's
\* comparison.
VerifyCompare(Compare(_, _), d, p) ==
  LET epochs == IF d.hasEpoch /\ p.hasEpoch
                THEN Compare([p EXCEPT !.version = ABSENT, !.release = ABSENT],
                             [d EXCEPT !.version = ABSENT, !.release = ABSENT])
                ELSE IF p.hasEpoch /\ p.epoch > 0 THEN (IF IgnoreAbsentEpochs THEN 0 ELSE 1)
                ELSE IF d.hasEpoch /\ d.epoch > 0 THEN -1 ELSE 0
      Rel(x) == IF AlwaysVerifyRelease \/ ABSENT \notin {d.release, p.release}
                THEN Bare(x) ELSE [Bare(x) EXCEPT !.release = ABSENT]
  IN  IF epochs # 0 THEN epochs ELSE Compare(Rel(p), Rel(d))

\* rc_package_dep_verify_relation, for dependencies of one name and any channel.
VerifyRelation(Compare(_, _), dep, prov) ==
  \/ dep.relation = {}
  \/ prov.relation = {} /\ ProvideAllVersions
  \/ /\ prov.relation # {}
     /\ Meets(VerifyCompare(Compare, dep.spec, prov.spec), dep.relation, prov.relation)

\* rc_dep_or_dep_slist_to_string: a dependency's version among the alternatives.
OrItem(dep) ==
  IF dep.relation = {} THEN <<>>
  ELSE (IF dep.spec.epoch # 0 THEN Decimal(dep.spec.epoch) \o <<Colon>> ELSE <<>>)
       \o OrEmpty(dep.spec.version)
       \o (IF dep.spec.release = ABSENT THEN <<>> ELSE <<Hyphen>> \o dep.spec.release)

\* rc_dep_string_to_or_dep_slist: the dependency that is read from it.  The epoch of
\* one without a version is not initialized.
OrRead(item, relation, junk) ==
  [relation |-> relation,
   spec |-> IF relation = {}
            THEN [hasEpoch |-> TRUE, epoch |-> junk, version |-> ABSENT, release |-> ABSENT]
            ELSE DebParse(item)]

-----------------------------------------------------------------------------
VARIABLES a, b,    \* strings
          x, y, z  \* specs

vars == <<a, b, x, y, z>>

Init == a = <<>> /\ b = <<>> /\ x \in Specs /\ y \in Specs /\ z \in Specs

\* Longer strings are compared.
Lengthen ==
  \E c \in Chars :
    /\ \/ Len(a) < MaxLen /\ a' = Append(a, c) /\ b' = b
       \/ Len(b) < MaxLen /\ b' = Append(b, c) /\ a' = a
    /\ UNCHANGED <<x, y, z>>

\* The specs change places.
Rotate == x' = y /\ y' = z /\ z' = x /\ UNCHANGED <<a, b>>

Next == Lengthen \/ Rotate

Spec == Init /\ [][Next]_vars

-----------------------------------------------------------------------------
\* Reference definitions.

\* The segments of a string, of digits or of letters, each a number or a string.
RECURSIVE Segments(_)
Segments(s) ==
  IF s = <<>> THEN <<>>
  ELSE IF IsDigit(Head(s))
       THEN <<<<"num", Value(TakeWhile(s, IsDigit))>>>> \o Segments(DropWhile(s, IsDigit))
  ELSE IF IsAlpha(Head(s))
       THEN <<<<"alpha", TakeWhile(s, IsAlpha)>>>> \o Segments(DropWhile(s, IsAlpha))
  ELSE Segments(Tail(s))

\* Numbers are newer than letters, and more than nothing is newer than nothing.
SegmentOrder(p, q) ==
  IF p[1] # q[1] THEN (IF p[1] = "num" THEN 1 ELSE -1)
  ELSE IF p[1] = "num" THEN Sign(p[2] - q[2]) ELSE Sign(Strcmp(p[2], q[2]))

\* The parts of a Debian version: text and number, in turn.
RECURSIVE Runs(_)
Runs(s) ==
  IF s = <<>> THEN <<>>
  ELSE IF IsDigit(Head(s))
       THEN <<Value(TakeWhile(s, IsDigit))>> \o Runs(DropWhile(s, IsDigit))
  ELSE LET NotDigit(c) == ~IsDigit(c)
       IN  <<TakeWhile(s, NotDigit)>> \o Runs(DropWhile(s, NotDigit))

\* Text first: a version that begins with a number begins with no text.
DebRuns(s) == IF s # <<>> /\ IsDigit(Head(s)) THEN <<<<>>>> \o Runs(s) ELSE Runs(s)

LettersFirst(s) == [i \in DOMAIN s |-> IF IsAlpha(s[i]) THEN s[i] ELSE 1000 + s[i]]
TextOrder(s, t) == Sign(Strcmp(LettersFirst(s), LettersFirst(t)))

\* The first difference decides, and the shorter list is the lesser one.
Lexicographic(s, t, Cmp(_, _, _)) ==
  LET differ == {i \in 1..(IF Len(s) < Len(t) THEN Len(s) ELSE Len(t)) : Cmp(i, s[i], t[i]) # 0}
  IN  IF differ = {} THEN Sign(Len(s) - Len(t))
      ELSE LET i == CHOOSE j \in differ : \A k \in differ : j <= k IN Cmp(i, s[i], t[i])

RpmReference(s, t) ==
  Lexicographic(Segments(s), Segments(t), LAMBDA i, p, q : SegmentOrder(p, q))

\* What is missing at the end counts as no text and as zero.
Padded(parts, n) ==
  [i \in 1..n |-> IF i \in DOMAIN parts THEN parts[i] ELSE IF i % 2 = 1 THEN <<>> ELSE 0]

DebReference(s, t) ==
  LET n == Len(DebRuns(s)) + Len(DebRuns(t))
  IN  Lexicographic(Padded(DebRuns(s), n), Padded(DebRuns(t), n),
                    LAMBDA i, p, q : IF i % 2 = 1 THEN TextOrder(p, q) ELSE Sign(p - q))

-----------------------------------------------------------------------------
\* A version that does not end in a separator.
Ended(s) == s # <<>> => IsAlnum(Last(s))

\* vercmp compares the segments one by one, numbers as numbers (its comments), in
\* versions that do not end in a separator.
RpmAgrees == Ended(a) /\ Ended(b) => Sign(Vercmp(a, b)) = RpmReference(a, b)

\* verrevcmp compares text and number in turn, letters before anything else.
DebAgrees == Sign(Verrevcmp(a, b)) = DebReference(a, b)

\* No two versions are each older than the other ("-1: b is newer than a", rc-rpmman.c:2667).
RpmAntisymmetric == Sign(Vercmp(a, b)) = -Sign(Vercmp(b, a))

\* Specs are ordered: a package that is newer than one that is newer than a third is
\* newer than the third, whichever back end compares (rc_world_get_best_upgrade finds
\* the newest by comparing one by one).
NewerIsTransitive ==
  /\ RpmCompare(x, y) >= 0 /\ RpmCompare(y, z) >= 0 => RpmCompare(x, z) >= 0
  /\ DebCompare(x, y) >= 0 /\ DebCompare(y, z) >= 0 => DebCompare(x, z) >= 0

\* A version that is written and parsed compares as the same as before
\* (rc_package_spec_version_to_str, rc_packman_parse_version).
ReadsBack ==
  /\ RpmCompare(x, RpmParse(VersionToStr(x))) = 0
  /\ DebCompare(x, DebParse(VersionToStr(x))) = 0

\* Places on a line for two versions of which the first compares as c with the second.
Satisfies(place, at, relation) ==
  \/ place = at /\ "eq" \in relation
  \/ place < at /\ "lt" \in relation
  \/ place > at /\ "gt" \in relation

\* A dependency is met by a provision if some version is admitted by both
\* (rc_package_dep_verify_relation).
MetByOverlap ==
  \A dep, prov \in Relations \ {{}} :
    LET c  == VerifyCompare(RpmCompare, x, y)
        atDep  == IF c > 0 THEN 1 ELSE 3
        atProv == IF c = 0 THEN 3 ELSE IF c > 0 THEN 3 ELSE 1
    IN  VerifyRelation(RpmCompare, [spec |-> x, relation |-> dep],
                                   [spec |-> y, relation |-> prov])
        <=> \E place \in 0..4 : /\ Satisfies(place, atDep, dep)
                                /\ Satisfies(place, atProv, prov)

\* A dependency among alternatives is met by what it is met by when it is alone
\* (rc_dep_or_dep_slist_to_string, rc_dep_string_to_or_dep_slist).  With rpm's absent epochs it
\* does not hold: what had none is read back with epoch 0 (rc-dep-or.c:255).
AlternativesKeepTheirMeaning ==
  \A dep, prov \in Relations : \A junk \in Junk :
    LET d == [spec |-> x, relation |-> dep]
        p == [spec |-> y, relation |-> prov]
    IN  VerifyRelation(DebCompare, OrRead(OrItem(d), dep, junk), p)
          = VerifyRelation(DebCompare, d, p)

=============================================================================
