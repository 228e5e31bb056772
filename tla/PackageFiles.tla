------------------------------- MODULE PackageFiles -------------------------------
(***************************************************************************)
(* The files that channels of other kinds come in (rc-extract-packages.c): *)
(* a Debian Packages file, of which the lines are modelled; an apt list of *)
(* rpm headers, of which the bytes are; and a directory of packages.  The  *)
(* files grow line by line, header by header and entry by entry; the last  *)
(* line of a Packages file may have no end, as in one that is cut short.   *)
(***************************************************************************)
EXTENDS Integers, Sequences, FiniteSets, SequencesExt, FiniteSetsExt

CONSTANTS
  Lines,       \* the lines of a Packages file: [kind, key, value, ended]
  Pieces,      \* headers of an apt list: sequences of bytes
  HeaderMagic, \* the bytes before each header
  Entries,     \* what a directory has: see Found
  MaxLength    \* how far the files grow

VARIABLES packages, list, directory

vars == <<packages, list, directory>>

Init ==
  /\ packages = <<>>
  /\ list = <<>>
  /\ directory = [marks |-> {}, index |-> <<>>, entries |-> {}]

\* Nothing continues a line that is not there, and nothing follows one without an end.
AddLine ==
  \E line \in Lines :
    /\ Len(packages) < MaxLength
    /\ packages # <<>> => Last(packages).ended
    /\ line.kind = "more" => packages # <<>> /\ Last(packages).kind \in {"field", "more"}
    /\ packages' = Append(packages, line)
    /\ UNCHANGED <<list, directory>>

AddPiece ==
  \E piece \in Pieces :
    /\ Len(list) < MaxLength
    /\ list' = list \o HeaderMagic \o piece
    /\ UNCHANGED <<packages, directory>>

AddEntry ==
  \E entry \in Entries :
    /\ Cardinality(directory.entries) < MaxLength
    /\ directory' = [directory EXCEPT !.entries = @ \cup {entry}]
    /\ UNCHANGED <<packages, list>>

Next == AddLine \/ AddPiece \/ AddEntry

Spec == Init /\ [][Next]_vars

First(S) == CHOOSE i \in S : \A j \in S : i <= j

-----------------------------------------------------------------------------
\* Debian Packages files.

NewPackage == [name |-> <<>>, version |-> <<>>, requires |-> <<>>, provides |-> <<>>]

\* The last line of the field in line i: lines that continue it, each with an end.
FieldEnd(lines, i) ==
  First({j \in i..Len(lines) :
           j = Len(lines) \/ lines[j + 1].kind # "more" \/ ~lines[j + 1].ended})

\* The value of the field in line i, with the lines that continue it.
FieldValue(lines, i) ==
  FoldLeft(LAMBDA all, line : all \o line.value, <<>>, SubSeq(lines, i, FieldEnd(lines, i)))

KnownKeys == {"Package", "Version", "Depends", "Pre-Depends", "Provides"}

SetField(p, key, value) ==
  CASE key = "Package" -> [p EXCEPT !.name = value]
    [] key = "Version" -> [p EXCEPT !.version = value]
    [] key \in {"Depends", "Pre-Depends"} -> [p EXCEPT !.requires = @ \o value]
    [] key = "Provides" -> [p EXCEPT !.provides = @ \o value]
    [] OTHER -> p

\* fill_debian_package, from line i on: a line without a colon is taken, with what follows
\* up to the next colon, for the key of that field; the block ends where a line is empty or
\* has no colon any more.  A line without an end has no value: of a field that is looked at
\* it is read through NULL, and the program dies; of another one the text is taken for the
\* next key.  The result is the package, the line where the reading ended, and whether it
\* died.
RECURSIVE FillPackage(_, _, _)
FillPackage(lines, i, p) ==
  LET Read(next, died) == [package |-> p, next |-> next, died |-> died]
      colons == {j \in i..Len(lines) : lines[j].kind = "field"}
      at == First(colons)
      known == at = i /\ lines[at].key \in KnownKeys
  IN  CASE i > Len(lines) -> Read(i, FALSE)
        [] i <= Len(lines) /\ (lines[i].kind = "empty" \/ colons = {}) -> Read(i, FALSE)
        [] i <= Len(lines) /\ lines[i].kind # "empty" /\ colons # {} /\ ~lines[at].ended ->
             Read(at + 1, known)
        [] OTHER ->
             FillPackage(lines, FieldEnd(lines, at) + 1,
                         IF known THEN SetField(p, lines[at].key, FieldValue(lines, at)) ELSE p)

\* The package provides itself.
Finished(p) == [p EXCEPT !.provides = Append(@, <<p.name, p.version>>)]

\* rc_extract_packages_from_debian_buffer looks for "Package: " wherever it is.
FromDebian(lines) ==
  LET Starts == {i \in DOMAIN lines : lines[i].key = "Package"}
      RECURSIVE From(_, _)
      From(i, given) ==
        LET starts == {j \in Starts : j >= i}
        IN  IF starts = {} THEN [given |-> given, died |-> FALSE]
            ELSE LET read == FillPackage(lines, First(starts), NewPackage)
                 IN  IF read.died THEN [given |-> given, died |-> TRUE]
                     ELSE From(read.next, Append(given, Finished(read.package)))
  IN  From(1, <<>>)

-----------------------------------------------------------------------------
\* Lists of rpm headers.

\* headerLoad, by what is at an offset: a header is <<9, p>>, for a package p.
HeaderAt(bytes, i) == i + 1 < Len(bytes) /\ bytes[i + 1] = 9

\* Where the magic is found, from the header at "i" on.
MagicsFrom(bytes, i) ==
  {k \in i..(Len(bytes) - Len(HeaderMagic) - 1) :
     SubSeq(bytes, k + 1, k + Len(HeaderMagic)) = HeaderMagic}

\* rc_extract_packages_from_aptrpm_buffer: the packages given to the callback and the
\* count returned, which is none when a header cannot be loaded.
RECURSIVE FromHeaders(_, _, _)
FromHeaders(bytes, i, given) ==
  IF ~HeaderAt(bytes, i) THEN [given |-> given, count |-> 0]
  ELSE LET more == Append(given, bytes[i + 2])
           magics == MagicsFrom(bytes, i)
       IN  IF magics = {} THEN [given |-> more, count |-> Len(more)]
           ELSE FromHeaders(bytes, First(magics) + Len(HeaderMagic), more)

FromAptRpm(bytes) ==
  IF Len(bytes) < Len(HeaderMagic) THEN [given |-> <<>>, count |-> 0]
  ELSE FromHeaders(bytes, Len(HeaderMagic), <<>>)

-----------------------------------------------------------------------------
\* Directories: [marks, index, entries], where marks are the files RC_SKIP, RC_RECURSIVE
\* and RC_IGNORE_PKGINFO that are there, index the packages of a packageinfo.xml, if any,
\* and an entry a package [name, version] or a directory.

IsDirectory(entry) == "marks" \in DOMAIN entry

\* package_into_hash
IntoHash(p, hash) ==
  IF \E q \in hash : q.name = p.name /\ q.version >= p.version THEN hash
  ELSE {q \in hash : q.name # p.name} \cup {p}

RECURSIVE Found(_, _)

\* rc_extract_packages_from_directory: the packages given to the callback.
Found(dir, asked) ==
  LET recursive == asked \/ "RC_RECURSIVE" \in dir.marks
      AddEntries(entry, hash) ==
        IF IsDirectory(entry)
        THEN IF recursive THEN FoldSet(IntoHash, hash, Found(entry, TRUE))
             ELSE hash
        ELSE IntoHash(entry, hash)
  IN  IF "RC_SKIP" \in dir.marks THEN {}
      ELSE IF "RC_IGNORE_PKGINFO" \notin dir.marks /\ dir.index # <<>> THEN ToSet(dir.index)
      ELSE FoldSet(AddEntries, {}, dir.entries)

-----------------------------------------------------------------------------
\* Properties.

\* The blocks of a Packages file, from their first "Package" on.
Blocks ==
  LET Ends == {i \in 1..(Len(packages) + 1) :
                 i = Len(packages) + 1 \/ packages[i].kind = "empty"}
      Starts == {i \in DOMAIN packages :
                   /\ packages[i].key = "Package"
                   /\ \A j \in 1..(i - 1) : packages[j].key = "Package"
                        => \E e \in Ends : j < e /\ e < i}
  IN  [n \in 1..Cardinality(Starts) |->
         LET i == CHOOSE k \in Starts : Cardinality({j \in Starts : j < k}) = n - 1
         IN  SubSeq(packages, i, First({e \in Ends : e > i}) - 1)]

\* The values of some fields of a block.
ValuesOf(block, keys) ==
  LET KeyAt(i) == block[CHOOSE j \in 1..i :
                    /\ block[j].kind = "field"
                    /\ \A k \in (j + 1)..i : block[k].kind # "field"].key
      of == {i \in DOMAIN block : block[i].kind \in {"field", "more"} /\ KeyAt(i) \in keys}
  IN  FoldLeft(LAMBDA all, i : IF i \in of THEN all \o block[i].value ELSE all, <<>>,
               [i \in DOMAIN block |-> i])

\* The value of the last field of a block with a key.
LastValue(block, key) ==
  LET at == {i \in DOMAIN block : block[i].key = key}
  IN  IF at = {} THEN <<>> ELSE FieldValue(block, CHOOSE i \in at : \A j \in at : j <= i)

\* "Linebreaks indicate the end of a package block" (rc-extract-packages.c:125): as many
\* packages are read as there are blocks, if the program does not die.
EveryBlockIsOne ==
  LET read == FromDebian(packages)
  IN  read.died \/ Len(read.given) = Len(Blocks)

\* The file ends within the value of a field that is looked at.
EndsWithinField ==
  /\ packages # <<>> /\ ~Last(packages).ended
  /\ Last(packages).kind = "field" /\ Last(packages).key \in KnownKeys
  /\ Blocks # <<>> /\ Last(Last(Blocks)) = Last(packages)

\* Each block gives one package, with what the fields of that block say, and it provides
\* itself; what comes before "Package" is passed over, and so is what has no end - unless
\* the file ends within the value of a field that is looked at, where the program dies and
\* only the blocks before have been given.
BlocksArePackages ==
  LET read == FromDebian(packages)
      whole == IF EndsWithinField THEN Front(Blocks) ELSE Blocks
      Ended(b) == SelectSeq(b, LAMBDA line : line.ended)
  IN  /\ read.died = EndsWithinField
      /\ read.given =
           [n \in DOMAIN whole |->
              LET b == Ended(whole[n])
                  name == LastValue(b, "Package")
                  version == LastValue(b, "Version")
              IN  [name |-> name, version |-> version,
                   requires |-> ValuesOf(b, {"Depends", "Pre-Depends"}),
                   provides |-> Append(ValuesOf(b, {"Provides"}), <<name, version>>)]]

\* A file that is cut short is read up to there.  It does not hold
\* (rc-extract-packages.c:142, 185).
CutFilesAreRead == ~FromDebian(packages).died

\* Every header of an apt list gives its package, to the last one, whatever its length, and
\* they are counted.
EveryHeaderIsRead ==
  LET headers == SelectSeq([i \in DOMAIN list |-> i],
                   LAMBDA i : i > Len(HeaderMagic) /\ i < Len(list) /\ list[i] = 9
                              /\ SubSeq(list, i - Len(HeaderMagic), i - 1) = HeaderMagic)
      read == FromAptRpm(list)
  IN  list # <<>> =>
        /\ read.given = [n \in DOMAIN headers |-> list[headers[n] + 1]]
        /\ read.count = Len(read.given)

\* All packages in the files of a directory, and in its directories if those are looked at.
RECURSIVE AllIn(_, _)
AllIn(dir, asked) ==
  IF "RC_SKIP" \in dir.marks THEN {}
  ELSE IF dir.index # <<>> /\ "RC_IGNORE_PKGINFO" \notin dir.marks THEN ToSet(dir.index)
  ELSE {e \in dir.entries : ~IsDirectory(e)}
       \cup UNION {IF asked \/ "RC_RECURSIVE" \in dir.marks THEN AllIn(e, TRUE) ELSE {} :
                     e \in {d \in dir.entries : IsDirectory(d)}}

\* A directory gives of every name the newest package it has anywhere, and that only.
NewestOfEachName ==
  \A recursive \in BOOLEAN :
    LET all == AllIn(directory, recursive)
    IN  Found(directory, recursive) =
          {p \in all : \A q \in all : q.name = p.name => q.version <= p.version}
=============================================================================
