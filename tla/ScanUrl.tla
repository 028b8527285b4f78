------------------------------- MODULE ScanUrl -------------------------------
(***************************************************************************)
(* The scan URL: src/intel/scan_url.py, the routes of src/intel/urls.py,   *)
(* and what src/intel/views.py makes of a URL before and after the lookup: *)
(* the pasted names, the legacy redirect, the canonical.                   *)
(*                                                                         *)
(* A segment is the list of its parts, what stands between two commas; a   *)
(* part is opaque, Read gives the name it stands for and Write the part    *)
(* that is written back for a name.                                        *)
(***************************************************************************)
EXTENDS Integers, Sequences, SequencesExt

CONSTANTS
  Names,          \* pilot names, as parse_names returns them
  Parts,          \* what may stand between two commas of a link
  Read,           \* Read[p]: part p with its separators as spaces, stripped
  Nothing,        \* what a part of nothing but separators reads as
  Write,          \* Write[n]: name n with an underscore for each space
  Size,           \* Size[p]: the characters of part p
  Legal,          \* the parts made of the characters NAMES_RE allows
  SegmentSizes,   \* the lengths NAMES_RE allows
  Fixed,          \* the segments with a route of their own: healthz, robots.txt, favicon.ico
  Windows,        \* WINDOWS
  DefaultWindow,  \* DEFAULT_WINDOW
  Absent,         \* a window or a parameter the URL does not have
  MaxCharacters   \* MAX_CHARACTERS

ASSUME PartsAssumption ==
  /\ Read \in [Parts -> Names \cup {Nothing}] /\ Nothing \notin Names
  /\ Write \in [Names -> Parts] /\ \A n \in Names : Read[Write[n]] = n
  /\ Size \in [Parts -> Nat] /\ Legal \subseteq Parts
  /\ \A p \in Legal : Read[p] \in Names => Write[Read[p]] \in Legal
ASSUME WindowsAssumption == DefaultWindow \in Windows /\ Absent \notin Windows
ASSUME MaxCharactersAssumption == MaxCharacters \in Nat \ {0}

\* parse_names: the names in the order of their first occurrence, without duplicates.
ParseNames(segment) ==
  FoldLeft(LAMBDA seen, p : IF Read[p] \in ToSet(seen) \cup {Nothing} THEN seen
                            ELSE Append(seen, Read[p]),
           <<>>, segment)

\* _pasted_names: the names a page is about, and how many it leaves out.
Capped(number) == IF number < MaxCharacters THEN number ELSE MaxCharacters
Pasted(segment) == SubSeq(ParseNames(segment), 1, Capped(Len(ParseNames(segment))))
Dropped(segment) == Len(ParseNames(segment)) - Len(Pasted(segment))

Url(segment, window, filters) ==
  [segment |-> segment, window |-> window, slash |-> FALSE,
   asked |-> Absent, askedWindow |-> Absent, filters |-> filters]

\* scan_path, with the query that goes behind it.
ScanPath(names, window, filters) ==
  IF names = <<>> THEN Url(<<>>, Absent, filters)
  ELSE Url([k \in DOMAIN names |-> Write[names[k]]],
           IF window = DefaultWindow THEN Absent ELSE window, filters)

SegmentSize(segment) == FoldLeft(LAMBDA size, p : size + 1 + Size[p], 0, segment) - 1

\* NamesConverter and WindowConverter.
MatchesNames(url) ==
  /\ ToSet(url.segment) \subseteq Legal
  /\ SegmentSize(url.segment) \in SegmentSizes
  /\ url.window \in Windows \cup {Absent}

\* urlpatterns, in their order: the fixed paths match without a window or a slash.
RouteOf(url) ==
  IF url.segment = <<>> THEN "scan"
  ELSE IF url.segment \in Fixed /\ url.window = Absent /\ ~url.slash THEN "fixed"
  ELSE IF ~MatchesNames(url) THEN "none"
  ELSE IF url.slash THEN "slash" ELSE "scan"

\* The RedirectViews: the same path without its slash, and without the query.
SlashTarget(url) == Url(url.segment, url.window, {})

IsLegacy(url) == url.asked # Absent \/ url.askedWindow # Absent

\* Mutant: what the path names is moved, also when the query names somebody.
LegacyTargetOfPath(url) ==
  ScanPath(Pasted(url.segment), IF url.askedWindow \in Windows THEN url.askedWindow ELSE DefaultWindow, url.filters)

\* _legacy_redirect: the names and the window move into the path; an empty names parameter
\* counts as none, a window that is none of ours as the default.
LegacyTarget(url) ==
  ScanPath(Pasted(IF url.asked \in {Absent, <<>>} THEN url.segment ELSE url.asked),
           IF url.askedWindow \in Windows THEN url.askedWindow ELSE DefaultWindow,
           url.filters)

\* What a browser does with a URL: the URLs it is sent on to.
Redirects(url) ==
  CASE RouteOf(url) = "slash" -> {SlashTarget(url)}
    [] RouteOf(url) = "scan" /\ IsLegacy(url) -> {LegacyTarget(url)}
    [] OTHER -> {}

\* window or DEFAULT_WINDOW
WindowOf(url) == IF url.window = Absent THEN DefaultWindow ELSE url.window

\* _esi_spelling: spelled[n] is the name ESI has for the pilot n stands for, or n itself.
Canonical(names, window, spelled) ==
  ScanPath([k \in DOMAIN names |-> spelled[names[k]]], window, {})
=============================================================================
