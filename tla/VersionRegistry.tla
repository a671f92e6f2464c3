---------------------------- MODULE VersionRegistry ----------------------------
(***************************************************************************)
(* The versions a program supports, handshake/version_negotiation.c.       *)
(* GUIC_SUPPORT_VERSION puts each into a section of the program; the first *)
(* call of any function collects them into a search tree.  Version 0       *)
(* stands in the section as a mark and is not supported.                   *)
(***************************************************************************)
EXTENDS BigEndian, SequencesExt

VARIABLES
  section,        \* the versions in the section, in the linker's order
  started,        \* whether __support_version_init has run
  versions,       \* __versions_store
  version_count   \* __support_version_size

registryVars == <<section, started, versions, version_count>>

RegistryInit(sections) ==
  /\ section \in sections
  /\ started = FALSE
  /\ versions = {}
  /\ version_count = 0

(* __support_version_init, which every function calls first.  A version    *)
(* that two files support is counted twice and linked once.                *)
SupportInit ==
  /\ started' = TRUE
  /\ IF started THEN UNCHANGED <<versions, version_count>>
     ELSE /\ versions' = ToSet(section) \ {0}
          /\ version_count' = Cardinality({i \in DOMAIN section : section[i] # 0})
  /\ UNCHANGED section

(* What version_support tells after that.                                  *)
Supported(v) == v \in versions'

(* The versions of s as bytes, four for each.                              *)
VersionBytes(s) ==
  [i \in 1 .. 4 * Len(s) |-> BigEndianEncode(s[((i - 1) \div 4) + 1], 4)[((i - 1) % 4) + 1]]

(* Mutant of VersionFill: the mark is sent.                                *)
VersionFillMark(size) ==
  IF version_count' * 4 > size THEN <<>> ELSE VersionBytes(section)

(* The entry of the section that is the mark.                              *)
Mark == CHOOSE i \in DOMAIN section : section[i] = 0

(* version_fill into size bytes: it walks the section again, and leaves    *)
(* out the mark.                                                           *)
VersionFill(size) ==
  IF version_count' * 4 > size THEN <<>> ELSE VersionBytes(RemoveAt(section, Mark))
=============================================================================
