------------------------------- MODULE ImaLog -------------------------------
(***************************************************************************)
(* The kernel's IMA measurement log as agent/ima_reader.py reads it: a     *)
(* sequence of lines, each an entry of five fields or malformed (a file    *)
(* name with a line break makes such a line).  Positions start at 0 in the *)
(* code, sequences at 1 here.  SHA-256 is taken to be injective, so a      *)
(* digest is its pre-image, a tagged tuple; an entry stands for the fields *)
(* that enter the pre-image (template_name does not).                      *)
(***************************************************************************)
EXTENDS Integers, Sequences, FiniteSets

CONSTANTS
    Entries,    \* what _parse_line returns
    Malformed   \* a line for which it returns None

ASSUME MalformedAssumption == Malformed \notin Entries

Line == Entries \cup {Malformed}

-----------------------------------------------------------------------------
WellFormed(lines) == { i \in DOMAIN lines : lines[i] # Malformed }

\* How many positions of P are not beyond i.
Rank(P, i) == Cardinality({ j \in P : j <= i })

\* The entries of the lines that parse, in their order.
Parsed(lines) ==
    LET P == WellFormed(lines)
    IN  [k \in 1..Cardinality(P) |-> lines[CHOOSE i \in P : Rank(P, i) = k]]

\* A reader that skips one line too many:
ReadPastStart(rawLog, start) ==
    Parsed(SubSeq(rawLog, start + 2, Len(rawLog)))

\* read_ima_log: start counts raw lines.
ReadLog(rawLog, start) ==
    Parsed(SubSeq(rawLog, start + 1, Len(rawLog)))

\* read_ima_log_line_count: it counts the lines that parse.
LineCount(rawLog) == Len(Parsed(rawLog))

-----------------------------------------------------------------------------
\* A leaf hash that forgets the position:
LeafHashNoIndex(entry, index) == <<"leaf", entry>>

\* _leaf_hash
LeafHash(entry, index) == <<"leaf", index, entry>>

\* New leaves that are numbered from 0 whatever was cached:
LeavesFromZero(entries, base) ==
    [i \in DOMAIN entries |-> LeafHash(entries[i], i - 1)]

LeafHashes(entries, base) ==
    [i \in DOMAIN entries |-> LeafHash(entries[i], base + i - 1)]

=============================================================================
