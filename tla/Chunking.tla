------------------------------ MODULE Chunking ------------------------------
(***************************************************************************)
(* The text of a version is cut into overlapping windows when it is parsed *)
(* (chunk_sections in src/src/parsing/core.py) and put together again when *)
(* somebody reads it (content in src/src/documents/query/flow.py).  The    *)
(* two never meet in the code: they agree only on the offsets of chunks.   *)
(*                                                                         *)
(* A section is the number of its characters, and a character is the pair  *)
(* of its section and its place in it, so that no two are alike.           *)
(***************************************************************************)
EXTENDS Integers, SequencesExt

CONSTANTS MaxSections, MaxLength,  \* sections of a document, characters of one
          MaxWindow                \* largest chunk size

ASSUME ChunkingAssumption ==
    MaxSections \in Nat \ {0} /\ MaxLength \in Nat \ {0} /\ MaxWindow \in Nat \ {0}

VARIABLES sections, chunkSize, overlap,            \* the input
          section, localStart, base, chunks,       \* chunk_sections
          phase, next, rebuilt, coveredEnd         \* content

input == <<sections, chunkSize, overlap>>
cutting == <<section, localStart, base, chunks>>
reading == <<next, rebuilt, coveredEnd>>
chunkingVars == <<input, cutting, phase, reading>>

Newline == <<0, 0>>
Letters(s, from, to) == [i \in 1 .. to - from |-> <<s, from + i>>]

\* The parsers return at least one section, and none without text.
ParsedSections == UNION {[1 .. n -> 1 .. MaxLength] : n \in 1 .. MaxSections}

ChunkingInit ==
    /\ sections \in ParsedSections
    /\ chunkSize \in 1 .. MaxWindow
    /\ overlap \in 0 .. chunkSize - 1
    /\ section = 1 /\ localStart = 0 /\ base = 0 /\ chunks = <<>>
    /\ phase = "cut"
    /\ next = 1 /\ rebuilt = <<>> /\ coveredEnd = 0

Stride == chunkSize - overlap
LocalEnd == IF localStart + chunkSize < sections[section]
            THEN localStart + chunkSize ELSE sections[section]

Window == [start |-> base + localStart, end |-> base + LocalEnd,
           text |-> Letters(section, localStart, LocalEnd)]

CutWindow ==
    /\ phase = "cut" /\ section <= Len(sections) /\ localStart < sections[section]
    /\ chunks' = Append(chunks, Window)
    /\ localStart' = IF LocalEnd = sections[section] THEN LocalEnd ELSE localStart + Stride
    /\ UNCHANGED <<input, section, base, phase, reading>>

\* Two sections are one character apart.
Gap == IF section < Len(sections) THEN 1 ELSE 0

NextSection ==
    /\ phase = "cut" /\ section <= Len(sections) /\ localStart >= sections[section]
    /\ base' = base + sections[section] + Gap
    /\ section' = section + 1 /\ localStart' = 0
    /\ UNCHANGED <<input, chunks, phase, reading>>

Stored ==
    /\ phase = "cut" /\ section > Len(sections)
    /\ phase' = "read"
    /\ UNCHANGED <<input, cutting, reading>>

----------------------------------------------------------------------------

\* Mutant of OverlapOf: the covered end is taken for the next character.
OverlapOffByOne(chunk) ==
    IF coveredEnd > chunk.start THEN coveredEnd - chunk.start + 1 ELSE 0

OverlapOf(chunk) == IF coveredEnd > chunk.start THEN coveredEnd - chunk.start ELSE 0

\* What content refuses with DOCUMENT-CHUNK-001.
Broken(chunk) ==
    \/ chunk.end - chunk.start # Len(chunk.text) \/ chunk.start < 0 \/ chunk.end <= chunk.start
    \/ next = 1 /\ chunk.start # 0
    \/ chunk.start > coveredEnd + 1
    \/ OverlapOf(chunk) >= Len(chunk.text) \/ chunk.end <= coveredEnd

Separator(chunk) == IF chunk.start > coveredEnd THEN <<Newline>> ELSE <<>>
Added(chunk) == Separator(chunk) \o SubSeq(chunk.text, OverlapOf(chunk) + 1, Len(chunk.text))

ReadChunk ==
    /\ phase = "read" /\ next <= Len(chunks)
    /\ IF Broken(chunks[next])
       THEN phase' = "refused" /\ UNCHANGED reading
       ELSE /\ rebuilt' = rebuilt \o Added(chunks[next])
            /\ coveredEnd' = chunks[next].end
            /\ next' = next + 1
            /\ phase' = phase
    /\ UNCHANGED <<input, cutting>>

Answered ==
    /\ phase = "read" /\ next > Len(chunks)
    /\ phase' = "answered"
    /\ UNCHANGED <<input, cutting, reading>>

ChunkingNext == CutWindow \/ NextSection \/ Stored \/ ReadChunk \/ Answered
ChunkingSpec == ChunkingInit /\ [][ChunkingNext]_chunkingVars

----------------------------------------------------------------------------
(* Properties *)

ChunkingTypeOK ==
    /\ section \in 1 .. Len(sections) + 1
    /\ localStart \in 0 .. MaxLength
    /\ \A i \in DOMAIN chunks : Len(chunks[i].text) \in 1 .. chunkSize
    /\ next \in 1 .. Len(chunks) + 1
    /\ phase \in {"cut", "read", "refused", "answered"}

\* The sections, with one newline between two of them.
Text == FlattenSeq([s \in DOMAIN sections |->
            (IF s = 1 THEN <<>> ELSE <<Newline>>) \o Letters(s, 0, sections[s])])

\* Whatever the sections, the window and the overlap, what is read is the text
\* that was parsed, character by character: no window is refused, no character
\* of an overlap is repeated and none at the edge of a section is lost.
ReadsWhatWasParsed ==
    /\ phase # "refused"
    /\ phase = "answered" => rebuilt = Text
=============================================================================
