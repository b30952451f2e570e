------------------------------- MODULE Masking -------------------------------
(***************************************************************************)
(* What a reader gets of a document that has personal data in it: the      *)
(* masking of the passages that a search returns, mask_pii in              *)
(* src/src/guardrails/privacy/masking.py.  The patterns are the spans they *)
(* match, found in the order of their priority.                            *)
(*                                                                         *)
(* A letter of a passage is <<its place, 0>>; the characters of the mask   *)
(* of what begins after a place are <<that place, 1>>, <<that place, 2>>   *)
(* and so on.                                                              *)
(***************************************************************************)
EXTENDS Chunking

CONSTANT Texts     \* [length, dates, found] of a passage and what is found in it

ASSUME MaskingAssumption ==
    \A t \in Texts :
        /\ t.length \in Nat /\ t.found \in Seq(ToSet(t.found))
        /\ \A m \in ToSet(t.found) :
              m.from \in Nat /\ m.mask \in Nat /\ m.upto \in m.from + 1 .. t.length

VARIABLE passage   \* the matches still to be looked at, those taken, those replaced

Passage(t) == [text |-> t, left |-> t.found, taken |-> {}, replaced |-> {},
               masked |-> [i \in 1 .. t.length |-> <<i, 0>>]]

MaskingInit == passage \in {Passage(t) : t \in Texts}

Overlaps(span, other) == span.from < other.upto /\ other.from < span.upto

\* Kinds of numbers that a date looks like.
DateLike == {"resident", "foreigner", "account"}

Skipped(match) ==
    \/ \E m \in passage.taken : Overlaps(match, m)
    \/ match.kind \in DateLike /\ \E d \in passage.text.dates : Overlaps(match, d)

\* The matches are looked at by the priority of their patterns.
LookAtMatch ==
    /\ passage.left # <<>>
    /\ LET match == Head(passage.left)
       IN  passage' = [passage EXCEPT !.left = Tail(@),
                                      !.taken = IF Skipped(match) THEN @ ELSE @ \union {match}]

\* The mask of an e-mail address may be longer or shorter than what it hides.
Replaced(letters, match) ==
    SubSeq(letters, 1, match.from) \o [k \in 1 .. match.mask |-> <<match.from, k>>]
        \o SubSeq(letters, match.upto + 1, Len(letters))

\* The spans were found in the text: the last one is replaced first.
Mask ==
    /\ passage.left = <<>>
    /\ \E match \in passage.taken \ passage.replaced :
        /\ \A m \in passage.taken \ passage.replaced : m.from <= match.from
        /\ passage' = [passage EXCEPT !.masked = Replaced(@, match),
                                      !.replaced = @ \union {match}]

MaskingNext == LookAtMatch \/ Mask
MaskingSpec == MaskingInit /\ [][MaskingNext]_passage

----------------------------------------------------------------------------
(* Properties *)

Hides(matches, i) == \E m \in matches : m.from < i /\ i <= m.upto

\* What is to be read, where these matches are masked.
MaskedLetters(matches) ==
    {<<i, 0>> : i \in {j \in 1 .. passage.text.length : ~Hides(matches, j)}}
        \union UNION {{<<m.from, k>> : k \in 1 .. m.mask} : m \in matches}

Precedes(c, d) == c[1] < d[1] \/ (c[1] = d[1] /\ c[2] < d[2])

\* A masked passage hides every match that was not skipped, has every other
\* letter and every mask whole, once and in its place, and skips a match only
\* for one that it masks or for a date.
MaskedWell ==
    passage.left = <<>> /\ passage.replaced = passage.taken =>
        /\ ToSet(passage.masked) = MaskedLetters(passage.taken)
        /\ \A i, j \in DOMAIN passage.masked :
              i < j => Precedes(passage.masked[i], passage.masked[j])
        /\ \A match \in ToSet(passage.text.found) :
              \/ \E i \in match.from + 1 .. match.upto : Hides(passage.taken, i)
              \/ match.kind \in DateLike /\ \E d \in passage.text.dates : Overlaps(match, d)

\* What a reader is given of a document is what was parsed, no more and no less,
\* and a passage that a search returns is that text with its masks where
\* something was found: see ReadsWhatWasParsed (the windows of chunk_sections)
\* and MaskedWell (the spans of privacy/masking.py).
PassagesSound == ReadsWhatWasParsed /\ MaskedWell
=============================================================================
