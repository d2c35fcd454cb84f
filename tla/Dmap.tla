---------------------------------- MODULE Dmap ----------------------------------
(***************************************************************************)
(* The track metadata of a SET_PARAMETER body (dmap.rs): entries of a tag, *)
(* a length and so many bytes, in which the fields stand inside of         *)
(* containers.  Bytes, tags and lengths are small numbers here, and a tag  *)
(* and a length have one place each, where the code's have four.           *)
(***************************************************************************)
EXTENDS Naturals, Sequences, SequencesExt

mlit == 1  \* the container

\* The tags of the fields; every other tag is skipped.
FieldTags == {2, 3, 4}  \* minm, asar, asal: title, artist, album

Entry(tag, payload) == <<tag, Len(payload)>> \o payload

\* walk: the entries of one level, from the n-th byte on; the first that runs
\* past the end of the data ends it.
walk(data) ==
    LET from[n \in 1..(Len(data) + 1)] ==
            LET rest == Len(data) - n - 1
            IN  IF rest < 0 \/ (rest >= 0 /\ data[n + 1] > rest) THEN <<>>
                ELSE <<[tag |-> data[n], payload |-> SubSeq(data, n + 2, n + 1 + data[n + 1])]>>
                     \o from[n + 2 + data[n + 1]]
    IN  from[1]

\* The closure on the container's entries: a field is set by each of its tags.
WithField(meta, entry) ==
    IF entry.tag \in FieldTags THEN [meta EXCEPT ![entry.tag] = <<entry.payload>>] ELSE meta

\* parse: <<>> without a container; else per field <<>> or <<its value>>.
parse(body) ==
    LET containers == SelectSeq(walk(body), LAMBDA e : e.tag = mlit)
        Contained(e) == walk(e.payload)
    IN  IF containers = <<>> THEN <<>>
        ELSE <<FoldLeft(WithField, [f \in FieldTags |-> <<>>],
                        FlattenSeq([i \in 1..Len(containers) |-> Contained(containers[i])]))>>
=============================================================================
