----------------------------- MODULE MCChangeReader -----------------------------
(***************************************************************************)
(* ChangeReader on all short streams and on streams made of records of     *)
(* git diff --raw -z.                                                       *)
(***************************************************************************)
EXTENDS ChangeReader, SequencesExt

Records == {<<FileMark, NUL, Other, NUL>>, <<Other, NUL, FileMark, NUL>>,
            <<FileMark, Other, NUL, Other, FileMark, NUL>>}
RecordStreams == {FlattenSeq(records) : records \in BoundedSeq(Records, 3)}
PathStreams == {FlattenSeq([i \in 1..n |-> <<Other, NUL>>]) : n \in 0..5}
MCStreams == BoundedSeq(Characters, 6) \cup RecordStreams \cup PathStreams

================================================================================
