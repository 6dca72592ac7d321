-------------------------- MODULE MCRangeResponse --------------------------
(* An item of three bytes read two at a time, and every Range header of one *)
(* or two components over the positions 0..3, one past the end included.    *)
EXTENDS RangeResponse

Numbers == 0..(Size + 1)
MCComponents ==
    [kind : {"byte"}, first : 0..Size] \cup [kind : {"rest"}, first : 0..Size]
        \cup [kind : {"span"}, first : 0..(Size - 1), last : 0..Size]
        \cup [kind : {"suffix"}, count : Numbers] \cup [kind : {"junk"}]

MCHeaders == {<< >>} \cup {<<c>> : c \in MCComponents} \cup (MCComponents \X MCComponents)
=============================================================================
