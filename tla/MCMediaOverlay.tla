---------------------------- MODULE MCMediaOverlay ----------------------------
(* Two SMIL files over two audio files and three documents, and a document *)
(* without overlay: clips that follow one another, one of them to be       *)
(* skipped, another with a gap behind it, a file whose last clip ends with *)
(* it, a SMIL file over two documents.                                     *)
EXTENDS MediaOverlay, TLC

CONSTANTS f1, f2, d1, d2, d3, silent

Par(smil, document, audioFile, begin, end, skippable) ==
    [smil |-> smil, doc |-> document, file |-> audioFile,
     begin |-> begin, end |-> end, skippable |-> skippable]

MCBook == <<
    Par(1, d1, f1, 0, 1, FALSE),
    Par(1, d1, f1, 1, 2, FALSE),
    Par(1, d1, f1, 2, 4, TRUE),
    Par(1, d1, f1, 4, 5, FALSE),
    Par(1, d1, f1, 5, 6, TRUE),
    Par(1, d2, f1, 8, 9, FALSE),
    Par(2, d3, f2, 0, 2, FALSE) >>

MCLength == (f1 :> 10) @@ (f2 :> 2)
=============================================================================
