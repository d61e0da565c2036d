------------------------------- MODULE MCFilm -------------------------------
(* Films of four or five chunks.                                           *)
EXTENDS FilmDemuxer

Video(o, n, k) == [of |-> "video", at |-> o, size |-> n, key |-> k]
Audio(o, n)    == [of |-> "audio", at |-> o, size |-> n, key |-> FALSE]
Film(n, fix, chunks) == [len |-> n, cvid |-> fix, chunks |-> chunks]

Mixed == <<Video(1, 2, TRUE), Audio(3, 1), Video(4, 2, FALSE), Audio(6, 2), Video(8, 2, TRUE)>>
Fixed == <<Video(1, 3, TRUE), Audio(4, 1), Audio(5, 1), Video(6, 4, TRUE)>>

(* whole; ended within a video and within an audio chunk                   *)
MCFilms == {Film(10, FALSE, Mixed), Film(5, FALSE, Mixed), Film(7, FALSE, Mixed),
            Film(10, TRUE, Fixed), Film(8, TRUE, Fixed)}

(* ended before a chunk, in the block where that chunk begins              *)
MCTruncated == {Film(6, FALSE, <<Video(1, 2, TRUE), Video(4, 3, FALSE), Video(7, 1, FALSE)>>)}
=============================================================================
