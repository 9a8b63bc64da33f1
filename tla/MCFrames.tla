------------------------------ MODULE MCFrames ------------------------------
(* A short video in which two plates and a face come and go.               *)
EXTENDS RedactionFlow

\* A pixel is divided so that interpolation (by 2, 3, 4) of means (of 3, 4,
\* 5 places) is exact; boxes are four pixels wide.
Pixel == 720

Widths == <<1, 2>>

MCEncoders == <<TRUE, FALSE>>

MCClips == {<<5, 5>>, <<4, 4>>, <<2, 4>>, <<0, 1>>}

Plate(x, sure) == [class |-> "plate", at |-> x * Pixel, sure |-> sure]
Face(x)        == [class |-> "face", at |-> x * Pixel, sure |-> TRUE]

\* A plate moves right, then jumps; a second one follows it, or is its double.
MCSightings == [f \in 0..4 |->
    CASE f = 0 -> {{}, {Plate(2, TRUE)}, {Plate(2, TRUE), Face(3)}}
      [] f = 2 -> {{}, {Plate(4, TRUE)}, {Plate(4, FALSE)}, {Plate(4, TRUE), Plate(2, TRUE)}}
      [] f = 3 -> {{Plate(6, TRUE), Plate(7, FALSE)}, {Plate(6, FALSE), Plate(4, TRUE)}}
      [] OTHER -> {{Plate(7, TRUE)}, {Plate(7, FALSE), Face(3)}}]

MCPlaces == {6 * Pixel}

=============================================================================
