----------------------------- MODULE MCStreams -----------------------------
(* Streams for TLC: writers of normal, banded and high priority messages.  *)
EXTENDS Streams

message(hi, data, band, size) == [hi |-> hi, data |-> data, band |-> band, size |-> size]

\* One normal message fills a queue, two banded ones fill their band.
SomeKinds == {message(FALSE, TRUE, 0, 2), message(FALSE, TRUE, 1, 1), message(TRUE, FALSE, 0, 1)}
=============================================================================
