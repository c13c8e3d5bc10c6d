-------------------------- MODULE MCWorkshopQueue --------------------------
(* Instances of WorkshopQueue for TLC.                                     *)
EXTENDS WorkshopQueue

CONSTANTS a, b, f

\* No addon has a mountable file: the queue without the mounting threads.
NoFilesOf(items) == [i \in items |-> {}]
One == {a}
Two == {a, b}
FilesOfOne == NoFilesOf(One)
FilesOfTwo == NoFilesOf(Two)
OneFileEach == [i \in One |-> {f}]
=============================================================================
