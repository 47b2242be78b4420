--------------------------- MODULE MCSourceIngestion ---------------------------
(* Small instances of SourceIngestion for TLC.                                *)
EXTENDS SourceIngestion

First == {1}
Second == {2}
OneAndThree == <<1, 3>>
================================================================================
