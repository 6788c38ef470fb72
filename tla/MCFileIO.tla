------------------------------ MODULE MCFileIO ------------------------------
(***************************************************************************)
(* An instance of FileIO for TLC.  Two processes share a file of two       *)
(* bytes; a page has two bytes and a packet one, so that reads, writes and *)
(* the directory all take several requests.                                *)
(***************************************************************************)
EXTENDS FileIO

MCContent == <<<<"old", 1>>, <<"old", 2>>>>
=============================================================================
