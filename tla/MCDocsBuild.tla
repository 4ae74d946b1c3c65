---------------------------- MODULE MCDocsBuild ----------------------------
(* Two contents of the requirements, so that an edit can be taken back,    *)
(* one document besides the entry point, and one page of the reference.    *)
EXTENDS DocsBuild

MCVersions == {"first", "second"}
MCGuides   == {"guide"}
MCApiPages == {"api"}
=============================================================================
