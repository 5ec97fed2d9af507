---------------------------- MODULE MCConfPublish ----------------------------
(***************************************************************************)
(* A small instance of ConfPublish: the process b of service t, whose name *)
(* begins s; a file of t that is written in place, two files of s that are *)
(* moved, one of them with the same configuration's name, a README.txt and *)
(* a file whose name has no dot.                                           *)
(***************************************************************************)
EXTENDS ConfPublish, TLC

CONSTANTS s, t, b, c1, c2, edited, twin, synced, readme, dotless

SvcOfB    == (b :> t)
SvcNames  == {<<t, s>>}
FileNames == (edited :> t) @@ (twin :> s) @@ (synced :> s) @@ (readme :> NULL) @@ (dotless :> NULL)
ConfNames == (edited :> c1) @@ (twin :> c1) @@ (synced :> c2) @@ (readme :> c1) @@ (dotless :> c1)

\* Three versions, over all files; the first is an empty text.
Versions == <<0, 2, 1>>
=============================================================================
