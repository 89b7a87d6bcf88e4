------------------------------ MODULE MCScrape ------------------------------
(***************************************************************************)
(* Three Sources, one without URL.  A feed may be empty, repeat an item,   *)
(* hold an article in a newer version, one without text and one without    *)
(* an id.                                                                  *)
(***************************************************************************)
EXTENDS Scrape, TLC

CONSTANTS p, q, z, i1, i2, x1, x2, r1, r2

MCSources == <<p, z, q>>

MCSentencesOf == x1 :> <<"a">> @@ x2 :> <<"a", "b">>

It(id, text) == [id |-> id, text |-> text]

MCFeeds ==
  p :> {<<It(i1, x1), It(i2, NoText), It(i2, x2)>>, <<It(i1, x2), It(i1, x1)>>}
  @@ z :> {}
  @@ q :> {<<>>, <<It(NoId, x1), It(i1, x1)>>}
=============================================================================
