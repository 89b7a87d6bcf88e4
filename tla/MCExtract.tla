----------------------------- MODULE MCExtract -----------------------------
(***************************************************************************)
(* Two articles.  s1 repeats a word, has a token in kana and one without   *)
(* reading; s2 has nothing to study; s3 shares a word with s1 whose base   *)
(* form is unknown there.                                                  *)
(***************************************************************************)
EXTENDS Extract, TLC

CONSTANTS a1, a2, s1, s2, s3, t1, t2

MCSentencesOf == a1 :> <<s1, s2>> @@ a2 :> <<s3>>

Tok(surface, reading, base) == [surface |-> surface, reading |-> reading, base |-> base]

MCTokensOf ==
  s1 :> <<Tok("K1", "r1", "K1"), Tok("wa", "r2", "wa"), Tok("K2", "r3", "K3"),
          Tok("K4", "*", "K4"), Tok("K1", "r1", "K1")>>
  @@ s2 :> <<Tok("wa", "r2", "wa"), Tok("K4", "", "K4")>>
  @@ s3 :> <<Tok("K1", "r1", "*"), Tok("K5", "r5", "K5")>>

MCKanji == {"K1", "K2", "K3", "K4", "K5"}

TabSymmetry == Permutations(Tabs)
=============================================================================
