------------------------------ MODULE MCReading ------------------------------
(***************************************************************************)
(* Values for the run of Reading: every text up to MaxRunes runes; for a   *)
(* sentence of up to AnyRunes runes up to two rows whatsoever that start   *)
(* in it, otherwise up to MaxWords tokens.                                 *)
(***************************************************************************)
EXTENDS Reading

CONSTANTS MaxRunes, AnyRunes, MaxWords

MCTexts == UNION {[1 .. n -> Kinds] : n \in 0 .. MaxRunes}

Tokens(n) == {o \in [start : 0 .. n - 1, end : 1 .. n] : o.start < o.end}
Rows(n) == {o \in [start : -1 .. n, end : 0 .. n + 1] : o.start < o.end}
UpTo(max, S) == UNION {[1 .. k -> S] : k \in 0 .. max}

Apart(o, p) == o.end <= p.start
InOrder(o, p) == o.start <= p.start

MCOccurrencesIn(n) ==
  {rows \in UpTo(MaxWords, Tokens(n)) :
     \A k \in DOMAIN rows : k > 1 => Apart(rows[k - 1], rows[k])}
  \cup IF n > AnyRunes THEN {}
       ELSE {rows \in UpTo(2, Rows(n)) : Len(rows) = 2 => InOrder(rows[1], rows[2])}
=============================================================================
