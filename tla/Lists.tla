------------------------------- MODULE Lists -------------------------------
(***************************************************************************)
(* Lists as the code goes over them, in forms whose definitions the proof   *)
(* system opens (it does not open SelectSeq, nor the folds).                *)
(***************************************************************************)
EXTENDS Integers, SequencesExt

\* A sequence, of whatever its items are.
Listing(s) == s \in Seq(ToSet(s))

\* The items at some positions of a sequence, in their order.
ItemsAt(s, positions) ==
  LET among[n \in 0 .. Len(s)] ==
        IF n = 0 THEN <<>>
        ELSE IF n \in positions THEN Append(among[n - 1], s[n]) ELSE among[n - 1]
  IN among[Len(s)]

\* [x for x in s if Test(x)]
Kept(s, Test(_)) == ItemsAt(s, {k \in DOMAIN s : Test(s[k])})

\* dict.fromkeys: the first occurrence of each, in order.
Distinct(s) == ItemsAt(s, {k \in DOMAIN s : \A j \in 1 .. k - 1 : s[j] # s[k]})

\* [Op(x) for x in s]
Mapped(Op(_), s) == [i \in 1 .. Len(s) |-> Op(s[i])]

\* sum(), of a sequence of numbers.
Total(numbers) ==
  LET sum[n \in 0 .. Len(numbers)] == IF n = 0 THEN 0 ELSE sum[n - 1] + numbers[n]
  IN sum[Len(numbers)]
=============================================================================
