-------------------------------- MODULE Lists --------------------------------
(***************************************************************************)
(* A list comprehension, [x for x in q if x in S], by which the programs   *)
(* take something out of a list or show part of it: what is kept stays in  *)
(* its order.  It is a recursive function, so that what it computes can be *)
(* proved (ListProofs); its members need no order, hence the set.          *)
(***************************************************************************)
EXTENDS Integers, Sequences

Keep(q, S) ==
    LET kept[i \in 0 .. Len(q)] ==
            IF i = 0 THEN <<>>
            ELSE IF q[i] \in S THEN Append(kept[i - 1], q[i]) ELSE kept[i - 1]
    IN  kept[Len(q)]
=============================================================================
