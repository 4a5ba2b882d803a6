---------------------------- MODULE MCVoteNode ----------------------------
(* VoteNode on a small instance: v1 votes and votes again, v2 does not     *)
(* vote but somebody signs for it, v3 votes both ways at once, v4 is not   *)
(* in the census.                                                          *)
EXTENDS VoteNode

CONSTANTS n1, n2, v1, v2, v3, v4

First  == Cast(v1, 1, TRUE)
Second == Cast(v1, 2, FALSE)
Both   == {Cast(v3, 1, FALSE), Cast(v3, 1, TRUE)}

MCBallot ==
    {First, Second} \cup Both
        \cup {Cast(v4, 1, TRUE),
              [Cast(v2, 1, FALSE) EXCEPT !.signature_valid = FALSE]}

(* n1 initiates.  It hears the votes of v1, the first of them again and    *)
(* again, and one of v3, enough to make two blocks, fall back to the first *)
(* and make two blocks again.  n2 makes its chain of the other one of v3.  *)
OneWay == {<<n1, n2>>}

MCCopies(n, m) ==
    CASE m = First -> IF n = n1 THEN 4 ELSE 0
      [] m = Second -> IF n = n1 THEN 1 ELSE 0
      [] m \in Both -> IF m.verdict THEN IF n = n1 THEN 1 ELSE 0
                                    ELSE IF n = n2 THEN 4 ELSE 0
      [] OTHER -> 1

Blockful(n) == [1..BlockSize -> Ballot]

(* Nobody delegates; a chain of two to v1; v2 and v3 to each other; all to *)
(* v2, itself included.                                                    *)
MCDrawn == {[k \in {} |-> v1], [k \in {v2, v3} |-> IF k = v3 THEN v2 ELSE v1],
            [k \in {v2, v3} |-> IF k = v3 THEN v2 ELSE v3], [k \in {v1, v2, v3} |-> v2]}
=============================================================================
