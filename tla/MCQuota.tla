------------------------------ MODULE MCQuota ------------------------------
(* An instance of Quota for TLC.                                           *)
EXTENDS Quota, TLC

Bucket(left, reset) == [carries |-> TRUE, left |-> left, reset |-> reset]
Disabled == [carries |-> FALSE, left |-> 0, reset |-> Unreadable]
Group(gemini, buckets) == [gemini |-> gemini, buckets |-> buckets]
UsageReply(groups) == [parses |-> TRUE, success |-> TRUE, command |-> "usage",
                       turn |-> FALSE, listed |-> TRUE, groups |-> groups]

\* A model turn, no JSON, windows that tie and refill at different times beside
\* a disabled one and another group, and a reading with two Gemini groups.
MCEnvelopes ==
    { [UsageReply(<<>>) EXCEPT !.command = "", !.turn = TRUE],
      [UsageReply(<<>>) EXCEPT !.parses = FALSE],
      UsageReply(<<Group(FALSE, <<Bucket(0, 0)>>),
                   Group(TRUE, <<Bucket(10, 2), Bucket(10, 3), Bucket(60, 0), Disabled>>)>>),
      UsageReply(<<Group(TRUE, <<Bucket(5, 0)>>), Group(TRUE, <<Bucket(90, 0)>>)>>) }

===========================================================================
