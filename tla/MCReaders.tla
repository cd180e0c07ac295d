----------------------------- MODULE MCReaders -----------------------------
(* Instances of Readers for TLC.                                           *)
EXTENDS Readers

\* An ordinary end, a failure and a cancel.
MCEnds == {"zero", "nonzero", "cancelled"}

\* The wake beside the markers; a collection beside each kind of reader.
MCCasts ==
    { Tools \cup {Hook, "cancel"},
      Tools \cup {"sweep"},
      {Hook, "sweep"},
      {"await", "sweep"} }

\* One poll beside the supervisor.
MCPoll == {Tools}
=============================================================================
