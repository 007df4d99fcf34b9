----------------------------- MODULE MCExhibit ------------------------------
(* The exhibit with a poll of INPUT_POLL_MS, and one that comes late. *)
EXTENDS Exhibit

PollTimes == {50, 100}
=============================================================================
