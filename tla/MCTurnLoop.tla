----------------------------- MODULE MCTurnLoop -----------------------------
(* TLC instance of TurnLoop: one reply of each kind the loop tells apart, and
   batches in which a call repeats another or goes with an agent call. *)
EXTENDS TurnLoop
CONSTANTS r1, r2, ag, none

MCSigs == {r1, r2, ag}
MCReads == {r1, r2}

Say(text, stop) == [text |-> text, calls |-> <<>>, stop |-> stop]
Use(text, calls, stop) == [text |-> text, calls |-> calls, stop |-> stop]

MCReplies ==
  {Say("none", "end"), Say("answer", "end"), Say("answer", "length"),
   Say("denial", "end"), Say("thinking", "end"), Say("malformed", "end"),
   Say("none", "lost"),
   Use("none", <<r1>>, "end"), Use("answer", <<r2>>, "length"),
   Use("answer", <<r1, r2>>, "end"), Use("none", <<r2, r2>>, "end"),
   Use("none", <<ag, r1>>, "lost")}
=============================================================================
