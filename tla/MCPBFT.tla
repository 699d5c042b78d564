------------------------------- MODULE MCPBFT -------------------------------
(* Small instances of PBFT: four notaries, one of them down, partly cut    *)
(* off or restarted, and one or two operations that want a nonce.          *)
EXTENDS PBFT

CONSTANTS a, b

OneRequest  == {[op |-> a, client |-> 1]}
TwoRequests == {[op |-> a, client |-> 1], [op |-> b, client |-> 2]}
ThreeAndTwo == {[op |-> a, client |-> 3], [op |-> b, client |-> 2]}

\* What the network may deliver: everything, or what a scenario needs.
Everything(m) == TRUE

\* Replica 3 is cut off in view 0 and replica 0 after it.  Commits are heard by
\* replica 1, and in view 1 by replica 2.  Requests reach who is cut off; only
\* replica 1 is asked for b.
CutOff(m) ==
    LET live(v) == IF v = 0 THEN 0 .. 2 ELSE 1 .. 3
    IN  CASE m.type = "Request"    -> m.from = m.req.client /\ (m.req.op = b => m.to = 1)
          [] m.type = "PrePrepare" -> {m.from, m.to} \subseteq live(m.view)
          [] m.type = "Prepare"    -> {m.from, m.to} \subseteq live(m.view)
          [] m.type = "Commit"     -> {m.from, m.to} \subseteq live(m.view) /\ m.to \in 1 .. m.view + 1
          [] m.type = "ViewChange" -> {m.from, m.to} \subseteq live(1)
          [] m.type = "NewView"    -> {m.from, m.to} \subseteq live(1)
          [] m.type = "CheckPoint" -> FALSE
          [] m.type = "Response"   -> {m.from, m.to} \subseteq live(m.view)
=============================================================================
