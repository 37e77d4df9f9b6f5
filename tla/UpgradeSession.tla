--------------------------- MODULE UpgradeSession ---------------------------
(***************************************************************************)
(* What a leech promises of an upgrade, without its bookkeeping: a session *)
(* is announced, begun, and collects parts of the announced file in any    *)
(* order.  It is concluded once, and only when every part has arrived; it  *)
(* may be given up at any time before.  Success is reported only by a      *)
(* session that was concluded, at most once, and a session is closed       *)
(* before the next one begins.                                             *)
(***************************************************************************)
CONSTANTS
  Files,      \* the sessions that may be announced
  NoFile,     \* none has been
  Parts(_)    \* what has to arrive of each

VARIABLES phase, file, got, report

vars == <<phase, file, got, report>>

Init ==
  /\ phase = "idle"
  /\ file = NoFile
  /\ got = {}
  /\ report = "none"

Announce ==
  /\ phase = "idle"
  /\ file' \in Files
  /\ report' = "none"
  /\ UNCHANGED <<phase, got>>

\* What looked like an announcement was none, and the one before is forgotten.
Withdraw ==
  /\ phase = "idle"
  /\ file' = NoFile
  /\ report' = "none"
  /\ UNCHANGED <<phase, got>>

Begin ==
  /\ phase = "idle"
  /\ file \in Files
  /\ phase' = "receiving"
  /\ got' = {}
  /\ report' = "none"
  /\ UNCHANGED file

\* A part arrives, or nothing new does; with all of them there the session may
\* be concluded in the same step.
Receive ==
  /\ phase = "receiving"
  /\ \/ UNCHANGED got
     \/ \E part \in Parts(file) : got' = got \cup {part}
  /\ \/ phase' = "receiving"
     \/ phase' = "concluded" /\ Parts(file) \subseteq got'
  /\ report' = "none"
  /\ UNCHANGED file

GiveUp ==
  /\ phase = "receiving"
  /\ phase' = "failed"
  /\ report' = "none"
  /\ UNCHANGED <<file, got>>

\* The report may be lost.
Report ==
  /\ phase = "concluded"
  /\ phase' = "closing"
  /\ report' \in {"Passed", "none"}
  /\ UNCHANGED <<file, got>>

Fail ==
  /\ phase = "failed"
  /\ phase' = "closing"
  /\ report' = "none"
  /\ UNCHANGED <<file, got>>

\* What has arrived may be kept until the next session begins.
Close ==
  /\ phase = "closing"
  /\ phase' = "idle"
  /\ got' \in {got, {}}
  /\ report' = "none"
  /\ UNCHANGED file

Next == Announce \/ Withdraw \/ Begin \/ Receive \/ GiveUp \/ Report \/ Fail \/ Close

Spec == Init /\ [][Next]_vars
=============================================================================
