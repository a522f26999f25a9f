------------------------------ MODULE Campaign ------------------------------
(***************************************************************************)
(* What a campaign promises to whoever reads its directory: the owner, the *)
(* supervisor, the viewer. They see the status of every card in the state  *)
(* file, the escalation files and the rulings; they know of the runner     *)
(* only that some cards are being worked on. CampaignPass implements this  *)
(* whatever its pool, its kills and its late sessions do in between.       *)
(***************************************************************************)
EXTENDS DependencyGraph

CONSTANT DependsOn   \* DependsOn[c]: the ids card c declares

VARIABLES
  status,   \* status of every card in campaign-state.json
  asked,    \* cards with an escalation file
  ruled,    \* cards whose latest escalation was answered
  working,  \* cards somebody works on, a session that was given up included
  forced    \* the runner was told to take escalated cards up again

vars == <<status, asked, ruled, working, forced>>

Init ==
  /\ status = [c \in Cards |-> "staged"]
  /\ asked = {} /\ ruled = {} /\ working = {}
  /\ forced \in BOOLEAN

\* A card may be touched once everything it depends on is shipped.
Ready(c) ==
  /\ status[c] # "shipped"
  /\ \A d \in DependsOn[c] : status[d] = "shipped"

\* An open question keeps a card out of work, unless the owner insists.
Open(c) == c \notin asked \/ forced

\* What a write of the state file may do to cards it is not about: clear or set
\* a derived status. It never parks, ships or revives one; it blocks only a card
\* that waits for another and that nobody works on.
Rederives(c, s) ==
  /\ status[c] \in {"staged", "running", "blocked"}
  /\ \/ s = "staged"
     \/ /\ s = "blocked" /\ c \notin working
        /\ \E d \in DependsOn[c] : status[d] # "shipped"

Save == \A c \in Cards : status'[c] # status[c] => Rederives(c, status'[c])

\* The state file is written because of card c.
Write(c, s) ==
  /\ status'[c] = s
  /\ \A d \in Cards \ {c} : status'[d] # status[d] => Rederives(d, status'[d])

\* A runner starts.
Start ==
  /\ working = {} /\ forced' \in BOOLEAN
  /\ UNCHANGED <<status, asked, ruled, working>>

\* A card is taken up.
Take(c) ==
  /\ Ready(c) /\ Open(c)
  /\ working' = working \cup {c}
  /\ UNCHANGED <<status, asked, ruled, forced>>

\* Its turn ends with nothing to show, or its session is heard of no more.
Drop(c) ==
  /\ c \in working /\ working' = working \ {c}
  /\ UNCHANGED <<status, asked, ruled, forced>>

\* A session starts on it.
Begin(c) ==
  /\ c \in working /\ Ready(c) /\ Open(c)
  /\ Write(c, "running")
  /\ working' \in {working, working \ {c}}
  /\ UNCHANGED <<asked, ruled, forced>>

\* Progress is written.
Record ==
  /\ Save
  /\ UNCHANGED <<asked, ruled, working, forced>>

\* Its question is put to the owner ...
Ask(c) ==
  /\ Ready(c)
  /\ asked' = asked \cup {c} /\ ruled' = ruled \ {c}
  /\ UNCHANGED <<status, working, forced>>

\* ... and only then is it parked.
Park(c) ==
  /\ Ready(c) /\ c \in asked \cup ruled
  /\ Write(c, "escalated")
  /\ working' = working \ {c}
  /\ UNCHANGED <<asked, ruled, forced>>

\* It ships ...
Ship(c) ==
  /\ c \in working /\ Ready(c)
  /\ Write(c, "shipped")
  /\ UNCHANGED <<asked, ruled, working, forced>>

\* ... and a question about it is moot.
Close(c) ==
  /\ c \in working /\ status[c] = "shipped"
  /\ asked' = asked \ {c} /\ working' = working \ {c}
  /\ UNCHANGED <<status, ruled, forced>>

\* The runner ends or is killed.
End ==
  /\ Save
  /\ working' = {}
  /\ UNCHANGED <<asked, ruled, forced>>

\* The owner, or the supervisor for him, answers.
Rule(c) ==
  /\ c \in asked
  /\ asked' = asked \ {c} /\ ruled' = ruled \cup {c}
  /\ UNCHANGED <<status, working, forced>>

\* The owner resets a card, which no runner allows while it works.
Reset(c) ==
  /\ working = {}
  /\ status' = [status EXCEPT ![c] = "staged"]
  /\ UNCHANGED <<asked, ruled, working, forced>>

Next ==
  \/ Start \/ Record \/ End
  \/ \E c \in Cards :
       \/ Take(c) \/ Drop(c) \/ Begin(c) \/ Ask(c) \/ Park(c)
       \/ Ship(c) \/ Close(c) \/ Rule(c) \/ Reset(c)

Spec == Init /\ [][Next]_vars
=============================================================================
