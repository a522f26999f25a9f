-------------------------- MODULE SupervisorProofs --------------------------
(***************************************************************************)
(* Theorems about Supervisor, for any cards that escalate, any limits, and *)
(* any number of kills, runs by hand and answers of the owner: types, and  *)
(* the four promises of safety.                                            *)
(***************************************************************************)
EXTENDS Supervisor, TLAPS

USE LimitsAssumption
-----------------------------------------------------------------------------
(* What decide decides                                                     *)

\* A session's verdict leads to a park, an archive, an exit or a retry of it.
LEMMA AfterSessionIs ==
  ASSUME last.outcome \in {"ruled", "parked", "closed", "failed", "history_rewritten"},
         last.kind \in Kinds
  PROVE  \/ \E why \in {"history_rewritten", "too_hard", "ruling_failed", "closing_failed"} :
              AfterSession = Park(why)
         \/ AfterSession = Act("archive", "ruled", last.card)
         \/ AfterSession = Exit("campaign_closed")
         \/ /\ AfterSession = Session(last.kind, last.card)
            /\ st.retriggers[RetryKey(last.kind, last.card)] < SessionRetries
<1>1. Failed[last.kind] \in {"ruling_failed", "closing_failed"}
  <2>1. Failed["ruling"] = "ruling_failed" /\ Failed["closing"] = "closing_failed"
    BY DEF Failed
  <2>2. last.kind = "ruling" \/ last.kind = "closing"
    BY DEF Kinds
  <2>3. QED
    BY <2>1, <2>2
<1>2. CASE last.outcome = "history_rewritten"
  BY <1>2 DEF AfterSession
<1>3. CASE last.outcome = "ruled"
  BY <1>3 DEF AfterSession
<1>4. CASE last.outcome = "parked"
  BY <1>4 DEF AfterSession
<1>5. CASE last.outcome = "closed"
  BY <1>5 DEF AfterSession
<1>6. CASE last.outcome = "failed"
  BY <1>1, <1>6 DEF AfterSession
<1>7. QED
  BY <1>2, <1>3, <1>4, <1>5, <1>6

\* A pending escalation is parked, or ruled on if its body is new.
LEMMA AnswerIs ==
  ASSUME NEW c
  PROVE  \/ \E why \in {"too_hard", "owner_only", "repeat_escalation", "w7_cap", "spawn_cap"} :
              Answer(c) = Park(why)
         \/ Answer(c) = Session("ruling", c) /\ ~st.seen[c]
<1>1. CASE parkMarker(c)
  BY <1>1 DEF Answer
<1>2. CASE ~parkMarker(c) /\ ownerOnlyEscalation(c)
  BY <1>2 DEF Answer
<1>3. CASE ~parkMarker(c) /\ ~ownerOnlyEscalation(c) /\ st.seen[c]
  BY <1>3 DEF Answer
<1>4. CASE ~parkMarker(c) /\ ~ownerOnlyEscalation(c) /\ ~st.seen[c]
  BY <1>4 DEF Answer
<1>5. QED
  BY <1>1, <1>2, <1>3, <1>4

LEMMA EscalationsAre ==
  \/ Escalations = Run("none")
  \/ \E why \in {"too_hard", "owner_only", "repeat_escalation", "w7_cap", "spawn_cap"} :
       Escalations = Park(why)
  \/ \E c \in Cards : Escalations = Session("ruling", c) /\ ~st.seen[c]
<1>1. CASE Unanswered = {}
  BY <1>1 DEF Escalations
<1>2. CASE Unanswered # {}
  <2> DEFINE c == CHOOSE c \in Cards : c \in Unanswered
  <2>1. c \in Cards
    BY <1>2 DEF Unanswered
  <2>2. Escalations = Answer(c)
    BY <1>2 DEF Escalations
  <2> HIDE DEF c
  <2>3. QED
    BY <2>1, <2>2, AnswerIs
<1>3. QED
  BY <1>1, <1>2

\* The reason that is acted on is one of those a watchdog ends with.
LEMMA ReasonIs ==
  ASSUME Typed, said # "absent"
  PROVE  /\ Reason \in TerminalReasons \cup {"none"}
         /\ Reason = "stalled" => Contradiction # "run_finalised"
<1>1. said \in TerminalReasons \cup {"none"} /\ fact.is \in RunReasons \cup {"none"}
  BY DEF Typed
<1>2. CASE Contradiction = "run_finalised" /\ ~OwnRunVerdict
  <2>1. fact.is \in RunReasons
    BY <1>1, <1>2 DEF Contradiction
  <2>2. Reason = terminalReasonForRunReason(fact.is)
    BY <1>2 DEF Reason
  <2>3. QED
    BY <2>1, <2>2 DEF RunReasons, terminalReasonForRunReason
<1>3. CASE ~(Contradiction = "run_finalised" /\ ~OwnRunVerdict)
  BY <1>1, <1>3 DEF Reason, OwnRunVerdict
<1>4. QED
  BY <1>2, <1>3

\* What follows from the terminal on disk.
LEMMA FromTerminalIs ==
  ASSUME Typed, said # "absent"
  PROVE  \/ \E key : FromTerminal = Run(key)
         \/ \E why \in {"campaign_closed", "stop_requested"} : FromTerminal = Exit(why)
         \/ FromTerminal = Session("closing", NoCard)
         \/ \E c \in Cards : FromTerminal = Session("ruling", c) /\ ~st.seen[c]
         \/ \E why \in ParkReasons :
              /\ FromTerminal = Park(why)
              /\ why # "resume_blocked"
              /\ why = "stalled" => /\ Contradiction # "run_finalised"
                                    /\ ~(Contradiction = "newer_run_alive"
                                           /\ staleTerminalRetriggerAvailable)
<1>1. CASE Contradiction = "newer_run_alive" /\ staleTerminalRetriggerAvailable
  BY <1>1 DEF FromTerminal
<1>2. CASE ~(Contradiction = "newer_run_alive" /\ staleTerminalRetriggerAvailable)
  <2>0. Reason \in TerminalReasons \cup {"none"}
        /\ (Reason = "stalled" => Contradiction # "run_finalised")
    BY ReasonIs
  <2>1. CASE Reason = "runner_done"
    <3>1. "closing_failed" \in ParkReasons
      BY DEF ParkReasons
    <3>2. QED
      BY <1>2, <2>1, <3>1 DEF FromTerminal
  <2>2. CASE Reason = "stop_requested"
    BY <1>2, <2>2 DEF FromTerminal
  <2>3. CASE Reason = "escalations_pending"
    <3>1. FromTerminal = Escalations
      BY <1>2, <2>3 DEF FromTerminal
    <3>2. {"too_hard", "owner_only", "repeat_escalation", "w7_cap", "spawn_cap"}
             \subseteq ParkReasons \ {"stalled", "resume_blocked"}
      BY DEF ParkReasons
    <3>3. QED
      BY <3>1, <3>2, EscalationsAre
  <2>4. CASE Reason = "session_incomplete"
    <3>1. FromTerminal = OneShot("session_incomplete") /\ "session_incomplete" \in ParkReasons
      BY <1>2, <2>4 DEF FromTerminal, ParkReasons, WatchdogParks
    <3>2. QED
      BY <3>1 DEF OneShot
  <2>5. CASE Reason = "none"
    <3>1. FromTerminal = OneShot("watchdog_no_terminal")
          /\ "watchdog_no_terminal" \in ParkReasons
      BY <1>2, <2>5 DEF FromTerminal, ParkReasons, WatchdogParks
    <3>2. QED
      BY <3>1 DEF OneShot
  <2>6. CASE Reason \notin {"runner_done", "stop_requested", "escalations_pending",
                           "session_incomplete", "none"}
    <3>1. FromTerminal = Park(Reason)
      BY <1>2, <2>6 DEF FromTerminal
    <3>2. Reason \in ParkReasons \ {"resume_blocked"}
      BY ReasonsAssumption, <2>0, <2>6 DEF ParkReasons, WatchdogParks
    <3>3. QED
      BY <1>2, <2>0, <3>1, <3>2
  <2>7. QED
    BY <2>1, <2>2, <2>3, <2>4, <2>5, <2>6
<1>3. QED
  BY <1>1, <1>2

\* The reasons for which a park is not a watchdog's, and those that are.
LEMMA ReasonsOfParks ==
  /\ {"history_rewritten", "too_hard", "ruling_failed", "closing_failed", "watchdog_run_cap"}
       \subseteq ParkReasons \ (WatchdogParks \cup {"resume_blocked"})
  /\ "resume_blocked" \in ParkReasons \ WatchdogParks /\ "stalled" \in WatchdogParks
  BY DEF ParkReasons, WatchdogParks

\* A park, with what can be said of its reason.
ParkIs(d) ==
  \E why \in ParkReasons :
    /\ d = Park(why)
    /\ why = "resume_blocked" => last = NoOutcome /\ needsOwner
    /\ why = "stalled" =>
         /\ Contradiction # "run_finalised"
         /\ ~(Contradiction = "newer_run_alive" /\ staleTerminalRetriggerAvailable)

\* A session that is retried, or begun.
SessionIs(d) ==
  \/ /\ last # NoOutcome /\ d = Session(last.kind, last.card)
     /\ st.retriggers[RetryKey(last.kind, last.card)] < SessionRetries
  \/ last = NoOutcome /\ d = Session("closing", NoCard)
  \/ \E c \in Cards : last = NoOutcome /\ d = Session("ruling", c) /\ ~st.seen[c]

RunIs(d)  == last = NoOutcome /\ ~needsOwner /\ ~WatchdogLive /\ \E key : d = Run(key)
ExitIs(d) == \E why \in {"campaign_closed", "stop_requested"} : d = Exit(why)
SupersedeIs(d) == needsOwner /\ ~parkStillHolds /\ d = Act("supersede", "none", NoCard)

\* The whole decision.
LEMMA DecisionIs ==
  ASSUME Typed, SupervisionInv, pc = "observe"
  PROVE  \/ ParkIs(decide) \/ SessionIs(decide) \/ RunIs(decide) \/ ExitIs(decide)
         \/ SupersedeIs(decide) \/ decide = Act("archive", "ruled", last.card)
         \/ decide = Act("await", "none", NoCard)
<1>1. CASE last # NoOutcome
  <2>1. decide = AfterSession
    BY <1>1 DEF decide
  <2>2. last.outcome \in {"ruled", "parked", "closed", "failed", "history_rewritten"}
        /\ last.kind \in Kinds
    BY <1>1 DEF SupervisionInv, SessionsAreKnown, Kinds
  <2>3. CASE \E why \in {"history_rewritten", "too_hard", "ruling_failed", "closing_failed"} :
               AfterSession = Park(why)
    <3>1. ParkIs(AfterSession)
      BY <2>3, ReasonsOfParks DEF ParkIs
    <3>2. QED
      BY <2>1, <3>1
  <2>4. CASE AfterSession = Exit("campaign_closed")
    BY <2>1, <2>4 DEF ExitIs
  <2>5. CASE /\ AfterSession = Session(last.kind, last.card)
             /\ st.retriggers[RetryKey(last.kind, last.card)] < SessionRetries
    BY <1>1, <2>1, <2>5 DEF SessionIs
  <2>6. QED
    BY <2>1, <2>2, <2>3, <2>4, <2>5, AfterSessionIs
<1>2. CASE last = NoOutcome /\ needsOwner
  <2>1. CASE parkStillHolds
    <3>1. decide = Park("resume_blocked")
      BY <1>2, <2>1 DEF decide
    <3>2. QED
      BY <1>2, <3>1, ReasonsOfParks DEF ParkIs
  <2>2. CASE ~parkStillHolds
    BY <1>2, <2>2 DEF decide, SupersedeIs
  <2>3. QED
    BY <2>1, <2>2
<1>3. CASE last = NoOutcome /\ ~needsOwner /\ stop
  BY <1>3 DEF decide, ExitIs
<1>4. CASE last = NoOutcome /\ ~needsOwner /\ ~stop /\ WatchdogLive
  BY <1>4 DEF decide
<1>5. CASE /\ last = NoOutcome /\ ~needsOwner /\ ~stop /\ ~WatchdogLive
           /\ acknowledgedParkAllowsResume
  <2>1. decide = Park("watchdog_run_cap") \/ decide = Run("owner_resume")
    BY <1>5 DEF decide
  <2>2. QED
    BY <1>5, <2>1, ReasonsOfParks DEF ParkIs, RunIs
<1>6. CASE /\ last = NoOutcome /\ ~needsOwner /\ ~stop /\ ~WatchdogLive
           /\ ~acknowledgedParkAllowsResume
  <2>2. CASE said = "absent"
    BY <1>6, <2>2 DEF decide, RunIs
  <2>3. CASE said # "absent"
    <3>1. decide = FromTerminal
      BY <1>6, <2>3 DEF decide
    <3>2. CASE \E key : FromTerminal = Run(key)
      BY <1>6, <3>1, <3>2 DEF RunIs
    <3>3. CASE \E why \in {"campaign_closed", "stop_requested"} : FromTerminal = Exit(why)
      BY <3>1, <3>3 DEF ExitIs
    <3>4. CASE FromTerminal = Session("closing", NoCard)
      BY <1>6, <3>1, <3>4 DEF SessionIs
    <3>5. CASE \E c \in Cards : FromTerminal = Session("ruling", c) /\ ~st.seen[c]
      BY <1>6, <3>1, <3>5 DEF SessionIs
    <3>6. CASE \E why \in ParkReasons :
              /\ FromTerminal = Park(why)
              /\ why # "resume_blocked"
              /\ why = "stalled" => /\ Contradiction # "run_finalised"
                                    /\ ~(Contradiction = "newer_run_alive"
                                           /\ staleTerminalRetriggerAvailable)
      BY <3>1, <3>6 DEF ParkIs
    <3>7. QED
      BY <2>3, <3>2, <3>3, <3>4, <3>5, <3>6, FromTerminalIs
  <2>4. QED
    BY <2>2, <2>3
<1>7. QED
  BY <1>1, <1>2, <1>3, <1>4, <1>5, <1>6

\* What can be said of a decision by what it does.
LEMMA DeedIs ==
  ASSUME Typed, SupervisionInv, pc = "observe"
  PROVE  /\ decide.do = "park"      => ParkIs(decide)
         /\ decide.do = "session"   => SessionIs(decide)
         /\ decide.do = "run"       => RunIs(decide)
         /\ decide.do = "exit"      => ExitIs(decide)
         /\ decide.do = "supersede" => SupersedeIs(decide)
<1>1. ASSUME ParkIs(decide) PROVE decide.do = "park"
  <2>1. PICK why : decide = Park(why)
    BY <1>1 DEF ParkIs
  <2>2. QED
    BY <2>1 DEF Park, Act
<1>2. ASSUME SessionIs(decide) PROVE decide.do = "session"
  <2>1. PICK kind, c : decide = Session(kind, c)
    BY <1>2 DEF SessionIs
  <2>2. QED
    BY <2>1 DEF Session, Act
<1>3. ASSUME RunIs(decide) PROVE decide.do = "run"
  <2>1. PICK key : decide = Run(key)
    BY <1>3 DEF RunIs
  <2>2. QED
    BY <2>1 DEF Run, Act
<1>4. ASSUME ExitIs(decide) PROVE decide.do = "exit"
  <2>1. PICK why : decide = Exit(why)
    BY <1>4 DEF ExitIs
  <2>2. QED
    BY <2>1 DEF Exit, Act
<1>5. ASSUME SupersedeIs(decide) PROVE decide.do = "supersede"
  <2>1. decide = Act("supersede", "none", NoCard)
    BY <1>5 DEF SupersedeIs
  <2>2. QED
    BY <2>1 DEF Act
<1>6. ASSUME decide = Act("archive", "ruled", last.card) PROVE decide.do = "archive"
  BY <1>6 DEF Act
<1>7. ASSUME decide = Act("await", "none", NoCard) PROVE decide.do = "await"
  BY <1>7 DEF Act
<1>8. QED
  BY <1>1, <1>2, <1>3, <1>4, <1>5, <1>6, <1>7, DecisionIs

\* The same, by the action's reason and card.
LEMMA ParkFacts ==
  ASSUME Typed, SupervisionInv, pc = "observe", decide.do = "park"
  PROVE  /\ decide.why \in ParkReasons
         /\ decide.why = "resume_blocked" => needsOwner
         /\ decide.why = "stalled" =>
              /\ Contradiction # "run_finalised"
              /\ ~(Contradiction = "newer_run_alive" /\ staleTerminalRetriggerAvailable)
<1>1. ParkIs(decide)
  BY DeedIs
<1>2. PICK why \in ParkReasons :
        /\ decide = Park(why)
        /\ why = "resume_blocked" => needsOwner
        /\ why = "stalled" =>
             /\ Contradiction # "run_finalised"
             /\ ~(Contradiction = "newer_run_alive" /\ staleTerminalRetriggerAvailable)
  BY <1>1 DEF ParkIs
<1>3. decide.why = why
  BY <1>2 DEF Park, Act
<1>4. QED
  BY <1>2, <1>3

LEMMA SessionFacts ==
  ASSUME Typed, SupervisionInv, pc = "observe", decide.do = "session"
  PROVE  /\ \/ decide.why = "ruling" /\ decide.card \in Cards
            \/ decide.why = "closing" /\ decide.card = NoCard
         /\ last # NoOutcome =>
              st.retriggers[RetryKey(decide.why, decide.card)] < SessionRetries
         /\ last = NoOutcome /\ decide.why = "ruling" => ~st.seen[decide.card]
<1>0. SessionIs(decide)
  BY DeedIs
<1>1. CASE /\ last # NoOutcome /\ decide = Session(last.kind, last.card)
           /\ st.retriggers[RetryKey(last.kind, last.card)] < SessionRetries
  <2>1. decide.why = last.kind /\ decide.card = last.card
    BY <1>1 DEF Session, Act
  <2>2. QED
    BY <1>1, <2>1 DEF SupervisionInv, SessionsAreKnown
<1>2. CASE last = NoOutcome /\ decide = Session("closing", NoCard)
  <2>1. decide.why = "closing" /\ decide.card = NoCard
    BY <1>2 DEF Session, Act
  <2>2. QED
    BY <1>2, <2>1
<1>3. CASE \E c \in Cards : last = NoOutcome /\ decide = Session("ruling", c) /\ ~st.seen[c]
  <2>1. PICK c \in Cards : last = NoOutcome /\ decide = Session("ruling", c) /\ ~st.seen[c]
    BY <1>3
  <2>2. decide.why = "ruling" /\ decide.card = c
    BY <2>1 DEF Session, Act
  <2>3. QED
    BY <2>1, <2>2
<1>4. QED
  BY <1>0, <1>1, <1>2, <1>3 DEF SessionIs

LEMMA ExitFacts ==
  ASSUME Typed, SupervisionInv, pc = "observe", decide.do = "exit"
  PROVE  decide.why \in {"campaign_closed", "stop_requested"}
<1>1. PICK why \in {"campaign_closed", "stop_requested"} : decide = Exit(why)
  BY DeedIs DEF ExitIs
<1>2. QED
  BY <1>1 DEF Exit, Act
-----------------------------------------------------------------------------
(* What the helpers make of the counters                                   *)

LEMMA CountedIs ==
  ASSUME NEW limit \in Nat, NEW n \in 0 .. limit
  PROVE  /\ Counted(n, limit) \in 0 .. limit
         /\ n <= Counted(n, limit) /\ Counted(n, limit) <= n + 1
         /\ n < limit => Counted(n, limit) = n + 1
<1>1. n \in Int /\ 0 <= n /\ n <= limit
  OBVIOUS
<1>2. CASE n = limit
  BY <1>1, <1>2 DEF Counted
<1>3. CASE n < limit
  <2>1. Counted(n, limit) = n + 1
    BY <1>1, <1>3 DEF Counted
  <2>2. QED
    BY <1>1, <1>3, <2>1
<1>4. QED
  BY <1>1, <1>2, <1>3

\* A retrigger that is counted, and everything else as it was.
LEMMA IncrementIs ==
  ASSUME NEW s \in Counters, NEW key \in Retriggers
  PROVE  /\ incrementRetrigger(s, key) \in Counters
         /\ incrementRetrigger(s, key).runs = s.runs
         /\ incrementRetrigger(s, key).seen = s.seen
         /\ incrementRetrigger(s, key).retriggers[key] =
              Counted(s.retriggers[key], Retries(key))
         /\ \A k \in Retriggers \ {key} :
              incrementRetrigger(s, key).retriggers[k] = s.retriggers[k]
<1> DEFINE n   == Counted(s.retriggers[key], Retries(key))
           new == incrementRetrigger(s, key)
<1>1. Retries(key) \in Nat /\ s.retriggers[key] \in 0 .. Retries(key)
  <2>1. Retries(key) \in Nat
    BY DEF Retries
  <2>2. s.retriggers[key] \in Nat /\ s.retriggers[key] <= Retries(key)
    BY DEF Counters
  <2>3. QED
    BY <2>1, <2>2
<1>2. n \in 0 .. Retries(key)
  BY <1>1, CountedIs
<1>3. new = [s EXCEPT !.retriggers = [s.retriggers EXCEPT ![key] = n]]
  BY DEF incrementRetrigger, Counters
<1> HIDE DEF n, new
<1>4. new.retriggers = [s.retriggers EXCEPT ![key] = n]
  BY <1>3 DEF Counters
<1>5. /\ new.rounds = s.rounds /\ new.spawns = s.spawns /\ new.runs = s.runs
      /\ new.seen = s.seen /\ new.closingVerified = s.closingVerified
  BY <1>3 DEF Counters
<1>6. s.retriggers \in [Retriggers -> Nat]
  BY DEF Counters
<1>7. /\ new.retriggers \in [Retriggers -> Nat] /\ new.retriggers[key] = n
      /\ \A k \in Retriggers \ {key} : new.retriggers[k] = s.retriggers[k]
  <2>1. n \in Nat /\ n <= Retries(key)
    BY <1>1, <1>2
  <2>2. QED
    BY <1>4, <1>6, <2>1
<1>8. \A k \in Retriggers : new.retriggers[k] <= Retries(k)
  <2>1. n <= Retries(key)
    BY <1>1, <1>2
  <2>2. \A k \in Retriggers : s.retriggers[k] <= Retries(k)
    BY DEF Counters
  <2>3. QED
    BY <1>7, <2>1, <2>2
<1>9. new \in [rounds : [Cards -> 0 .. MaxRulingRounds], spawns : 0 .. MaxSpawns,
               runs : 0 .. MaxWatchdogRuns, seen : [Cards -> BOOLEAN],
               closingVerified : BOOLEAN, retriggers : [Retriggers -> Nat]]
  BY <1>3, <1>7 DEF Counters
<1>10. new \in Counters
  BY <1>8, <1>9 DEF Counters
<1>11. QED
  BY <1>5, <1>7, <1>10 DEF n, new

\* A ruling: one more round, and a body that has been seen.
LEMMA RuledIs ==
  ASSUME NEW s \in Counters, NEW c \in Cards
  PROVE  /\ applyRulingOutcome(s, c) \in Counters
         /\ applyRulingOutcome(s, c).runs = s.runs
         /\ applyRulingOutcome(s, c).retriggers = s.retriggers
         /\ applyRulingOutcome(s, c).seen[c]
         /\ \A d \in Cards \ {c} : applyRulingOutcome(s, c).seen[d] = s.seen[d]
<1> DEFINE n   == Counted(s.rounds[c], MaxRulingRounds)
           new == applyRulingOutcome(s, c)
<1>1. n \in 0 .. MaxRulingRounds
  BY CountedIs DEF Counters
<1>2. new = [s EXCEPT !.rounds = [s.rounds EXCEPT ![c] = n], !.seen = [s.seen EXCEPT ![c] = TRUE]]
  BY DEF applyRulingOutcome, Counters
<1> HIDE DEF n, new
<1>3. new.rounds = [s.rounds EXCEPT ![c] = n] /\ new.seen = [s.seen EXCEPT ![c] = TRUE]
  BY <1>2 DEF Counters
<1>4. /\ new.retriggers = s.retriggers /\ new.spawns = s.spawns /\ new.runs = s.runs
      /\ new.closingVerified = s.closingVerified
  BY <1>2 DEF Counters
<1>5. s.rounds \in [Cards -> 0 .. MaxRulingRounds] /\ s.seen \in [Cards -> BOOLEAN]
  BY DEF Counters
<1>6. new.rounds \in [Cards -> 0 .. MaxRulingRounds] /\ new.seen \in [Cards -> BOOLEAN]
  BY <1>1, <1>3, <1>5
<1>7. new.seen[c] /\ \A d \in Cards \ {c} : new.seen[d] = s.seen[d]
  BY <1>3, <1>5
<1>8. new \in [rounds : [Cards -> 0 .. MaxRulingRounds], spawns : 0 .. MaxSpawns,
               runs : 0 .. MaxWatchdogRuns, seen : [Cards -> BOOLEAN],
               closingVerified : BOOLEAN, retriggers : [Retriggers -> Nat]]
  BY <1>2, <1>6 DEF Counters
<1>9. new \in Counters
  BY <1>4, <1>8 DEF Counters
<1>10. QED
  BY <1>4, <1>7, <1>9 DEF new

\* Cards are not the keys of the other budgets.
LEMMA KeysAreApart ==
  /\ {"session_incomplete", "watchdog_no_terminal", "stale_terminal", "closing"}
       \subseteq Retriggers
  /\ Cards \subseteq Retriggers
  /\ \A c \in Cards : c \notin {"session_incomplete", "watchdog_no_terminal",
                                "stale_terminal", "closing", NoCard}
  BY CardsAssumption DEF Retriggers, NoCard

\* What a run costs: a watchdog's retrigger at most, never a session's.
LEMMA CreditedIs ==
  ASSUME Typed
  PROVE  /\ Credited \in Counters /\ Credited.runs = st.runs /\ Credited.seen = st.seen
         /\ \A c \in Cards : Credited.retriggers[c] = st.retriggers[c]
<1> DEFINE Keeps(s) == /\ s \in Counters /\ s.runs = st.runs /\ s.seen = st.seen
                       /\ \A c \in Cards : s.retriggers[c] = st.retriggers[c]
<1>1. Keeps(st)
  BY DEF Typed
<1>2. ASSUME NEW s, Keeps(s),
             NEW key \in {"session_incomplete", "watchdog_no_terminal", "stale_terminal"}
      PROVE  Keeps(incrementRetrigger(s, key))
  <2>1. key \in Retriggers /\ \A c \in Cards : c \in Retriggers \ {key}
    BY KeysAreApart
  <2>2. QED
    BY <1>2, <2>1, IncrementIs
<1>3. Keeps(Charged(st))
  <2> HIDE DEF Keeps
  <2>1. Charged(st) \in {st, incrementRetrigger(st, "session_incomplete"),
                         incrementRetrigger(st, "watchdog_no_terminal")}
    BY DEF Charged
  <2>2. QED
    BY <1>1, <1>2, <2>1
<1>4. Keeps(clearWatchdogRetriggers(st))
  <2> DEFINE cleared == [k \in Retriggers |->
                IF k \in {"session_incomplete", "watchdog_no_terminal", "stale_terminal"}
                THEN 0 ELSE st.retriggers[k]]
             new == clearWatchdogRetriggers(st)
  <2>1. new = [st EXCEPT !.retriggers = cleared]
    BY DEF clearWatchdogRetriggers
  <2>2. st \in Counters
    BY DEF Typed
  <2>3. /\ cleared \in [Retriggers -> Nat]
        /\ \A k \in Retriggers : cleared[k] <= Retries(k)
    <3>1. \A k \in Retriggers : Retries(k) \in Nat
      BY DEF Retries
    <3>2. \A k \in Retriggers : st.retriggers[k] \in Nat /\ st.retriggers[k] <= Retries(k)
      BY <2>2 DEF Counters
    <3>3. QED
      BY <3>1, <3>2
  <2>4. \A c \in Cards : cleared[c] = st.retriggers[c]
    BY KeysAreApart
  <2> HIDE DEF cleared, new
  <2>5. /\ new.retriggers = cleared /\ new.runs = st.runs /\ new.seen = st.seen
    BY <2>1, <2>2 DEF Counters
  <2>6. new \in [rounds : [Cards -> 0 .. MaxRulingRounds], spawns : 0 .. MaxSpawns,
                 runs : 0 .. MaxWatchdogRuns, seen : [Cards -> BOOLEAN],
                 closingVerified : BOOLEAN, retriggers : [Retriggers -> Nat]]
    BY <2>1, <2>2, <2>3 DEF Counters
  <2>7. new \in Counters
    BY <2>3, <2>5, <2>6 DEF Counters
  <2>8. QED
    BY <2>4, <2>5, <2>7 DEF new
<1>5. Keeps(Credited)
  <2> HIDE DEF Keeps
  <2>1. Credited \in {clearWatchdogRetriggers(st), Charged(st),
                      incrementRetrigger(Charged(st), "stale_terminal")}
    BY DEF Credited
  <2>2. QED
    BY <1>2, <1>3, <1>4, <2>1
<1>6. QED
  BY <1>5

\* What a session costs, spent before it begins.
LEMMA SpentIs ==
  ASSUME Typed, NEW kind, NEW card,
         (kind = "ruling" /\ card \in Cards) \/ (kind = "closing" /\ card = NoCard)
  PROVE  /\ Spent(kind, card) \in Counters /\ Spent(kind, card).runs = st.runs
         /\ Spent(kind, card).retriggers["stale_terminal"] = st.retriggers["stale_terminal"]
         /\ \A c \in Cards \ {card} :
              /\ Spent(kind, card).seen[c] = st.seen[c]
              /\ Spent(kind, card).retriggers[c] = st.retriggers[c]
         /\ card \in Cards =>
              /\ Spent(kind, card).seen[card]
              /\ Spent(kind, card).retriggers[card] =
                   IF last # NoOutcome THEN Counted(st.retriggers[card], SessionRetries)
                   ELSE st.retriggers[card]
<1> DEFINE s   == [st EXCEPT !.spawns = Counted(st.spawns, MaxSpawns)]
           r   == IF kind = "ruling" THEN applyRulingOutcome(s, card) ELSE s
           key == RetryKey(kind, card)
<1>1. Spent(kind, card) = IF last # NoOutcome THEN incrementRetrigger(r, key) ELSE r
  BY DEF Spent
<1>2. /\ s \in Counters /\ s.runs = st.runs /\ s.retriggers = st.retriggers
      /\ s.seen = st.seen
  <2>1. st \in Counters /\ Counted(st.spawns, MaxSpawns) \in 0 .. MaxSpawns
    BY CountedIs DEF Typed, Counters
  <2>2. QED
    BY <2>1 DEF Counters
<1> HIDE DEF s
<1>3. /\ r \in Counters /\ r.runs = st.runs /\ r.retriggers = st.retriggers
      /\ \A c \in Cards \ {card} : r.seen[c] = st.seen[c]
      /\ card \in Cards => r.seen[card]
  <2>1. CASE kind = "ruling" /\ card \in Cards
    BY <1>2, <2>1, RuledIs
  <2>2. CASE kind = "closing" /\ card = NoCard
    BY <1>2, <2>2, KeysAreApart
  <2>3. QED
    BY <2>1, <2>2
<1> HIDE DEF r
<1>4. /\ key \in Retriggers \ {"stale_terminal"}
      /\ card \in Cards => key = card /\ Retries(key) = SessionRetries
      /\ \A c \in Cards \ {card} : c \in Retriggers \ {key}
  <2>1. CASE kind = "ruling" /\ card \in Cards
    BY <2>1, KeysAreApart DEF RetryKey, Retries
  <2>2. CASE kind = "closing" /\ card = NoCard
    BY <2>2, KeysAreApart DEF RetryKey
  <2>3. QED
    BY <2>1, <2>2
<1> HIDE DEF key
<1>5. CASE last = NoOutcome
  BY <1>1, <1>3, <1>5
<1>6. CASE last # NoOutcome
  <2> DEFINE new == incrementRetrigger(r, key)
  <2>1. Spent(kind, card) = new
    BY <1>1, <1>6
  <2>2. /\ new \in Counters /\ new.runs = r.runs /\ new.seen = r.seen
        /\ new.retriggers[key] = Counted(r.retriggers[key], Retries(key))
        /\ \A k \in Retriggers \ {key} : new.retriggers[k] = r.retriggers[k]
    BY <1>3, <1>4, IncrementIs
  <2> HIDE DEF new
  <2>3. new.retriggers["stale_terminal"] = st.retriggers["stale_terminal"]
    BY <1>3, <1>4, <2>2, KeysAreApart
  <2>4. \A c \in Cards \ {card} : new.retriggers[c] = st.retriggers[c]
    BY <1>3, <1>4, <2>2
  <2>5. card \in Cards =>
          new.retriggers[card] = Counted(st.retriggers[card], SessionRetries)
    BY <1>3, <1>4, <2>2
  <2>6. QED
    BY <1>3, <1>6, <2>1, <2>2, <2>3, <2>4, <2>5
<1>7. QED
  BY <1>5, <1>6

Unseen(s, c) == [s EXCEPT !.seen[c] = FALSE]

LEMMA UnseenIs ==
  ASSUME NEW s \in Counters, NEW c \in Cards
  PROVE  /\ Unseen(s, c) \in Counters /\ Unseen(s, c).runs = s.runs
         /\ Unseen(s, c).retriggers = s.retriggers
         /\ \A d \in Cards \ {c} : Unseen(s, c).seen[d] = s.seen[d]
         /\ ~Unseen(s, c).seen[c]
<1> DEFINE new == Unseen(s, c)
<1>1. new = [s EXCEPT !.seen = [s.seen EXCEPT ![c] = FALSE]] /\ s.seen \in [Cards -> BOOLEAN]
  BY DEF Unseen, Counters
<1> HIDE DEF new
<1>2. /\ new.seen = [s.seen EXCEPT ![c] = FALSE]
      /\ new.runs = s.runs /\ new.retriggers = s.retriggers
  BY <1>1 DEF Counters
<1>3. new \in [rounds : [Cards -> 0 .. MaxRulingRounds], spawns : 0 .. MaxSpawns,
               runs : 0 .. MaxWatchdogRuns, seen : [Cards -> BOOLEAN],
               closingVerified : BOOLEAN, retriggers : [Retriggers -> Nat]]
  BY <1>1 DEF Counters
<1>4. new \in Counters
  BY <1>2, <1>3 DEF Counters
<1>5. QED
  BY <1>1, <1>2, <1>4 DEF new

\* A card that escalates: its new body is unseen, in memory and on disk, and no
\* session has ruled on it.
LEMMA EscalationIs ==
  ASSUME Typed, NEW pending, EscalatesIf(pending)
  PROVE  /\ st' \in Counters /\ disk' \in Counters
         /\ body' \in [Cards -> {"none", "open", "owner_only"}] /\ begun' \in [Cards -> Nat]
         /\ st'.runs = st.runs /\ st'.retriggers = st.retriggers
         /\ disk'.runs = disk.runs /\ disk'.retriggers = disk.retriggers
         /\ \A d \in Cards : \/ begun'[d] = 0
                             \/ /\ begun'[d] = begun[d] /\ st'.seen[d] = st.seen[d]
                                /\ disk'.seen[d] = disk.seen[d]
<1>0. /\ st \in Counters /\ disk \in Counters /\ begun \in [Cards -> Nat]
      /\ body \in [Cards -> {"none", "open", "owner_only"}]
  BY DEF Typed
<1>1. CASE UNCHANGED <<body, st, disk, begun>>
  BY <1>0, <1>1
<1>2. CASE \E c \in Cards, to \in {"open", "owner_only"}, fresh \in BOOLEAN :
             Escalate(c, to, fresh)
  <2>1. PICK c \in Cards, to \in {"open", "owner_only"}, fresh \in BOOLEAN :
          Escalate(c, to, fresh)
    BY <1>2
  <2>2. body' \in [Cards -> {"none", "open", "owner_only"}]
    BY <1>0, <2>1 DEF Escalate
  <2>3. CASE fresh
    <3>1. st' = Unseen(st, c) /\ disk' = Unseen(disk, c) /\ begun' = [begun EXCEPT ![c] = 0]
      BY <2>1, <2>3 DEF Escalate, Unseen
    <3>2. /\ begun' \in [Cards -> Nat] /\ begun'[c] = 0
          /\ \A d \in Cards \ {c} : begun'[d] = begun[d]
      BY <1>0, <3>1
    <3>3. /\ st' \in Counters /\ st'.runs = st.runs /\ st'.retriggers = st.retriggers
          /\ \A d \in Cards \ {c} : st'.seen[d] = st.seen[d]
      BY <1>0, <3>1, UnseenIs
    <3>4. /\ disk' \in Counters /\ disk'.runs = disk.runs
          /\ disk'.retriggers = disk.retriggers
          /\ \A d \in Cards \ {c} : disk'.seen[d] = disk.seen[d]
      BY <1>0, <3>1, UnseenIs
    <3>5. QED
      BY <2>2, <3>2, <3>3, <3>4
  <2>4. CASE ~fresh
    BY <1>0, <2>1, <2>2, <2>4 DEF Escalate
  <2>5. QED
    BY <2>3, <2>4
<1>3. QED
  BY <1>1, <1>2 DEF EscalatesIf
-----------------------------------------------------------------------------
(* Types                                                                   *)

\* Of the reason in a terminal, one of those that are kept.
LEMMA KeptIs ==
  ASSUME NEW why
  PROVE  Kept(why) \in KeptReasons /\ (Kept(why) = "stalled" => why = "stalled")
  BY DEF Kept, KeptReasons

CountersTyped == st \in Counters /\ disk \in Counters
LastTyped     == last \in [kind : Kinds \cup {"none"}, card : Cards \cup {NoCard},
                   outcome : {"none", "ruled", "parked", "closed", "failed", "history_rewritten"}]
ParksTyped    == {priorPark, acked, park, terminal} \subseteq KeptReasons
FactTyped     == fact \in [alive : {"no", "own", "newer"}, is : RunReasons \cup {"none"}, own : BOOLEAN]
EscalationsTyped == body \in [Cards -> {"none", "open", "owner_only"}] /\ begun \in [Cards -> Nat]
MarkersTyped  == marker \in [Cards -> BOOLEAN]
PlaceTyped ==
  /\ pc \in {"off", "observe", "await", "spawned", "session", "parked", "exiting"}
  /\ said \in TerminalReasons \cup {"absent", "none"}
  /\ faults \in 0 .. MaxFaults
DogsTyped ==
  /\ wd \in [Place -> {"down", "starting", "up"}]
  /\ handle \in Place \cup {Nobody} /\ named \in Place \cup {Nobody}
FlagsTyped ==
  /\ readable \in BOOLEAN /\ needsOwner \in BOOLEAN /\ stop \in BOOLEAN
  /\ spent \in BOOLEAN /\ superseded \in BOOLEAN /\ crowded \in BOOLEAN

LEMMA TypedIs ==
  Typed <=> /\ CountersTyped /\ LastTyped /\ ParksTyped /\ FactTyped /\ EscalationsTyped
            /\ MarkersTyped /\ PlaceTyped /\ DogsTyped /\ FlagsTyped
  BY DEF Typed, CountersTyped, LastTyped, ParksTyped, FactTyped, EscalationsTyped,
         MarkersTyped, PlaceTyped, DogsTyped, FlagsTyped

\* A session's end leaves the flags and the counters as they are.
LEMMA ReturnKeeps ==
  ASSUME SessionReturns
  PROVE  /\ pc = "session" /\ pc' = "observe" /\ st' = st /\ disk' = st
         /\ UNCHANGED <<readable, needsOwner, stop, spent, superseded, crowded>>
<1>1. PICK outcome \in {"ruled", "parked", "closed", "failed", "history_rewritten"},
           left \in BOOLEAN : SessionEnds(outcome, left)
  BY DEF SessionReturns
<1>2. /\ pc = "session" /\ pc' = "observe" /\ st' = st /\ disk' = st
      /\ UNCHANGED <<readable, needsOwner, stop, dogs, history>>
  BY <1>1 DEF SessionEnds
<1>3. QED
  BY <1>2 DEF dogs, history

LEMMA CountersKept ==
  ASSUME Typed, SupervisionInv, [Next]_vars
  PROVE  CountersTyped'
<1> USE DEF memory, home, dogs, world, history, supervisor
<1>0. st \in Counters /\ disk \in Counters
  BY DEF Typed
<1>1. CASE st' \in {st, disk} /\ disk' \in {st, disk}
  BY <1>0, <1>1 DEF CountersTyped
<1>2. CASE RunWatchdog
  <2> DEFINE old == Credited
             n   == Counted(old.runs, MaxWatchdogRuns)
  <2>1. st' = [old EXCEPT !.runs = n] /\ disk' = disk
    BY <1>2 DEF RunWatchdog
  <2>2. old \in Counters
    BY CreditedIs
  <2> HIDE DEF old
  <2>3. n \in 0 .. MaxWatchdogRuns
    BY <2>2, CountedIs DEF Counters
  <2> HIDE DEF n
  <2>4. st' \in Counters
    BY <2>1, <2>2, <2>3 DEF Counters
  <2>5. QED
    BY <1>0, <2>1, <2>4 DEF CountersTyped
<1>3. CASE SpawnSession
  <2>1. st' = Spent(decide.why, decide.card) /\ disk' = st'
    BY <1>3 DEF SpawnSession, Persist
  <2>2. st' \in Counters
    BY <1>3, <2>1, SessionFacts, SpentIs DEF SpawnSession
  <2>3. QED
    BY <2>1, <2>2 DEF CountersTyped
<1>4. CASE ExitLoop
  <2> DEFINE b == st.closingVerified \/ last.outcome = "closed"
  <2>1. b \in BOOLEAN
    OBVIOUS
  <2>2. st' = [st EXCEPT !.closingVerified = b] /\ disk' = st'
    BY <1>4 DEF ExitLoop, Persist
  <2> HIDE DEF b
  <2>3. st' \in Counters
    BY <1>0, <2>1, <2>2 DEF Counters
  <2>4. QED
    BY <2>2, <2>3 DEF CountersTyped
<1>5. ASSUME NEW pending, EscalatesIf(pending)
      PROVE  CountersTyped'
  BY <1>5, EscalationIs DEF CountersTyped
<1>6. CASE Start
  BY <1>1, <1>6 DEF Start, parseState
<1>7. CASE SessionReturns
  BY <1>1, <1>7 DEF SessionReturns, SessionEnds
<1>8. CASE Publish \/ KillSupervisor
  BY <1>1, <1>8 DEF Publish, KillSupervisor, Forgotten
<1>9. CASE Watchdogs
  BY <1>1, <1>5, <1>9 DEF Watchdogs, Watchdog, WatchdogPublishes, WatchdogEnds, WatchdogDies, Gone
<1>10. CASE Owner
  BY <1>1, <1>10 DEF Owner, DeleteNeedsOwner, FlipStop, SwitchVersion, AnswerByHand
<1>11. CASE StartUnreadable \/ RunStarts
  BY <1>1, <1>11 DEF StartUnreadable, RunStarts
<1>12. CASE \E f \in RunReasons \cup {"none"} : RunEnds(f)
  BY <1>5, <1>12 DEF RunEnds
<1>13. CASE PersistRun \/ AwaitWatchdog \/ WakeUp
  BY <1>1, <1>13 DEF PersistRun, AwaitWatchdog, WakeUp
<1>14. CASE ArchiveEscalation \/ SupersedePark \/ ParkCampaign
  BY <1>1, <1>14 DEF ArchiveEscalation, SupersedePark, ParkCampaign
<1>15. CASE UNCHANGED vars
  BY <1>1, <1>15 DEF vars
<1>16. QED
  BY <1>2, <1>3, <1>4, <1>6, <1>7, <1>8, <1>9, <1>10, <1>11, <1>12, <1>13, <1>14, <1>15
  DEF Next, Loop

LEMMA LastKept ==
  ASSUME Typed, SupervisionInv, [Next]_vars
  PROVE  LastTyped'
<1> USE DEF memory, home, dogs, world, history, supervisor
<1>0. last \in [kind : Kinds \cup {"none"}, card : Cards \cup {NoCard},
                outcome : {"none", "ruled", "parked", "closed", "failed", "history_rewritten"}]
  BY DEF Typed
<1>1. CASE last' = last
  BY <1>0, <1>1 DEF LastTyped
<1>2. CASE last' = NoOutcome
  BY <1>2 DEF LastTyped, NoOutcome
<1>3. CASE SpawnSession
  <2>1. /\ last' = [kind |-> decide.why, card |-> decide.card, outcome |-> "none"]
        /\ decide.why \in Kinds /\ decide.card \in Cards \cup {NoCard}
    BY <1>3, SessionFacts DEF SpawnSession, Kinds
  <2>2. QED
    BY <2>1 DEF LastTyped
<1>4. CASE SessionReturns
  <2>1. PICK outcome \in {"ruled", "parked", "closed", "failed", "history_rewritten"},
             left \in BOOLEAN : SessionEnds(outcome, left)
    BY <1>4 DEF SessionReturns
  <2>2. last' = [last EXCEPT !.outcome = outcome]
    BY <2>1 DEF SessionEnds
  <2>3. QED
    BY <1>0, <2>2 DEF LastTyped
<1>5. CASE RunWatchdog \/ AwaitWatchdog \/ ExitLoop \/ ParkCampaign \/ ArchiveEscalation
           \/ SupersedePark
  BY <1>2, <1>5 DEF Perform, RunWatchdog, AwaitWatchdog, ExitLoop, ParkCampaign,
                    ArchiveEscalation, SupersedePark
<1>6. CASE Start \/ Publish \/ KillSupervisor
  BY <1>2, <1>6 DEF Start, Publish, KillSupervisor, Forgotten
<1>7. CASE Watchdogs \/ RunStarts
  BY <1>1, <1>7 DEF Watchdogs, Watchdog, WatchdogPublishes, WatchdogEnds, WatchdogDies, Gone, RunStarts
<1>8. CASE Owner
  BY <1>1, <1>8 DEF Owner, DeleteNeedsOwner, FlipStop, SwitchVersion, AnswerByHand
<1>9. CASE StartUnreadable \/ PersistRun \/ WakeUp \/ UNCHANGED vars
  BY <1>1, <1>9 DEF StartUnreadable, PersistRun, WakeUp, vars
<1>10. CASE \E f \in RunReasons \cup {"none"} : RunEnds(f)
  BY <1>1, <1>10 DEF RunEnds
<1>11. QED
  BY <1>3, <1>4, <1>5, <1>6, <1>7, <1>8, <1>9, <1>10 DEF Next, Loop

LEMMA ParksKept ==
  ASSUME Typed, SupervisionInv, [Next]_vars
  PROVE  ParksTyped'
<1> USE DEF memory, home, dogs, world, history, supervisor
<1>0. /\ priorPark \in KeptReasons /\ acked \in KeptReasons /\ park \in KeptReasons
      /\ terminal \in KeptReasons /\ "none" \in KeptReasons /\ "other" \in KeptReasons
  BY DEF Typed, KeptReasons
<1>1. CASE UNCHANGED <<priorPark, acked, park>> /\ terminal' \in {terminal, "none"}
  BY <1>0, <1>1 DEF ParksTyped
<1>2. CASE Start
  BY <1>0, <1>2 DEF ParksTyped, Start
<1>3. CASE StartUnreadable
  BY <1>0, <1>3 DEF ParksTyped, StartUnreadable
<1>4. CASE RunWatchdog
  BY <1>0, <1>4 DEF ParksTyped, RunWatchdog
<1>5. CASE ParkCampaign
  <2>1. /\ UNCHANGED <<priorPark, acked, terminal>>
        /\ park' = priorPark \/ park' = Kept(decide.why)
    BY <1>5 DEF ParkCampaign
  <2>2. QED
    BY <1>0, <2>1, KeptIs DEF ParksTyped
<1>6. CASE ExitLoop
  <2>1. UNCHANGED <<priorPark, acked, terminal>> /\ park' = Kept(decide.why)
    BY <1>6 DEF ExitLoop
  <2>2. QED
    BY <1>0, <2>1, KeptIs DEF ParksTyped
<1>7. CASE Publish \/ KillSupervisor
  BY <1>0, <1>7 DEF ParksTyped, Publish, KillSupervisor, Forgotten
<1>8. CASE PersistRun \/ AwaitWatchdog \/ WakeUp \/ SpawnSession \/ UNCHANGED vars
  BY <1>1, <1>8 DEF PersistRun, AwaitWatchdog, WakeUp, SpawnSession, Republish, vars
<1>9. CASE ArchiveEscalation \/ SupersedePark
  BY <1>1, <1>9 DEF ArchiveEscalation, SupersedePark, Republish
<1>10. CASE Watchdogs \/ RunStarts
  BY <1>1, <1>10 DEF Watchdogs, Watchdog, WatchdogPublishes, WatchdogEnds, WatchdogDies, Gone, RunStarts
<1>11. CASE SessionReturns
  BY <1>1, <1>11 DEF SessionReturns, SessionEnds, Republish
<1>12. CASE Owner
  BY <1>1, <1>12 DEF Owner, DeleteNeedsOwner, FlipStop, SwitchVersion, AnswerByHand
<1>13. CASE \E f \in RunReasons \cup {"none"} : RunEnds(f)
  BY <1>1, <1>13 DEF RunEnds
<1>14. QED
  BY <1>2, <1>3, <1>4, <1>5, <1>6, <1>7, <1>8, <1>9, <1>10, <1>11, <1>12, <1>13
  DEF Next, Loop

\* What run.json says when a watchdog ends is one of the reasons of a run.
LEMMA EvidenceIs ==
  ASSUME NEW r \in TerminalReasons, NEW f \in Evidence(r)
  PROVE  f \in RunReasons \cup {"none"}
<1>1. CASE r = "runner_done"
  BY <1>1 DEF Evidence, RunReasons, terminalReasonForRunReason
<1>2. CASE r \in {"error", "escalations_pending"}
  BY <1>2 DEF Evidence, RunReasons, terminalReasonForRunReason
<1>3. CASE r = "stalled"
  BY <1>3 DEF Evidence
<1>4. CASE r \in {"session_incomplete", "quota_cap", "overloaded", "permanent_api_error"}
  BY <1>4 DEF Evidence
<1>5. CASE r \notin {"runner_done", "error", "escalations_pending", "stalled",
                     "session_incomplete", "quota_cap", "overloaded", "permanent_api_error"}
  BY <1>5 DEF Evidence
<1>6. QED
  BY <1>1, <1>2, <1>3, <1>4, <1>5

LEMMA FactKept ==
  ASSUME Typed, SupervisionInv, [Next]_vars
  PROVE  FactTyped'
<1> USE DEF memory, home, dogs, world, history, supervisor
<1>0. fact \in [alive : {"no", "own", "newer"}, is : RunReasons \cup {"none"}, own : BOOLEAN]
  BY DEF Typed
<1>1. CASE fact' = fact
  BY <1>0, <1>1 DEF FactTyped
<1>2. ASSUME NEW w \in Place, WatchdogPublishes(w)
      PROVE  FactTyped'
  BY <1>2 DEF FactTyped, WatchdogPublishes, NoFact
<1>3. ASSUME NEW w \in Place, NEW r \in TerminalReasons, NEW f \in Evidence(r),
             WatchdogEnds(w, r, f)
      PROVE  FactTyped'
  <2>1. f \in RunReasons \cup {"none"}
    BY EvidenceIs
  <2>2. \E a \in {"no", "own", "newer"} : fact' = [alive |-> a, is |-> f, own |-> TRUE]
    BY <1>3 DEF WatchdogEnds
  <2>3. QED
    BY <2>1, <2>2 DEF FactTyped
<1>4. CASE RunStarts
  BY <1>0, <1>4 DEF FactTyped, RunStarts
<1>5. ASSUME NEW f \in RunReasons \cup {"none"}, RunEnds(f)
      PROVE  FactTyped'
  <2>1. fact' = [fact EXCEPT !.alive = "no"]
        \/ \E b \in BOOLEAN : fact' = [alive |-> "no", is |-> f, own |-> b]
    BY <1>5 DEF RunEnds
  <2>2. QED
    BY <1>0, <2>1 DEF FactTyped
<1>6. CASE Start \/ StartUnreadable \/ KillSupervisor \/ \E w \in Place : WatchdogDies(w)
  BY <1>1, <1>6 DEF Start, StartUnreadable, KillSupervisor, WatchdogDies
<1>7. CASE RunWatchdog \/ PersistRun \/ AwaitWatchdog \/ WakeUp \/ SpawnSession
  BY <1>1, <1>7 DEF RunWatchdog, PersistRun, AwaitWatchdog, WakeUp, SpawnSession
<1>8. CASE ArchiveEscalation \/ SupersedePark \/ ParkCampaign \/ ExitLoop \/ Publish
  BY <1>1, <1>8 DEF ArchiveEscalation, SupersedePark, ParkCampaign, ExitLoop, Publish
<1>9. CASE SessionReturns
  BY <1>1, <1>9 DEF SessionReturns, SessionEnds
<1>10. CASE Owner
  BY <1>1, <1>10 DEF Owner, DeleteNeedsOwner, FlipStop, SwitchVersion, AnswerByHand
<1>11. CASE UNCHANGED vars
  BY <1>1, <1>11 DEF vars
<1>12. QED
  BY <1>2, <1>3, <1>4, <1>5, <1>6, <1>7, <1>8, <1>9, <1>10, <1>11
  DEF Next, Loop, Watchdogs, Watchdog

LEMMA EscalationsKept ==
  ASSUME Typed, SupervisionInv, [Next]_vars
  PROVE  EscalationsTyped' /\ MarkersTyped'
<1> USE DEF memory, home, dogs, world, history, supervisor
<1>0. /\ body \in [Cards -> {"none", "open", "owner_only"}] /\ begun \in [Cards -> Nat]
      /\ marker \in [Cards -> BOOLEAN]
  BY DEF Typed
<1>1. CASE UNCHANGED <<body, begun, marker>>
  BY <1>0, <1>1 DEF EscalationsTyped, MarkersTyped
<1>2. CASE SpawnSession
  <2>1. /\ begun' = [c \in Cards |-> IF c = decide.card
                       THEN Counted(begun[c], SessionRetries + 2) ELSE begun[c]]
        /\ UNCHANGED <<body, marker>>
    BY <1>2 DEF SpawnSession
  <2>2. \A c \in Cards : Counted(begun[c], SessionRetries + 2) \in Nat
    BY <1>0 DEF Counted
  <2>3. QED
    BY <1>0, <2>1, <2>2 DEF EscalationsTyped, MarkersTyped
<1>3. CASE ArchiveEscalation
  BY <1>0, <1>3 DEF ArchiveEscalation, EscalationsTyped, MarkersTyped
<1>4. ASSUME NEW pending, EscalatesIf(pending), marker' = marker
      PROVE  EscalationsTyped' /\ MarkersTyped'
  BY <1>0, <1>4, EscalationIs DEF EscalationsTyped, MarkersTyped
<1>5. ASSUME NEW c \in Cards, AnswerByHand(c)
      PROVE  EscalationsTyped' /\ MarkersTyped'
  BY <1>0, <1>5 DEF AnswerByHand, EscalationsTyped, MarkersTyped
<1>6. CASE SessionReturns
  BY <1>0, <1>6 DEF SessionReturns, SessionEnds, EscalationsTyped, MarkersTyped
<1>7. CASE Start \/ StartUnreadable \/ KillSupervisor \/ RunStarts
  BY <1>1, <1>7 DEF Start, StartUnreadable, KillSupervisor, RunStarts
<1>8. CASE RunWatchdog \/ PersistRun \/ AwaitWatchdog \/ WakeUp
  BY <1>1, <1>8 DEF RunWatchdog, PersistRun, AwaitWatchdog, WakeUp
<1>9. CASE SupersedePark \/ ParkCampaign \/ ExitLoop \/ Publish
  BY <1>1, <1>9 DEF SupersedePark, ParkCampaign, ExitLoop, Publish
<1>10. CASE Watchdogs
  BY <1>1, <1>4, <1>10 DEF Watchdogs, Watchdog, WatchdogPublishes, WatchdogEnds, WatchdogDies, Gone
<1>11. CASE DeleteNeedsOwner \/ FlipStop \/ SwitchVersion \/ UNCHANGED vars
  BY <1>1, <1>11 DEF DeleteNeedsOwner, FlipStop, SwitchVersion, vars
<1>12. CASE \E f \in RunReasons \cup {"none"} : RunEnds(f)
  BY <1>4, <1>12 DEF RunEnds
<1>13. QED
  BY <1>2, <1>3, <1>5, <1>6, <1>7, <1>8, <1>9, <1>10, <1>11, <1>12 DEF Next, Loop, Owner

LEMMA PlaceKept ==
  ASSUME Typed, SupervisionInv, [Next]_vars
  PROVE  PlaceTyped'
<1> USE DEF memory, home, dogs, world, history, supervisor
<1>0. PlaceTyped
  BY TypedIs
<1> USE DEF PlaceTyped
<1>1. CASE UNCHANGED <<said, faults>>
           /\ pc' \in {"off", "observe", "await", "spawned", "session", "parked", "exiting"}
  BY <1>0, <1>1
<1>2. CASE RunWatchdog
  BY <1>0, <1>2 DEF RunWatchdog
<1>3. ASSUME NEW w \in Place, WatchdogPublishes(w)
      PROVE  PlaceTyped'
  BY <1>0, <1>3 DEF WatchdogPublishes
<1>4. ASSUME NEW w \in Place, NEW r \in TerminalReasons, NEW f \in Evidence(r),
             WatchdogEnds(w, r, f)
      PROVE  PlaceTyped'
  BY <1>0, <1>4 DEF WatchdogEnds
<1>5. ASSUME faults < MaxFaults, faults' = faults + 1
      PROVE  faults' \in 0 .. MaxFaults
  <2>1. faults \in Nat
    BY <1>0
  <2>2. QED
    BY <1>5, <2>1
<1>6. CASE KillSupervisor \/ RunStarts \/ \E w \in Place : WatchdogDies(w)
  BY <1>0, <1>5, <1>6 DEF KillSupervisor, Forgotten, WatchdogDies, RunStarts
<1>7. CASE SwitchVersion \/ FlipStop
  BY <1>0, <1>5, <1>7 DEF SwitchVersion, FlipStop
<1>8. CASE Start \/ StartUnreadable \/ Publish \/ UNCHANGED vars
  BY <1>0, <1>1, <1>8 DEF Start, StartUnreadable, Publish, Forgotten, vars
<1>9. CASE PersistRun \/ AwaitWatchdog \/ WakeUp \/ SpawnSession \/ SessionReturns
  BY <1>1, <1>9 DEF PersistRun, AwaitWatchdog, WakeUp, SpawnSession, SessionReturns,
                    SessionEnds
<1>10. CASE ParkCampaign \/ ExitLoop
  BY <1>1, <1>10 DEF ParkCampaign, ExitLoop
<1>11. CASE ArchiveEscalation \/ SupersedePark
  BY <1>0, <1>1, <1>11 DEF ArchiveEscalation, SupersedePark
<1>12. CASE DeleteNeedsOwner \/ \E c \in Cards : AnswerByHand(c)
  BY <1>0, <1>1, <1>12 DEF DeleteNeedsOwner, AnswerByHand
<1>13. CASE \E f \in RunReasons \cup {"none"} : RunEnds(f)
  BY <1>0, <1>1, <1>13 DEF RunEnds
<1>14. QED
  BY <1>2, <1>3, <1>4, <1>6, <1>7, <1>8, <1>9, <1>10, <1>11, <1>12, <1>13
  DEF Next, Loop, Owner, Watchdogs, Watchdog

\* A watchdog that is started takes a place that is free.
LEMMA FreePlace ==
  ASSUME Typed, RunWatchdog
  PROVE  handle' \in Place /\ wd[handle'] = "down"
<1>1. handle' = CHOOSE w \in Place : w \notin Alive(wd)
  BY DEF RunWatchdog
<1>2. \E w \in Place : w \notin Alive(wd)
  BY DEF RunWatchdog, Alive
<1>3. handle' \in Place /\ handle' \notin Alive(wd)
  BY <1>1, <1>2
<1>4. QED
  BY <1>3 DEF Alive

LEMMA DogsKept ==
  ASSUME Typed, SupervisionInv, [Next]_vars
  PROVE  DogsTyped'
<1> USE DEF memory, home, dogs, world, history, supervisor
<1>0. DogsTyped
  BY TypedIs
<1> USE DEF DogsTyped
<1>1. CASE UNCHANGED <<wd, named>> /\ handle' \in {handle, Nobody}
  BY <1>0, <1>1
<1>2. CASE RunWatchdog
  <2>1. handle' \in Place /\ wd' = [wd EXCEPT ![handle'] = "starting"] /\ named' = named
    BY <1>2, FreePlace DEF RunWatchdog
  <2>2. QED
    BY <1>0, <2>1
<1>3. CASE Watchdogs
  BY <1>0, <1>3 DEF Watchdogs, Watchdog, WatchdogPublishes, WatchdogEnds, WatchdogDies, Gone
<1>4. CASE Start \/ StartUnreadable \/ KillSupervisor \/ RunStarts
  BY <1>1, <1>4 DEF Start, StartUnreadable, KillSupervisor, Forgotten, RunStarts
<1>5. CASE PersistRun \/ AwaitWatchdog \/ WakeUp \/ SpawnSession
  BY <1>1, <1>5 DEF PersistRun, AwaitWatchdog, WakeUp, SpawnSession
<1>6. CASE ArchiveEscalation \/ SupersedePark \/ ParkCampaign \/ ExitLoop \/ Publish
  BY <1>1, <1>6 DEF ArchiveEscalation, SupersedePark, ParkCampaign, ExitLoop, Publish, Forgotten
<1>7. CASE SessionReturns
  BY <1>1, <1>7 DEF SessionReturns, SessionEnds
<1>8. CASE Owner
  BY <1>1, <1>8 DEF Owner, DeleteNeedsOwner, FlipStop, SwitchVersion, AnswerByHand
<1>9. CASE (\E f \in RunReasons \cup {"none"} : RunEnds(f)) \/ UNCHANGED vars
  BY <1>1, <1>9 DEF RunEnds, vars
<1>10. QED
  BY <1>2, <1>3, <1>4, <1>5, <1>6, <1>7, <1>8, <1>9 DEF Next, Loop

LEMMA FlagsKept ==
  ASSUME Typed, SupervisionInv, [Next]_vars
  PROVE  FlagsTyped'
<1> USE DEF memory, home, dogs, world, history, supervisor
<1>0. FlagsTyped
  BY TypedIs
<1> USE DEF FlagsTyped
<1>1. CASE UNCHANGED <<readable, needsOwner, stop, spent, superseded, crowded>>
  BY <1>0, <1>1
<1>2. CASE Start \/ StartUnreadable \/ KillSupervisor
  BY <1>0, <1>2 DEF Start, StartUnreadable, KillSupervisor, Forgotten
<1>3. CASE RunWatchdog \/ WakeUp
  BY <1>0, <1>3 DEF RunWatchdog, WakeUp
<1>4. CASE SupersedePark \/ ParkCampaign \/ Publish
  BY <1>0, <1>4 DEF SupersedePark, ParkCampaign, Publish, Forgotten
<1>5. CASE PersistRun \/ AwaitWatchdog \/ SpawnSession \/ ArchiveEscalation \/ ExitLoop
  BY <1>1, <1>5 DEF PersistRun, AwaitWatchdog, SpawnSession, ArchiveEscalation, ExitLoop
<1>6. CASE SessionReturns
  BY <1>1, <1>6, ReturnKeeps
<1>11. CASE Watchdogs
  <2>1. PICK w \in Place : Watchdog(w) \/ WatchdogDies(w)
    BY <1>11 DEF Watchdogs
  <2>2. /\ UNCHANGED <<readable, needsOwner, stop, spent>> /\ superseded' \in {superseded, FALSE}
        /\ crowded' \in BOOLEAN
    <3>1. CASE WatchdogPublishes(w)
      BY <1>0, <3>1 DEF WatchdogPublishes
    <3>2. CASE WatchdogDies(w)
      BY <1>0, <3>2 DEF WatchdogDies, Gone
    <3>3. CASE \E r \in TerminalReasons : \E f \in Evidence(r) : WatchdogEnds(w, r, f)
      BY <1>0, <3>3 DEF WatchdogEnds, Gone
    <3>4. QED
      BY <2>1, <3>1, <3>2, <3>3 DEF Watchdog
  <2>3. QED
    BY <1>0, <2>2
<1>7. CASE RunStarts \/ \E f \in RunReasons \cup {"none"} : RunEnds(f)
  BY <1>0, <1>7 DEF RunStarts, RunEnds
<1>8. CASE Owner
  BY <1>0, <1>8 DEF Owner, DeleteNeedsOwner, FlipStop, SwitchVersion, AnswerByHand
<1>9. CASE UNCHANGED vars
  BY <1>1, <1>9 DEF vars
<1>10. QED
  BY <1>2, <1>3, <1>4, <1>5, <1>6, <1>7, <1>8, <1>9, <1>11 DEF Next, Loop

LEMMA TypedKept ==
  ASSUME Typed, SupervisionInv, [Next]_vars
  PROVE  Typed'
<1>1. CountersTyped' /\ LastTyped' /\ ParksTyped' /\ FactTyped' /\ EscalationsTyped'
      /\ MarkersTyped' /\ PlaceTyped' /\ DogsTyped' /\ FlagsTyped'
  BY CountersKept, LastKept, ParksKept, FactKept, EscalationsKept, PlaceKept, DogsKept,
     FlagsKept
<1>2. QED
  BY <1>1 DEF Typed, CountersTyped, LastTyped, ParksTyped, FactTyped, EscalationsTyped,
              MarkersTyped, PlaceTyped, DogsTyped, FlagsTyped

-----------------------------------------------------------------------------
(* What the promises rest on                                               *)

LEMMA SessionsKept ==
  ASSUME Typed, SupervisionInv, [Next]_vars
  PROVE  SessionsAreKnown'
<1> USE DEF memory, home, dogs, world, history, supervisor
<1>0. SessionsAreKnown
  BY DEF SupervisionInv
<1>1. CASE last' = last /\ (pc' = pc \/ (pc # "session" /\ pc' # "session"))
  BY <1>0, <1>1 DEF SessionsAreKnown
<1>2. CASE last' = NoOutcome /\ pc' # "session"
  BY <1>2 DEF SessionsAreKnown
<1>3. CASE SpawnSession
  <2>1. /\ last' = [kind |-> decide.why, card |-> decide.card, outcome |-> "none"]
        /\ pc' = "session"
        /\ \/ decide.why = "ruling" /\ decide.card \in Cards
           \/ decide.why = "closing" /\ decide.card = NoCard
    BY <1>3, SessionFacts DEF SpawnSession
  <2>2. QED
    BY <2>1 DEF SessionsAreKnown, Kinds
<1>4. CASE SessionReturns
  <2>1. PICK outcome \in {"ruled", "parked", "closed", "failed", "history_rewritten"},
             left \in BOOLEAN : SessionEnds(outcome, left)
    BY <1>4 DEF SessionReturns
  <2>2. /\ pc = "session" /\ pc' = "observe" /\ last' = [last EXCEPT !.outcome = outcome]
        /\ last.kind \in Kinds
    BY <1>0, <2>1 DEF SessionEnds, SessionsAreKnown
  <2>3. last'.kind = last.kind /\ last'.card = last.card /\ last'.outcome = outcome
    BY <2>2 DEF Typed
  <2>4. last # NoOutcome
    BY <2>2 DEF NoOutcome, Kinds
  <2>5. QED
    BY <1>0, <2>2, <2>3, <2>4 DEF SessionsAreKnown
<1>5. CASE Start \/ Publish \/ KillSupervisor
  BY <1>2, <1>5 DEF Start, Publish, KillSupervisor, Forgotten
<1>6. CASE RunWatchdog \/ AwaitWatchdog \/ ParkCampaign \/ ExitLoop
  BY <1>2, <1>6 DEF RunWatchdog, AwaitWatchdog, ParkCampaign, ExitLoop, Perform
<1>7. CASE ArchiveEscalation \/ SupersedePark
  BY <1>2, <1>7 DEF ArchiveEscalation, SupersedePark, Perform
<1>8. CASE StartUnreadable \/ PersistRun \/ WakeUp \/ UNCHANGED vars
  BY <1>1, <1>8 DEF StartUnreadable, tryAcquireLock, PersistRun, WakeUp, vars
<1>9. CASE Watchdogs \/ RunStarts
  BY <1>1, <1>9 DEF Watchdogs, Watchdog, WatchdogPublishes, WatchdogEnds, WatchdogDies, Gone, RunStarts
<1>10. CASE Owner
  BY <1>1, <1>10 DEF Owner, DeleteNeedsOwner, FlipStop, SwitchVersion, AnswerByHand
<1>11. CASE \E f \in RunReasons \cup {"none"} : RunEnds(f)
  BY <1>1, <1>11 DEF RunEnds
<1>12. QED
  BY <1>3, <1>4, <1>5, <1>6, <1>7, <1>8, <1>9, <1>10, <1>11 DEF Next, Loop

\* The counters that a ruling is paid with, of one copy of the state.
Pays(s, n, c) == n <= (IF s.seen[c] THEN 1 ELSE 0) + s.retriggers[c]

LEMMA RulingsKept ==
  ASSUME Typed, SupervisionInv, [Next]_vars
  PROVE  RulingsArePaid'
<1> USE DEF memory, home, dogs, world, history, supervisor
<1>0. /\ \A c \in Cards : Pays(st, begun[c], c) /\ Pays(disk, begun[c], c)
      /\ st \in Counters /\ disk \in Counters /\ begun \in [Cards -> Nat]
      /\ \A c \in Cards : begun[c] \in Nat /\ st.retriggers[c] \in Nat
                          /\ disk.retriggers[c] \in Nat
      /\ \A c \in Cards : st.seen[c] \in BOOLEAN /\ disk.seen[c] \in BOOLEAN
  <2>1. \A c \in Cards : Pays(st, begun[c], c) /\ Pays(disk, begun[c], c)
    BY DEF SupervisionInv, RulingsArePaid, Pays
  <2>2. st \in Counters /\ disk \in Counters /\ begun \in [Cards -> Nat]
    BY DEF Typed
  <2>3. QED
    BY <2>1, <2>2, KeysAreApart DEF Counters
<1>1. ASSUME \A c \in Cards : Pays(st', begun'[c], c) /\ Pays(disk', begun'[c], c)
      PROVE  RulingsArePaid'
  BY <1>1 DEF RulingsArePaid, Pays
<1>2. CASE begun' = begun /\ st' \in {st, disk} /\ disk' \in {st, disk}
  BY <1>0, <1>1, <1>2
<1>3. CASE RunWatchdog
  <2> DEFINE old == Credited
             n   == Counted(old.runs, MaxWatchdogRuns)
  <2>1. st' = [old EXCEPT !.runs = n] /\ UNCHANGED <<disk, begun>>
    BY <1>3 DEF RunWatchdog
  <2>2. /\ old \in Counters /\ old.seen = st.seen
        /\ \A c \in Cards : old.retriggers[c] = st.retriggers[c]
    BY CreditedIs
  <2> HIDE DEF old, n
  <2>3. st'.seen = st.seen /\ \A c \in Cards : st'.retriggers[c] = st.retriggers[c]
    BY <2>1, <2>2 DEF Counters
  <2>4. \A c \in Cards : Pays(st', begun'[c], c) /\ Pays(disk', begun'[c], c)
    BY <1>0, <2>1, <2>3 DEF Pays
  <2>5. QED
    BY <1>1, <2>4
<1>4. CASE SpawnSession
  <2> DEFINE card == decide.card
  <2>1. /\ st' = Spent(decide.why, card) /\ disk' = st'
        /\ begun' = [c \in Cards |-> IF c = card
              THEN Counted(begun[c], SessionRetries + 2) ELSE begun[c]]
    BY <1>4 DEF SpawnSession, Persist
  <2>2. /\ \/ decide.why = "ruling" /\ card \in Cards
           \/ decide.why = "closing" /\ card = NoCard
        /\ last # NoOutcome =>
             st.retriggers[RetryKey(decide.why, card)] < SessionRetries
        /\ last = NoOutcome /\ decide.why = "ruling" => ~st.seen[card]
    BY <1>4, SessionFacts DEF SpawnSession
  <2>3. /\ \A c \in Cards \ {card} :
              st'.seen[c] = st.seen[c] /\ st'.retriggers[c] = st.retriggers[c]
        /\ card \in Cards =>
             /\ st'.seen[card]
             /\ st'.retriggers[card] =
                  IF last # NoOutcome THEN Counted(st.retriggers[card], SessionRetries)
                  ELSE st.retriggers[card]
    BY <2>1, <2>2, SpentIs
  <2> HIDE DEF card
  <2>4. \A c \in Cards \ {card} : Pays(st', begun'[c], c)
    BY <1>0, <2>1, <2>3 DEF Pays
  <2>5. ASSUME card \in Cards
        PROVE  Pays(st', begun'[card], card)
    <3>1. /\ begun[card] \in Nat /\ st.retriggers[card] \in Nat
          /\ st.seen[card] \in BOOLEAN
          /\ begun[card] <= (IF st.seen[card] THEN 1 ELSE 0) + st.retriggers[card]
      BY <1>0, <2>5 DEF Pays
    <3>2. begun'[card] = Counted(begun[card], SessionRetries + 2)
      BY <2>1, <2>5
    <3>3. begun'[card] \in Nat /\ begun'[card] <= begun[card] + 1
      BY <3>1, <3>2 DEF Counted
    <3>4. decide.why = "ruling"
      BY <2>2, <2>5, KeysAreApart
    <3>5. CASE last = NoOutcome
      <4>1. ~st.seen[card] /\ st'.seen[card] /\ st'.retriggers[card] = st.retriggers[card]
        BY <2>2, <2>3, <2>5, <3>4, <3>5
      <4>2. begun'[card] <= 1 + st'.retriggers[card]
        BY <3>1, <3>3, <4>1
      <4>3. QED
        BY <4>1, <4>2 DEF Pays
    <3>6. CASE last # NoOutcome
      <4>1. st.retriggers[card] < SessionRetries
        BY <2>2, <3>4, <3>6 DEF RetryKey
      <4>2. st'.seen[card] /\ st'.retriggers[card] = Counted(st.retriggers[card], SessionRetries)
        BY <2>3, <2>5, <3>6
      <4>3. st'.retriggers[card] = st.retriggers[card] + 1
        BY <3>1, <4>1, <4>2 DEF Counted
      <4>4. begun[card] <= 1 + st.retriggers[card]
        BY <3>1
      <4>5. begun'[card] <= 1 + st'.retriggers[card]
        BY <3>1, <3>3, <4>3, <4>4
      <4>6. QED
        BY <4>2, <4>5 DEF Pays
    <3>7. QED
      BY <3>5, <3>6
  <2>6. \A c \in Cards : Pays(st', begun'[c], c)
    BY <2>4, <2>5
  <2>7. QED
    BY <1>1, <2>1, <2>6
<1>5. CASE ExitLoop
  <2> DEFINE b == st.closingVerified \/ last.outcome = "closed"
  <2>1. st' = [st EXCEPT !.closingVerified = b] /\ disk' = st' /\ begun' = begun
    BY <1>5 DEF ExitLoop, Persist
  <2> HIDE DEF b
  <2>2. st'.seen = st.seen /\ st'.retriggers = st.retriggers
    BY <1>0, <2>1 DEF Counters
  <2>3. \A c \in Cards : Pays(st', begun'[c], c) /\ Pays(disk', begun'[c], c)
    BY <1>0, <2>1, <2>2 DEF Pays
  <2>4. QED
    BY <1>1, <2>3
<1>6. ASSUME NEW pending, EscalatesIf(pending)
      PROVE  RulingsArePaid'
  <2>1. /\ st'.retriggers = st.retriggers /\ disk'.retriggers = disk.retriggers
        /\ st' \in Counters /\ disk' \in Counters
        /\ \A d \in Cards : \/ begun'[d] = 0
                            \/ /\ begun'[d] = begun[d] /\ st'.seen[d] = st.seen[d]
                               /\ disk'.seen[d] = disk.seen[d]
    BY <1>6, EscalationIs
  <2>2. ASSUME NEW c \in Cards
        PROVE  Pays(st', begun'[c], c) /\ Pays(disk', begun'[c], c)
    <3>1. CASE begun'[c] = 0
      <4>1. st'.retriggers[c] \in Nat /\ disk'.retriggers[c] \in Nat
        BY <1>0, <2>1
      <4>2. QED
        BY <3>1, <4>1 DEF Pays
    <3>2. CASE /\ begun'[c] = begun[c] /\ st'.seen[c] = st.seen[c]
               /\ disk'.seen[c] = disk.seen[c]
      BY <1>0, <2>1, <3>2 DEF Pays
    <3>3. QED
      BY <2>1, <3>1, <3>2
  <2>3. QED
    BY <1>1, <2>2
<1>7. CASE Start \/ Publish \/ KillSupervisor
  BY <1>2, <1>7 DEF Start, parseState, Publish, KillSupervisor, Forgotten
<1>8. CASE PersistRun \/ AwaitWatchdog \/ WakeUp \/ SessionReturns
  BY <1>2, <1>8 DEF PersistRun, AwaitWatchdog, WakeUp, SessionReturns, SessionEnds
<1>9. CASE ArchiveEscalation \/ SupersedePark \/ ParkCampaign \/ StartUnreadable
  BY <1>2, <1>9 DEF ArchiveEscalation, SupersedePark, ParkCampaign, StartUnreadable
<1>10. CASE Watchdogs \/ RunStarts
  BY <1>2, <1>6, <1>10 DEF Watchdogs, Watchdog, WatchdogPublishes, WatchdogEnds, WatchdogDies, Gone, RunStarts
<1>11. CASE Owner \/ UNCHANGED vars
  BY <1>2, <1>11 DEF Owner, DeleteNeedsOwner, FlipStop, SwitchVersion, AnswerByHand, vars
<1>12. CASE \E f \in RunReasons \cup {"none"} : RunEnds(f)
  BY <1>6, <1>12 DEF RunEnds
<1>13. QED
  BY <1>3, <1>4, <1>5, <1>7, <1>8, <1>9, <1>10, <1>11, <1>12 DEF Next, Loop

\* A session is charged to no run, and no run's retrigger.
LEMMA SessionCostsNoRun ==
  ASSUME Typed, SupervisionInv, SpawnSession
  PROVE  /\ st'.runs = st.runs /\ disk' = st'
         /\ st'.retriggers["stale_terminal"] = st.retriggers["stale_terminal"]
  BY SessionFacts, SpentIs DEF SpawnSession, Persist

\* Nor is an exit.
LEMMA ExitCostsNoRun ==
  ASSUME Typed, ExitLoop
  PROVE  st'.runs = st.runs /\ st'.retriggers = st.retriggers /\ disk' = st'
<1> DEFINE b == st.closingVerified \/ last.outcome = "closed"
<1>1. st' = [st EXCEPT !.closingVerified = b] /\ disk' = st' /\ st \in Counters
  BY DEF ExitLoop, Persist, Typed
<1> HIDE DEF b
<1>2. QED
  BY <1>1 DEF Counters

LEMMA RunsKept ==
  ASSUME Typed, SupervisionInv, [Next]_vars
  PROVE  RunsAreSaved'
<1> USE DEF memory, home, dogs, world, history, supervisor
<1>0. RunsAreSaved
  BY DEF SupervisionInv
<1>1. CASE UNCHANGED <<st, disk>> /\ (pc' = pc \/ pc # "spawned")
  BY <1>0, <1>1 DEF RunsAreSaved
<1>2. CASE st' = disk'
  BY <1>2 DEF RunsAreSaved
<1>3. CASE RunWatchdog
  BY <1>3 DEF RunWatchdog, RunsAreSaved
<1>4. CASE SpawnSession
  BY <1>2, <1>4, SessionCostsNoRun
<1>5. CASE ExitLoop
  BY <1>2, <1>5, ExitCostsNoRun
<1>6. ASSUME NEW pending, EscalatesIf(pending), pc' = pc
      PROVE  RunsAreSaved'
  <2>1. /\ st'.runs = st.runs /\ st'.retriggers = st.retriggers
        /\ disk'.runs = disk.runs /\ disk'.retriggers = disk.retriggers
    BY <1>6, EscalationIs
  <2>2. QED
    BY <1>0, <1>6, <2>1 DEF RunsAreSaved
<1>7. CASE Start \/ Publish \/ KillSupervisor \/ PersistRun \/ SessionReturns
  BY <1>2, <1>7, ReturnKeeps DEF Start, parseState, Publish, KillSupervisor, Forgotten,
                                 PersistRun
<1>8. CASE StartUnreadable \/ AwaitWatchdog \/ WakeUp
  BY <1>1, <1>8 DEF StartUnreadable, tryAcquireLock, AwaitWatchdog, Perform, WakeUp
<1>9. CASE ArchiveEscalation \/ SupersedePark \/ ParkCampaign
  BY <1>1, <1>9 DEF ArchiveEscalation, SupersedePark, ParkCampaign, Perform
<1>10. CASE Watchdogs \/ RunStarts
  BY <1>1, <1>6, <1>10 DEF Watchdogs, Watchdog, WatchdogPublishes, WatchdogEnds, WatchdogDies, Gone, RunStarts
<1>11. CASE Owner \/ UNCHANGED vars
  BY <1>1, <1>11 DEF Owner, DeleteNeedsOwner, FlipStop, SwitchVersion, AnswerByHand, vars
<1>12. CASE \E f \in RunReasons \cup {"none"} : RunEnds(f)
  BY <1>6, <1>12 DEF RunEnds
<1>13. QED
  BY <1>3, <1>4, <1>5, <1>7, <1>8, <1>9, <1>10, <1>11, <1>12 DEF Next, Loop

\* A run is started when no document of a park is there, and no watchdog that has
\* said so, unless there were two.
LEMMA RunFacts ==
  ASSUME Typed, SupervisionInv, pc = "observe", decide.do = "run"
  PROVE  /\ ~needsOwner /\ handle = Nobody /\ named = Nobody
         /\ crowded \/ \A w \in Place : wd[w] # "up"
<1>1. ~needsOwner /\ ~WatchdogLive
  BY DeedIs DEF RunIs
<1>2. handle = Nobody /\ named = Nobody
  BY <1>1 DEF WatchdogLive, SupervisionInv, WatchdogIsKnown
<1>3. \A w \in Place : w # Nobody
  BY DEF Place, Nobody
<1>4. QED
  BY <1>1, <1>2, <1>3 DEF SupervisionInv, WatchdogIsKnown

\* The parts of what is known of the watchdogs.
NamedIsUp  == named # Nobody => wd[named] = "up" /\ said = "none"
HandleLives == handle # Nobody => wd[handle] # "down" /\ pc # "off"
Lonely     == crowded \/ \A v, w \in Alive(wd) : v = w
UpIsNamed  == crowded \/ \A w \in Place : wd[w] = "up" => named = w

LEMMA KnownIs == WatchdogIsKnown <=> NamedIsUp /\ HandleLives /\ Lonely /\ UpIsNamed
  BY DEF WatchdogIsKnown, NamedIsUp, HandleLives, Lonely, UpIsNamed

LEMMA PublishKeepsDogs ==
  ASSUME Typed, WatchdogIsKnown, NEW w \in Place, WatchdogPublishes(w)
  PROVE  WatchdogIsKnown'
<1> USE DEF supervisor, memory
<1>1. /\ wd \in [Place -> {"down", "starting", "up"}] /\ handle \in Place \cup {Nobody}
      /\ wd[w] # "down" /\ wd' = [wd EXCEPT ![w] = "up"] /\ said' = "none" /\ named' = w
      /\ UNCHANGED <<pc, handle, crowded>>
  BY DEF Typed, WatchdogPublishes
<1>2. NamedIsUp'
  BY <1>1 DEF NamedIsUp
<1>3. HandleLives'
  BY <1>1, KnownIs DEF HandleLives
<1>4. Alive(wd') = Alive(wd) /\ w \in Alive(wd)
  BY <1>1 DEF Alive
<1>5. Lonely'
  BY <1>1, <1>4, KnownIs DEF Lonely
<1>6. UpIsNamed'
  <2>1. ASSUME ~crowded, NEW v \in Place, wd'[v] = "up"
        PROVE  named' = v
    <3>1. v \in Alive(wd)
      BY <1>1, <1>4, <2>1 DEF Alive
    <3>2. v = w
      BY <1>4, <2>1, <3>1, KnownIs DEF Lonely
    <3>3. QED
      BY <1>1, <3>2
  <2>2. QED
    BY <1>1, <2>1 DEF UpIsNamed
<1>7. QED
  BY <1>2, <1>3, <1>5, <1>6 DEF WatchdogIsKnown, NamedIsUp, HandleLives, Lonely, UpIsNamed

LEMMA GoneKeepsDogs ==
  ASSUME Typed, WatchdogIsKnown, NEW w \in Place, wd[w] # "down", Gone(w), pc' = pc,
         \/ named' = Nobody
         \/ named' = (IF named = w THEN Nobody ELSE named) /\ said' = said
  PROVE  WatchdogIsKnown'
<1>1. /\ wd \in [Place -> {"down", "starting", "up"}]
      /\ handle \in Place \cup {Nobody} /\ named \in Place \cup {Nobody}
      /\ wd' = [wd EXCEPT ![w] = "down"]
      /\ handle' = (IF handle = w THEN Nobody ELSE handle)
      /\ crowded' = (crowded /\ Alive(wd) # {w})
  BY DEF Typed, Gone
<1>2. NamedIsUp'
  BY <1>1, KnownIs DEF NamedIsUp
<1>3. HandleLives'
  BY <1>1, KnownIs DEF HandleLives
<1>4. Alive(wd') = Alive(wd) \ {w} /\ w \in Alive(wd)
  BY <1>1 DEF Alive
<1>5. CASE crowded'
  BY <1>2, <1>3, <1>5 DEF WatchdogIsKnown, NamedIsUp, HandleLives
<1>6. CASE ~crowded'
  <2>1. Alive(wd) = {w}
    <3>1. crowded \/ \A v, u \in Alive(wd) : v = u
      BY KnownIs DEF Lonely
    <3>2. QED
      BY <1>1, <1>4, <1>6, <3>1
  <2>2. Alive(wd') = {}
    BY <1>4, <2>1
  <2>3. \A v \in Place : wd'[v] # "up"
    BY <2>2 DEF Alive
  <2>4. Lonely' /\ UpIsNamed'
    BY <2>2, <2>3 DEF Lonely, UpIsNamed
  <2>5. QED
    BY <1>2, <1>3, <2>4 DEF WatchdogIsKnown, NamedIsUp, HandleLives, Lonely, UpIsNamed
<1>7. QED
  BY <1>5, <1>6

LEMMA RunKeepsDogs ==
  ASSUME Typed, SupervisionInv, RunWatchdog
  PROVE  WatchdogIsKnown'
<1>1. /\ wd \in [Place -> {"down", "starting", "up"}] /\ named = Nobody /\ named' = named
      /\ wd' = [wd EXCEPT ![handle'] = "starting"]
      /\ handle' \in Place /\ wd[handle'] = "down"
      /\ pc' = "spawned" /\ crowded' = (Alive(wd) # {})
  BY FreePlace, RunFacts DEF RunWatchdog, Perform, Typed
<1>2. NamedIsUp' /\ HandleLives'
  BY <1>1 DEF NamedIsUp, HandleLives
<1>3. CASE crowded'
  BY <1>2, <1>3 DEF WatchdogIsKnown, NamedIsUp, HandleLives
<1>4. CASE ~crowded'
  <2>1. \A v \in Place : wd[v] = "down"
    BY <1>1, <1>4 DEF Alive
  <2>2. \A v \in Place : wd'[v] # "down" => v = handle' /\ wd'[v] = "starting"
    BY <1>1, <2>1
  <2>3. Lonely' /\ UpIsNamed'
    BY <2>2 DEF Lonely, UpIsNamed, Alive
  <2>4. QED
    BY <1>2, <2>3 DEF WatchdogIsKnown, NamedIsUp, HandleLives, Lonely, UpIsNamed
<1>5. QED
  BY <1>3, <1>4

LEMMA WatchdogKept ==
  ASSUME Typed, SupervisionInv, [Next]_vars
  PROVE  WatchdogIsKnown'
<1> USE DEF memory, home, dogs, world, history, supervisor
<1>0. WatchdogIsKnown
  BY DEF SupervisionInv
<1>1. CASE /\ UNCHANGED <<wd, said, named, crowded>> /\ handle' \in {handle, Nobody}
           /\ pc' = "off" => handle' = Nobody \/ pc = "off"
  BY <1>0, <1>1 DEF WatchdogIsKnown, Alive
<1>2. CASE Start \/ StartUnreadable
  BY <1>1, <1>2 DEF Start, StartUnreadable
<1>3. CASE RunWatchdog
  BY <1>3, RunKeepsDogs
<1>4. CASE Watchdogs
  <2>1. PICK w \in Place : Watchdog(w) \/ WatchdogDies(w)
    BY <1>4 DEF Watchdogs
  <2>2. CASE WatchdogPublishes(w)
    BY <1>0, <2>2, PublishKeepsDogs
  <2>3. CASE \E r \in TerminalReasons : \E f \in Evidence(r) : WatchdogEnds(w, r, f)
    <3>1. wd[w] # "down" /\ Gone(w) /\ pc' = pc /\ named' = Nobody
      BY <2>3 DEF WatchdogEnds
    <3>2. QED
      BY <1>0, <3>1, GoneKeepsDogs
  <2>4. CASE WatchdogDies(w)
    <3>1. /\ wd[w] # "down" /\ Gone(w) /\ pc' = pc
          /\ named' = (IF named = w THEN Nobody ELSE named) /\ said' = said
      BY <2>4 DEF WatchdogDies
    <3>2. QED
      BY <1>0, <3>1, GoneKeepsDogs
  <2>5. QED
    BY <2>1, <2>2, <2>3, <2>4 DEF Watchdog
<1>5. CASE SupersedePark \/ ParkCampaign
  BY <1>1, <1>5 DEF SupersedePark, ParkCampaign, Perform
<1>6. CASE Publish \/ KillSupervisor
  BY <1>1, <1>6 DEF Publish, KillSupervisor, Forgotten
<1>7. CASE PersistRun \/ AwaitWatchdog \/ SpawnSession \/ ArchiveEscalation \/ ExitLoop
  BY <1>1, <1>7 DEF PersistRun, AwaitWatchdog, SpawnSession, ArchiveEscalation, ExitLoop,
                    Perform
<1>8. CASE SessionReturns \/ WakeUp
  BY <1>1, <1>8 DEF SessionReturns, SessionEnds, WakeUp
<1>9. CASE RunStarts \/ \E f \in RunReasons \cup {"none"} : RunEnds(f)
  BY <1>1, <1>9 DEF RunStarts, RunEnds
<1>10. CASE Owner \/ UNCHANGED vars
  BY <1>1, <1>10 DEF Owner, DeleteNeedsOwner, FlipStop, SwitchVersion, AnswerByHand, vars
<1>11. QED
  BY <1>2, <1>3, <1>4, <1>5, <1>6, <1>7, <1>8, <1>9, <1>10 DEF Next, Loop

\* While an acknowledgement is unspent, the invocation that has read it waits, starts
\* a watchdog, or ends at STOP or at the cap.
LEMMA AcknowledgedDecision ==
  ASSUME Typed, SupervisionInv, pc = "observe", spent
  PROVE  \/ decide = Exit("stop_requested") \/ decide = Act("await", "none", NoCard)
         \/ decide = Park("watchdog_run_cap") \/ decide = Run("owner_resume")
<1>1. last = NoOutcome /\ ~needsOwner /\ acknowledgedParkAllowsResume
  BY DEF SupervisionInv, AcknowledgementIsRead, acknowledgedParkAllowsResume
<1>2. QED
  BY <1>1 DEF decide

LEMMA AcknowledgementKept ==
  ASSUME Typed, SupervisionInv, [Next]_vars
  PROVE  AcknowledgementIsRead'
<1> USE DEF memory, home, dogs, world, history, supervisor
<1>0. AcknowledgementIsRead
  BY DEF SupervisionInv
<1>1. CASE UNCHANGED <<pc, spent, needsOwner, terminal, acked, last>>
  BY <1>0, <1>1 DEF AcknowledgementIsRead
<1>2. CASE ~spent'
  BY <1>2 DEF AcknowledgementIsRead
<1>3. CASE Start
  BY <1>0, <1>3 DEF Start, tryAcquireLock, AcknowledgementIsRead
<1>4. CASE StartUnreadable
  BY <1>4 DEF StartUnreadable, AcknowledgementIsRead
<1>5. CASE RunWatchdog \/ Publish \/ KillSupervisor
  BY <1>2, <1>5 DEF RunWatchdog, Publish, KillSupervisor, Forgotten
<1>6. CASE PersistRun
  BY <1>0, <1>6 DEF PersistRun, AcknowledgementIsRead
<1>7. CASE SpawnSession \/ ArchiveEscalation \/ SupersedePark
  <2>1. pc = "observe" /\ spent' = spent /\ decide.do \in {"session", "archive", "supersede"}
    BY <1>7 DEF SpawnSession, ArchiveEscalation, SupersedePark, Perform
  <2>2. ~spent
    BY <2>1, AcknowledgedDecision DEF Exit, Park, Run, Act
  <2>3. QED
    BY <1>2, <2>1, <2>2
<1>8. CASE AwaitWatchdog \/ WakeUp
  BY <1>0, <1>8 DEF AwaitWatchdog, WakeUp, Perform, AcknowledgementIsRead
<1>9. CASE ParkCampaign \/ ExitLoop
  BY <1>9 DEF ParkCampaign, ExitLoop, AcknowledgementIsRead
<1>10. CASE SessionReturns
  BY <1>0, <1>2, <1>10, ReturnKeeps DEF AcknowledgementIsRead
<1>11. CASE Watchdogs
  BY <1>1, <1>11 DEF Watchdogs, Watchdog, WatchdogPublishes, WatchdogEnds, WatchdogDies, Gone
<1>12. CASE RunStarts \/ \E f \in RunReasons \cup {"none"} : RunEnds(f)
  BY <1>1, <1>12 DEF RunStarts, RunEnds
<1>13. CASE DeleteNeedsOwner
  BY <1>0, <1>13 DEF DeleteNeedsOwner, AcknowledgementIsRead
<1>14. CASE FlipStop \/ SwitchVersion \/ (\E c \in Cards : AnswerByHand(c)) \/ UNCHANGED vars
  BY <1>1, <1>14 DEF FlipStop, SwitchVersion, AnswerByHand, vars
<1>15. QED
  BY <1>3, <1>4, <1>5, <1>6, <1>7, <1>8, <1>9, <1>10, <1>11, <1>12, <1>13, <1>14
  DEF Next, Loop, Owner

\* A campaign that is superseded has a terminal that the disk contradicts.
LEMMA SupersededIs ==
  ASSUME Typed, SupervisionInv, pc = "observe", decide.do = "supersede"
  PROVE  /\ Contradiction # "none"
         /\ Contradiction = "newer_run_alive" => staleTerminalRetriggerAvailable
<1>1. needsOwner /\ ~parkStillHolds
  BY DeedIs DEF SupersedeIs
<1>2. QED
  BY <1>1 DEF parkStillHolds

\* The supersession's own conjuncts: about the disk, and about what is remembered.
Leads    == /\ Contradiction # "none"
            /\ Contradiction = "newer_run_alive" => staleTerminalRetriggerAvailable
Forgets  == /\ pc # "spawned" /\ terminal # "stalled"
            /\ pc \in {"parked", "exiting"} => park # "stalled"
            /\ needsOwner /\ pc \notin {"off", "parked"} => priorPark # "stalled"

\* What the disk says stays, while no run begins or ends.
LEMMA LeadsKept ==
  ASSUME Leads, UNCHANGED <<said, fact>>, st'.runs = st.runs,
         st'.retriggers["stale_terminal"] = st.retriggers["stale_terminal"]
  PROVE  Leads'
  BY DEF Leads, Contradiction, HasTerminal, staleTerminalRetriggerAvailable

LEMMA SupersessionKept ==
  ASSUME Typed, SupervisionInv, [Next]_vars
  PROVE  SupersessionLeads'
<1> USE DEF memory, home, dogs, world, history, supervisor
<1>0. superseded => Leads /\ Forgets
  BY DEF SupervisionInv, SupersessionLeads, Leads, Forgets
<1>1. ASSUME superseded' => Leads' /\ Forgets'
      PROVE  SupersessionLeads'
  BY <1>1 DEF SupersessionLeads, Leads, Forgets
<1>2. CASE ~superseded'
  BY <1>2 DEF SupersessionLeads
<1>4. ASSUME superseded' = superseded, UNCHANGED <<said, fact, st>>
      PROVE  superseded' => Leads'
  BY <1>0, <1>4, LeadsKept
<1>5. ASSUME UNCHANGED <<superseded, said, fact>>, st' = disk
      PROVE  superseded' => Leads'
  BY <1>0, <1>5, LeadsKept DEF Forgets, SupervisionInv, RunsAreSaved
<1>6. CASE Start
  <2>1. superseded' => Leads'
    BY <1>5, <1>6 DEF Start, parseState, tryAcquireLock
  <2>2. superseded' => Forgets'
    BY <1>0, <1>6 DEF Start, Forgets
  <2>3. QED
    BY <1>1, <2>1, <2>2
<1>7. CASE StartUnreadable
  <2>1. superseded' => Leads'
    BY <1>4, <1>7 DEF StartUnreadable
  <2>2. superseded' => Forgets'
    BY <1>0, <1>7 DEF StartUnreadable, Forgets
  <2>3. QED
    BY <1>1, <2>1, <2>2
<1>8. CASE RunWatchdog \/ RunStarts \/ \E f \in RunReasons \cup {"none"} : RunEnds(f)
  BY <1>2, <1>8 DEF RunWatchdog, RunStarts, RunEnds
<1>9. CASE PersistRun \/ AwaitWatchdog \/ WakeUp \/ SessionReturns \/ ArchiveEscalation
  <2>1. superseded' => Leads'
    BY <1>4, <1>9 DEF PersistRun, AwaitWatchdog, WakeUp, SessionReturns, SessionEnds,
                      ArchiveEscalation
  <2>2. superseded' => Forgets'
    BY <1>0, <1>9 DEF PersistRun, AwaitWatchdog, WakeUp, SessionReturns, SessionEnds,
                      ArchiveEscalation, Republish, Perform, Forgets
  <2>3. QED
    BY <1>1, <2>1, <2>2
<1>10. CASE SpawnSession
  <2>1. UNCHANGED <<superseded, said, fact>>
    BY <1>10 DEF SpawnSession
  <2>2. superseded' => Leads'
    BY <1>0, <1>10, <2>1, SessionCostsNoRun, LeadsKept
  <2>3. superseded' => Forgets'
    BY <1>0, <1>10 DEF SpawnSession, Forgets
  <2>4. QED
    BY <1>1, <2>2, <2>3
<1>11. CASE SupersedePark
  <2>1. Leads
    BY <1>11, SupersededIs DEF SupersedePark, Perform, Leads
  <2>2. UNCHANGED <<said, fact, st>>
    BY <1>11 DEF SupersedePark
  <2>3. Leads'
    BY <2>1, <2>2, LeadsKept
  <2>4. Forgets'
    BY <1>11 DEF SupersedePark, Perform, Republish, Forgets
  <2>5. QED
    BY <1>1, <2>3, <2>4
<1>12. CASE ParkCampaign
  <2>1. superseded' => Leads'
    BY <1>4, <1>12 DEF ParkCampaign
  <2>2. ASSUME superseded
        PROVE  park' # "stalled"
    <3>1. Leads /\ Forgets /\ pc = "observe"
      BY <1>0, <1>12, <2>2 DEF ParkCampaign, Perform
    <3>2. /\ decide.why = "resume_blocked" => needsOwner
          /\ decide.why = "stalled" =>
               /\ Contradiction # "run_finalised"
               /\ ~(Contradiction = "newer_run_alive" /\ staleTerminalRetriggerAvailable)
      BY <1>12, ParkFacts DEF ParkCampaign, Perform
    <3>3. decide.why # "stalled"
      BY <3>1, <3>2 DEF Leads, Contradiction
    <3>4. \/ decide.why = "resume_blocked" /\ park' = priorPark
          \/ park' = Kept(decide.why)
      BY <1>12 DEF ParkCampaign
    <3>5. decide.why = "resume_blocked" => priorPark # "stalled"
      BY <3>1, <3>2 DEF Forgets
    <3>6. QED
      BY <3>3, <3>4, <3>5, KeptIs
  <2>3. superseded' => Forgets'
    BY <1>0, <1>12, <2>2 DEF ParkCampaign, Forgets
  <2>4. QED
    BY <1>1, <2>1, <2>3
<1>13. CASE ExitLoop
  <2>1. UNCHANGED <<superseded, said, fact>>
    BY <1>13 DEF ExitLoop
  <2>2. superseded' => Leads'
    BY <1>0, <1>13, <2>1, ExitCostsNoRun, LeadsKept
  <2>3. park' # "stalled"
    <3>1. park' = Kept(decide.why) /\ decide.why # "stalled"
      BY <1>13, ExitFacts DEF ExitLoop, Perform
    <3>2. QED
      BY <3>1, KeptIs
  <2>4. superseded' => Forgets'
    BY <1>0, <1>13, <2>3 DEF ExitLoop, Perform, Forgets
  <2>5. QED
    BY <1>1, <2>2, <2>4
<1>14. CASE Publish \/ KillSupervisor
  <2>1. superseded' => Leads'
    BY <1>5, <1>14 DEF Publish, KillSupervisor, Forgotten
  <2>2. superseded' => Forgets'
    BY <1>0, <1>14 DEF Publish, KillSupervisor, Forgotten, Forgets
  <2>3. QED
    BY <1>1, <2>1, <2>2
<1>15. CASE Watchdogs
  <2>1. PICK w \in Place : Watchdog(w) \/ WatchdogDies(w)
    BY <1>15 DEF Watchdogs
  <2>2. CASE Watchdog(w)
    BY <1>2, <2>2 DEF Watchdog, WatchdogPublishes, WatchdogEnds
  <2>3. CASE WatchdogDies(w)
    <3>1. superseded' => Leads'
      BY <1>4, <2>3 DEF WatchdogDies
    <3>2. superseded' => Forgets'
      BY <1>0, <2>3 DEF WatchdogDies, Forgets
    <3>3. QED
      BY <1>1, <3>1, <3>2
  <2>4. QED
    BY <2>1, <2>2, <2>3
<1>16. CASE Owner \/ UNCHANGED vars
  <2>1. superseded' => Leads'
    BY <1>4, <1>16 DEF Owner, DeleteNeedsOwner, FlipStop, SwitchVersion, AnswerByHand, vars
  <2>2. superseded' => Forgets'
    BY <1>0, <1>16 DEF Owner, DeleteNeedsOwner, FlipStop, SwitchVersion, AnswerByHand, vars,
                       Forgets
  <2>3. QED
    BY <1>1, <2>1, <2>2
<1>17. QED
  BY <1>6, <1>7, <1>8, <1>9, <1>10, <1>11, <1>12, <1>13, <1>14, <1>15, <1>16 DEF Next, Loop
-----------------------------------------------------------------------------
(* The theorems                                                            *)

LEMMA StepKeepsSupervision ==
  ASSUME Typed, SupervisionInv, [Next]_vars
  PROVE  SupervisionInv'
  BY SessionsKept, RulingsKept, RunsKept, WatchdogKept, AcknowledgementKept,
     SupersessionKept DEF SupervisionInv

\* A park's reason is a documented one wherever the types are right.
LEMMA ReasonsAreDocumented == Typed /\ SupervisionInv => TypeOK
  BY ParkFacts DEF TypeOK

LEMMA InitIsSound == Init => Typed /\ SupervisionInv
<1> SUFFICES ASSUME Init
             PROVE  Typed /\ SupervisionInv
  OBVIOUS
<1>1. zeroState \in Counters
  <2>1. \A key \in Retriggers : Retries(key) \in Nat
    BY DEF Retries
  <2>2. QED
    BY <2>1 DEF zeroState, Counters
<1>2. Typed
  <2>1. CountersTyped
    BY <1>1 DEF Init, CountersTyped
  <2>2. LastTyped
    BY DEF Init, LastTyped, NoOutcome
  <2>3. ParksTyped /\ FlagsTyped
    BY DEF Init, ParksTyped, KeptReasons, FlagsTyped
  <2>4. FactTyped
    BY DEF Init, FactTyped, NoFact
  <2>5. EscalationsTyped /\ MarkersTyped
    BY DEF Init, EscalationsTyped, MarkersTyped
  <2>9. DogsTyped
    BY DEF Init, DogsTyped
  <2>6. PlaceTyped
    <3>1. faults \in 0 .. MaxFaults
      BY DEF Init
    <3>2. QED
      BY <3>1 DEF Init, PlaceTyped
  <2>7. QED
    BY <2>1, <2>2, <2>3, <2>4, <2>5, <2>6, <2>9, TypedIs
<1>3. RulingsArePaid
  <2>1. st = zeroState /\ disk = zeroState /\ begun = [c \in Cards |-> 0]
    BY DEF Init
  <2>2. \A c \in Cards : begun[c] = 0 /\ ~zeroState.seen[c] /\ zeroState.retriggers[c] = 0
    BY <2>1, KeysAreApart DEF zeroState
  <2>3. \A c \in Cards : begun[c] <= (IF zeroState.seen[c] THEN 1 ELSE 0)
                                     + zeroState.retriggers[c]
    <3> SUFFICES ASSUME NEW c \in Cards
                 PROVE  begun[c] <= (IF zeroState.seen[c] THEN 1 ELSE 0)
                                      + zeroState.retriggers[c]
      OBVIOUS
    <3>1. (IF zeroState.seen[c] THEN 1 ELSE 0) = 0
      BY <2>2
    <3>2. begun[c] = 0 /\ zeroState.retriggers[c] = 0
      BY <2>2
    <3>3. QED
      BY <3>1, <3>2
  <2>4. QED
    BY <2>1, <2>3 DEF RulingsArePaid
<1>4. WatchdogIsKnown
  BY DEF Init, WatchdogIsKnown, Alive
<1>5. SupervisionInv
  BY <1>3, <1>4 DEF Init, SupervisionInv, SessionsAreKnown, RunsAreSaved,
                    AcknowledgementIsRead, SupersessionLeads
<1>6. QED
  BY <1>2, <1>5

\* Every variable stays in its domain, and what the promises rest on holds always.
THEOREM SupervisionIsSound == Spec => [](Typed /\ SupervisionInv)
<1>1. Init => Typed /\ SupervisionInv
  BY InitIsSound
<1>2. Typed /\ SupervisionInv /\ [Next]_vars => (Typed /\ SupervisionInv)'
  BY TypedKept, StepKeepsSupervision
<1>3. QED
  BY <1>1, <1>2, PTL DEF Spec

\* The types, and every reason given to the owner is a documented one.
THEOREM SupervisorTypeCorrect == Spec => []TypeOK
  BY SupervisionIsSound, ReasonsAreDocumented, PTL

\* Whatever is killed and when, no body is ruled on more often than the retries of
\* one spawn allow (S-P6).
THEOREM RulingsAreNotRepeated == Spec => []NoDoubleRuling
<1>1. Typed /\ SupervisionInv => NoDoubleRuling
  <2> SUFFICES ASSUME Typed, SupervisionInv, NEW c \in Cards
               PROVE  begun[c] <= 1 + SessionRetries
    BY DEF NoDoubleRuling
  <2>1. begun[c] <= (IF st.seen[c] THEN 1 ELSE 0) + st.retriggers[c]
    BY DEF SupervisionInv, RulingsArePaid
  <2>2. /\ begun[c] \in Nat /\ st.retriggers[c] \in Nat /\ st.seen[c] \in BOOLEAN
        /\ st.retriggers[c] <= SessionRetries
    BY KeysAreApart DEF Typed, Counters, Retries
  <2>3. QED
    BY <2>1, <2>2
<1>2. QED
  BY <1>1, SupervisionIsSound, PTL

\* No watchdog is started beside one that has said that it lives, or beside this
\* supervisor's own (P4), unless there were two already.
THEOREM OneWatchdogAtATime == Spec => NeverTwoWatchdogs
<1>1. Typed /\ SupervisionInv /\ [Next]_vars
        => [pc = "observe" /\ pc' = "spawned" =>
              handle = Nobody /\ (crowded \/ \A w \in Place : wd[w] # "up")]_vars
  <2> SUFFICES ASSUME Typed, SupervisionInv, [Next]_vars, pc = "observe", pc' = "spawned"
               PROVE  handle = Nobody /\ (crowded \/ \A w \in Place : wd[w] # "up")
    OBVIOUS
  <2>1. RunWatchdog
    BY DEF Next, Loop, Start, StartUnreadable, PersistRun, AwaitWatchdog, WakeUp, SpawnSession,
           ArchiveEscalation, SupersedePark, ParkCampaign, ExitLoop, Publish, KillSupervisor,
           Forgotten, Watchdogs, Watchdog, WatchdogPublishes, WatchdogEnds, WatchdogDies,
           SessionReturns, SessionEnds, RunStarts, Owner, DeleteNeedsOwner, FlipStop,
           SwitchVersion, AnswerByHand, RunEnds, supervisor, vars
  <2>2. QED
    BY <2>1, RunFacts DEF RunWatchdog, Perform
<1>2. QED
  BY <1>1, SupervisionIsSound, PTL DEF Spec, NeverTwoWatchdogs

\* A park is the deed of a decision to park, and an exit of a decision to exit; the
\* unreadable state's begins elsewhere.
LEMMA EndsAreDecided ==
  ASSUME [Next]_vars, pc = "observe", pc' \in {"parked", "exiting"}
  PROVE  ParkCampaign \/ ExitLoop
  BY DEF Next, Loop, Start, StartUnreadable, tryAcquireLock, RunWatchdog, PersistRun,
         AwaitWatchdog, WakeUp, SpawnSession, ArchiveEscalation, SupersedePark, Publish,
         KillSupervisor, Forgotten, Watchdogs, Watchdog, WatchdogPublishes, WatchdogEnds,
         WatchdogDies, SessionReturns, SessionEnds, RunStarts, Owner, DeleteNeedsOwner,
         FlipStop, SwitchVersion, AnswerByHand, RunEnds, supervisor, vars

\* The invocation that reads the owner's deletion of NEEDS_OWNER.md spends it on a
\* fresh watchdog before it parks or exits, the run cap and STOP apart (G4).
THEOREM AcknowledgementsAreSpent == Spec => AcknowledgedParkIsSpent
<1>1. Typed /\ SupervisionInv /\ [Next]_vars
        => [pc = "observe" /\ pc' \in {"parked", "exiting"} /\ spent
              => decide.why \in {"watchdog_run_cap", "stop_requested"}]_vars
  <2> SUFFICES ASSUME Typed, SupervisionInv, [Next]_vars, pc = "observe",
                      pc' \in {"parked", "exiting"}, spent
               PROVE  decide.why \in {"watchdog_run_cap", "stop_requested"}
    OBVIOUS
  <2>1. decide.do \in {"park", "exit"}
    BY EndsAreDecided DEF ParkCampaign, ExitLoop, Perform
  <2>2. QED
    BY <2>1, AcknowledgedDecision DEF Exit, Park, Run, Act
<1>2. QED
  BY <1>1, SupervisionIsSound, PTL DEF Spec, AcknowledgedParkIsSpent

\* A park that was superseded is not published again over the same disk (B-F3).
THEOREM SupersessionsLead == Spec => NoChurn
<1>1. Typed /\ SupervisionInv /\ [Next]_vars
        => [pc = "observe" /\ pc' = "parked" /\ superseded => park' # "stalled"]_vars
  <2> SUFFICES ASSUME Typed, SupervisionInv, [Next]_vars, pc = "observe", pc' = "parked",
                      superseded
               PROVE  park' # "stalled"
    OBVIOUS
  <2>1. SupersessionLeads' /\ superseded' = superseded
    BY SupersessionKept, EndsAreDecided DEF ParkCampaign, ExitLoop, history, world
  <2>2. QED
    BY <2>1 DEF SupersessionLeads
<1>2. QED
  BY <1>1, SupervisionIsSound, PTL DEF Spec, NoChurn

=============================================================================
