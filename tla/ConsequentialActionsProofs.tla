---------------------- MODULE ConsequentialActionsProofs ----------------------
(***************************************************************************)
(* Proofs about the execution of approved actions, for any operations,     *)
(* workers, people and limits: the ledger agrees with what surrounds it,   *)
(* what an attempt reports is true, and executions exclude each other.     *)
(***************************************************************************)
EXTENDS ConsequentialActions, SequenceTheorems, TLAPS

-------------------------------------------------------------------------------
(***************************************************************************)
(* The inductive invariant                                                 *)
(***************************************************************************)

\* A worker that has claimed an operation and not given it up.
Busy(w) == worker[w].pc # "idle"

\* It works on the latest attempt, which nobody has taken over.
Latest(w) == worker[w].attempt = Count(worker[w].op)

\* The ledger and the history of attempts agree, also where nothing has been
\* attempted yet and where people have been asked.
History ==
    /\ LedgerMatchesAttempts
    /\ \A o \in Operations :
           /\ ledger[o].state = "absent" <=> Count(o) = 0
           /\ ledger[o].state = "manual_resolution" => LastOutcome(o) = "unknown"

\* People are asked about one of two outcomes.
People ==
    /\ DualControl
    /\ \A o \in Operations : resolution[o].state = "pending" => resolution[o].outcome \in {"succeeded", "failed"}

\* Nothing is attempted without an approval, and nothing takes effect or is
\* worked on before it is attempted.
Approvals ==
    /\ \A o \in Operations :
           /\ ledger[o].state # "absent" => authorization[o] = "approved"
           /\ ledger[o].state = "absent" => effect[o] = "none"
    /\ \A w \in Workers : Busy(w) => ledger[worker[w].op].state # "absent"

\* Each attempt belongs to one worker, and the latest one is open as long as
\* its worker is busy with it.
Ownership ==
    /\ \A w \in Workers : Busy(w) => /\ worker[w].attempt \in 1..Count(worker[w].op)
                                     /\ Latest(w) => ledger[worker[w].op].state \in InFlight
    /\ \A v, w \in Workers : Busy(v) /\ Busy(w) /\ worker[v].op = worker[w].op /\ worker[v].attempt = worker[w].attempt
                                => v = w

\* What workers are about to report is true, but for a lookup of a schedule
\* that was changed, and the one that may still execute finds no effect.
Truth ==
    /\ OutcomesTruthful
    /\ \A o \in Operations : /\ capability[o] # "provider" => effect[o] # "flying"
                             /\ revised[o] => effect[o] = "done"
    /\ \A w \in Workers :
           /\ Calling(w, "execute") /\ Latest(w) => effect[worker[w].op] = "none"
           /\ worker[w].pc = "settle" /\ worker[w].outcome = "succeeded" => effect[worker[w].op] = "done"
           /\ worker[w].pc = "settle" /\ worker[w].outcome = "failed" /\ Latest(w) =>
                 effect[worker[w].op] = "none" \/ (revised[worker[w].op] /\ worker[w].mode = "reconcile")

IInv == TypeOK /\ History /\ People /\ Approvals /\ UnsettledQueued /\ Ownership /\ Truth

-------------------------------------------------------------------------------
(***************************************************************************)
(* What the steps do                                                       *)
(***************************************************************************)

\* The fields of a worker's record, by what it is doing.
LEMMA WorkerFields ==
    ASSUME TypeOK, NEW w \in Workers
    PROVE  /\ worker[w].pc \in {"idle", "call", "settle"}
           /\ worker[w].pc = "idle" <=> worker[w] = Idle
           /\ Busy(w) => worker[w].op \in Operations /\ worker[w].attempt \in Nat /\ worker[w].mode \in Modes
           /\ Busy(w) => worker[w].via \in {"queue", "runner"}
           /\ worker[w].pc = "settle" => worker[w].outcome \in Outcomes /\ worker[w].retryable \in BOOLEAN
<1>1. worker[w] = Idle \/ worker[w] \in Working \/ worker[w] \in Answered
  BY DEF TypeOK
<1> QED
  BY <1>1 DEF Idle, Working, Answered, Busy

\* The fields of a ledger row.
LEMMA LedgerFields ==
    ASSUME TypeOK, NEW o \in Operations
    PROVE  /\ ledger[o].state \in LedgerStates /\ ledger[o].lapsed \in BOOLEAN
           /\ ledger[o].attempts \in Seq(Attempt) /\ Count(o) \in Nat
           /\ \A n \in 1..Count(o) : ledger[o].attempts[n] \in Attempt
  BY ElementOfSeq, LenProperties DEF TypeOK, Row, Count

\* The outcome of one attempt is written; the rest of the history stays.
LEMMA OutcomeWritten ==
    ASSUME NEW s \in Seq(Attempt), NEW n \in 1..Len(s), NEW outcome \in Outcomes
    PROVE  LET t == [s EXCEPT ![n].outcome = outcome] IN
           /\ t \in Seq(Attempt) /\ Len(t) = Len(s)
           /\ \A m \in 1..Len(s) : t[m].outcome = IF m = n THEN outcome ELSE s[m].outcome
<1> DEFINE e == [s[n] EXCEPT !.outcome = outcome]
           t == [s EXCEPT ![n] = e]
<1>1. s[n] \in Attempt /\ DOMAIN s = 1..Len(s)
  BY ElementOfSeq, LenProperties
<1>2. e \in Attempt /\ e.outcome = outcome
  BY <1>1 DEF Attempt
<1>3. t = [s EXCEPT ![n].outcome = outcome]
  BY <1>1
<1> HIDE DEF e
<1>4. /\ t \in Seq(Attempt) /\ Len(t) = Len(s)
      /\ \A m \in 1..Len(s) : t[m] = IF m = n THEN e ELSE s[m]
  BY <1>2, ExceptSeq
<1>5. \A m \in 1..Len(s) : t[m].outcome = IF m = n THEN outcome ELSE s[m].outcome
  BY <1>2, <1>4
<1> QED
  BY <1>3, <1>4, <1>5

\* A claim, by a broker or by a live runner: what the two have in common.
Start(w, o) ==
    /\ worker[w] = Idle /\ Authorized(o)
    /\ ledger[o].state \notin {"failed", "manual_resolution"}
    /\ \E via \in {"queue", "runner"} : StartAttempt(w, o, via)
    /\ UNCHANGED <<environment, authorization, resolution, effect>>

\* Both claims start an attempt.
LEMMA Starts ==
    ASSUME NEW w \in Workers, NEW o \in Operations, Claim(w, o) \/ Begin(w, o)
    PROVE  Start(w, o)
  BY DEF Claim, Begin, Start, Settled

\* The history after a claim: one attempt more, which is open, and none
\* other is.
LEMMA StartHistory ==
    ASSUME TypeOK, History, NEW w \in Workers, NEW o \in Operations, Start(w, o)
    PROVE  /\ ledger' \in [Operations -> Row]
           /\ \A p \in Operations \ {o} : ledger'[p] = ledger[p]
           /\ ledger'[o].state \in InFlight
           /\ Count(o)' = Count(o) + 1
           /\ LastOutcome(o)' = "none"
           /\ \A n \in 1..Count(o) : ledger'[o].attempts[n].outcome =
                 IF n = Count(o) /\ ledger[o].state \in InFlight THEN "unknown" ELSE ledger[o].attempts[n].outcome
           /\ queue' = SyncQueue(o, ledger'[o])
<1> DEFINE s == ledger[o].attempts
           t == TakenOver(o)
           e == [mode |-> SelectedMode(o), outcome |-> "none"]
           r == [state |-> IF SelectedMode(o) = "execute" THEN "executing" ELSE "reconciling",
                 lapsed |-> FALSE, attempts |-> Append(t, e)]
<1>1. s \in Seq(Attempt) /\ Count(o) \in Nat /\ Len(s) = Count(o)
  BY LedgerFields DEF Count
<1>2. /\ t \in Seq(Attempt) /\ Len(t) = Len(s)
      /\ \A n \in 1..Len(s) : t[n].outcome = IF n = Len(s) /\ ledger[o].state \in InFlight THEN "unknown" ELSE s[n].outcome
  <2>1. CASE ledger[o].state \in InFlight
    <3>1. Len(s) \in 1..Len(s) /\ "unknown" \in Outcomes
      BY <1>1, <2>1 DEF History, LedgerMatchesAttempts, Outcomes
    <3>2. t = [s EXCEPT ![Len(s)].outcome = "unknown"]
      BY <1>1, <2>1 DEF TakenOver
    <3> HIDE DEF s, t
    <3> QED
      BY <1>1, <2>1, <3>1, <3>2, OutcomeWritten
  <2>2. CASE ledger[o].state \notin InFlight
    BY <1>1, <2>2 DEF TakenOver
  <2> QED
    BY <2>1, <2>2
<1>3. e \in Attempt
  BY DEF SelectedMode, Attempt, Modes
<1>4. ledger' = [ledger EXCEPT ![o] = r] /\ queue' = SyncQueue(o, r)
  BY DEF Start, StartAttempt, WriteLedger
<1>5. ledger'[o] = r /\ \A p \in Operations \ {o} : ledger'[p] = ledger[p]
  BY <1>4 DEF TypeOK
<1> HIDE DEF s, t, e
<1>6. /\ Append(t, e) \in Seq(Attempt) /\ Len(Append(t, e)) = Len(t) + 1
      /\ \A n \in 1..Len(t) : Append(t, e)[n] = t[n]
      /\ Append(t, e)[Len(t) + 1] = e
  BY <1>1, <1>2, <1>3, AppendProperties
<1>7. r \in Row /\ r.state \in InFlight
  BY <1>6 DEF Row, LedgerStates, InFlight
<1>8. ledger' \in [Operations -> Row]
  BY <1>4, <1>7 DEF TypeOK
<1>9. Count(o)' = Count(o) + 1
  BY <1>1, <1>2, <1>5, <1>6 DEF Count
<1>10. \A n \in 1..Count(o) : ledger'[o].attempts[n].outcome =
           IF n = Count(o) /\ ledger[o].state \in InFlight THEN "unknown" ELSE ledger[o].attempts[n].outcome
  BY <1>1, <1>2, <1>5, <1>6 DEF s
<1>11. LastOutcome(o)' = "none"
  BY <1>1, <1>2, <1>5, <1>6, <1>9 DEF LastOutcome, e
<1> QED
  BY <1>4, <1>5, <1>7, <1>8, <1>9, <1>10, <1>11

\* The worker after a claim.
LEMMA StartWorker ==
    ASSUME TypeOK, NEW w \in Workers, NEW o \in Operations, Start(w, o)
    PROVE  /\ worker' \in [Workers -> {Idle} \cup Working \cup Answered]
           /\ \A v \in Workers \ {w} : worker'[v] = worker[v]
           /\ worker'[w].pc = "call" /\ worker'[w].op = o /\ worker'[w].attempt = Count(o) + 1
           /\ worker'[w].mode = SelectedMode(o) /\ worker[w].pc = "idle"
<1>1. PICK via \in {"queue", "runner"} : StartAttempt(w, o, via)
  BY DEF Start
<1>2. [pc |-> "call", op |-> o, attempt |-> Count(o) + 1, mode |-> SelectedMode(o), via |-> via] \in Working
  BY LedgerFields DEF Working, SelectedMode, Modes
<1> QED
  BY <1>1, <1>2 DEF TypeOK, StartAttempt, Start, Idle

\* The worker after the handler's answer.
LEMMA AnswerWorker ==
    ASSUME TypeOK, NEW w \in Workers, worker[w].pc = "call",
           NEW outcome \in Outcomes, NEW retryable \in BOOLEAN, Answer(w, outcome, retryable)
    PROVE  /\ worker' \in [Workers -> {Idle} \cup Working \cup Answered]
           /\ \A v \in Workers \ {w} : worker'[v] = worker[v]
           /\ worker'[w].pc = "settle" /\ worker'[w].op = worker[w].op /\ worker'[w].attempt = worker[w].attempt
           /\ worker'[w].outcome = outcome /\ worker'[w].mode = worker[w].mode
<1>1. [pc |-> "settle", op |-> worker[w].op, attempt |-> worker[w].attempt, mode |-> worker[w].mode,
       via |-> worker[w].via, outcome |-> outcome, retryable |-> retryable] \in Answered
  BY WorkerFields DEF Answered, Busy
<1> QED
  BY <1>1 DEF TypeOK, Answer

\* What Execute answers and does.
LEMMA ExecuteAnswer ==
    ASSUME TypeOK, NEW w \in Workers, Execute(w)
    PROVE  \E outcome \in Outcomes, retryable \in BOOLEAN, e \in {"none", "flying", "done"} :
               /\ Answer(w, outcome, retryable) /\ effect' = [effect EXCEPT ![worker[w].op] = e]
               /\ outcome = "succeeded" => e = "done"
               /\ outcome = "failed" => e = effect[worker[w].op]
               /\ capability[worker[w].op] # "provider" => e \in {"done", effect[worker[w].op]}
<1>1. worker[w].op \in Operations
  BY WorkerFields DEF Execute, Calling, Busy
<1>2. PICK r \in Replies(worker[w].op) :
          /\ effect' = [effect EXCEPT ![worker[w].op] = r.effect]
          /\ Answer(w, r.outcome, r.retryable)
  BY DEF Execute
<1>3. /\ r.outcome \in Outcomes /\ r.retryable \in BOOLEAN /\ r.effect \in {"none", "flying", "done"}
      /\ r.outcome = "succeeded" => r.effect = "done"
      /\ r.outcome = "failed" => r.effect = effect[worker[w].op]
      /\ capability[worker[w].op] # "provider" => r.effect \in {"done", effect[worker[w].op]}
  BY <1>1, <1>2 DEF Replies, Reply, Outcomes, TypeOK
<1> QED
  BY <1>2, <1>3

\* What Reconcile answers.
LEMMA ReconcileAnswer ==
    ASSUME TypeOK, NEW w \in Workers, Reconcile(w)
    PROVE  \E outcome \in Outcomes :
               /\ Answer(w, outcome, FALSE)
               /\ outcome = "succeeded" => effect[worker[w].op] = "done"
               /\ outcome = "failed" => /\ effect[worker[w].op] # "done" \/ revised[worker[w].op]
                                        /\ capability[worker[w].op] # "provider"
<1>1. PICK outcome \in Findings(worker[w].op) : Answer(w, outcome, FALSE)
  BY DEF Reconcile
<1>2. /\ outcome \in Outcomes
      /\ outcome = "succeeded" => effect[worker[w].op] = "done"
      /\ outcome = "failed" => /\ effect[worker[w].op] # "done" \/ revised[worker[w].op]
                               /\ capability[worker[w].op] # "provider"
  <2>1. worker[w].op \in Operations /\ revised[worker[w].op] \in BOOLEAN
    BY WorkerFields DEF Reconcile, Calling, Busy, TypeOK
  <2> QED
    BY <1>1, <2>1 DEF Findings, Found, Outcomes
<1> QED
  BY <1>1, <1>2

\* The history after a completion: refused, or the outcome of the latest
\* attempt is written.
LEMMA CompleteHistory ==
    ASSUME TypeOK, Ownership, NEW w \in Workers, NEW o, worker[w].op = o, Complete(w)
    PROVE  \/ ~Current(w) /\ UNCHANGED <<ledger, queue>>
           \/ /\ Current(w) /\ ledger' \in [Operations -> Row]
              /\ \A p \in Operations \ {o} : ledger'[p] = ledger[p]
              /\ Count(o)' = Count(o)
              /\ LastOutcome(o)' = worker[w].outcome
              /\ \/ ledger'[o].state = worker[w].outcome
                 \/ /\ ledger'[o].state = "retry_wait" /\ worker[w].outcome = "failed"
                    /\ worker[w].mode = "execute"
              /\ \A n \in 1..Count(o) : ledger'[o].attempts[n].outcome =
                    IF n = Count(o) THEN worker[w].outcome ELSE ledger[o].attempts[n].outcome
              /\ queue' = SyncQueue(o, ledger'[o])
<1> DEFINE outcome == worker[w].outcome
           s == ledger[o].attempts
           t == [s EXCEPT ![worker[w].attempt].outcome = outcome]
<1>1. o \in Operations /\ outcome \in Outcomes /\ worker[w].pc = "settle" /\ Busy(w)
  BY WorkerFields DEF Complete, Busy
<1>2. CASE ~Current(w)
  BY <1>2 DEF Complete
<1>3. CASE Current(w)
  <2>1. /\ s \in Seq(Attempt) /\ Len(s) = Count(o) /\ Count(o) \in Nat
        /\ worker[w].attempt = Len(s) /\ worker[w].attempt \in 1..Len(s)
    BY <1>1, <1>3, LedgerFields DEF Current, Count, Ownership
  <2>2. PICK state \in {outcome, "retry_wait"} :
            /\ ledger' = [ledger EXCEPT ![o] = [state |-> state, lapsed |-> FALSE, attempts |-> t]]
            /\ queue' = SyncQueue(o, [state |-> state, lapsed |-> FALSE, attempts |-> t])
            /\ state = "retry_wait" => outcome = "failed" /\ worker[w].mode = "execute"
    <3> DEFINE retry == /\ worker[w].mode = "execute" /\ outcome = "failed"
                        /\ worker[w].retryable /\ enabled[o] /\ Count(o) < MaxDefiniteAttempts
    <3>1. WriteLedger(o, [state |-> IF retry THEN "retry_wait" ELSE outcome, lapsed |-> FALSE, attempts |-> t])
      BY <1>3 DEF Complete
    <3>2. outcome # "retry_wait"
      BY <1>1 DEF Outcomes
    <3> QED
      BY <3>1, <3>2 DEF WriteLedger
  <2> HIDE DEF t
  <2>3. ledger'[o] = [state |-> state, lapsed |-> FALSE, attempts |-> t] /\ \A p \in Operations \ {o} : ledger'[p] = ledger[p]
    BY <1>1, <2>2 DEF TypeOK
  <2>4. /\ t \in Seq(Attempt) /\ Len(t) = Len(s)
        /\ \A m \in 1..Len(s) : t[m].outcome = IF m = Len(s) THEN outcome ELSE s[m].outcome
    <3> HIDE DEF s
    <3> QED
      BY <1>1, <2>1, OutcomeWritten DEF t
  <2>5. [state |-> state, lapsed |-> FALSE, attempts |-> t] \in Row
    BY <1>1, <2>2, <2>4 DEF Row, LedgerStates, Outcomes
  <2>6. ledger' \in [Operations -> Row]
    BY <2>2, <2>5 DEF TypeOK
  <2>7. Count(o)' = Count(o)
    BY <2>1, <2>3, <2>4 DEF Count
  <2>8. \A n \in 1..Count(o) : ledger'[o].attempts[n].outcome = IF n = Count(o) THEN outcome ELSE ledger[o].attempts[n].outcome
    BY <2>1, <2>3, <2>4
  <2>9. LastOutcome(o)' = outcome
    BY <2>1, <2>7, <2>8 DEF LastOutcome
  <2> QED
    BY <1>3, <2>2, <2>3, <2>6, <2>7, <2>8, <2>9
<1> QED
  BY <1>2, <1>3

\* The steps that change a row but not its attempts: state and lease only.
Rewrites(o, s) ==
    /\ ledger' \in [Operations -> Row]
    /\ ledger'[o].state = s /\ ledger'[o].attempts = ledger[o].attempts
    /\ \A p \in Operations \ {o} : ledger'[p] = ledger[p]

\* What people and the clock do to a row.
LEMMA Rewritten ==
    ASSUME TypeOK, People, NEW o \in Operations
    PROVE  /\ \A u, outcome : RequestResolution(o, u, outcome) =>
                  Rewrites(o, "manual_resolution") /\ queue' = SyncQueue(o, ledger'[o])
           /\ \A u : ConfirmResolution(o, u) =>
                  Rewrites(o, resolution[o].outcome) /\ queue' = SyncQueue(o, ledger'[o])
           /\ LeaseLapses(o) \/ WindowMoves(o) => Rewrites(o, ledger[o].state)
<1>1. ledger[o] \in Row
  BY DEF TypeOK
<1>2. \A s \in LedgerStates : WriteLedger(o, [ledger[o] EXCEPT !.state = s]) => Rewrites(o, s) /\ queue' = SyncQueue(o, ledger'[o])
  <2> SUFFICES ASSUME NEW s \in LedgerStates, WriteLedger(o, [ledger[o] EXCEPT !.state = s])
               PROVE  Rewrites(o, s) /\ queue' = SyncQueue(o, ledger'[o])
    OBVIOUS
  <2> DEFINE r == [ledger[o] EXCEPT !.state = s]
  <2>1. r \in Row /\ r.state = s /\ r.attempts = ledger[o].attempts
    BY <1>1 DEF Row
  <2>2. ledger' = [ledger EXCEPT ![o] = r] /\ queue' = SyncQueue(o, r)
    BY DEF WriteLedger
  <2> HIDE DEF r
  <2>3. ledger'[o] = r
    BY <2>2 DEF TypeOK
  <2> QED
    BY <2>1, <2>2, <2>3 DEF TypeOK, Rewrites
<1>3. ASSUME NEW u, NEW outcome, RequestResolution(o, u, outcome)
      PROVE  Rewrites(o, "manual_resolution") /\ queue' = SyncQueue(o, ledger'[o])
  BY <1>2, <1>3 DEF RequestResolution, LedgerStates
<1>4. ASSUME NEW u, ConfirmResolution(o, u)
      PROVE  Rewrites(o, resolution[o].outcome) /\ queue' = SyncQueue(o, ledger'[o])
  <2>1. resolution[o].outcome \in LedgerStates
    BY <1>4 DEF People, ConfirmResolution, LedgerStates
  <2> QED
    BY <1>2, <1>4, <2>1 DEF ConfirmResolution
<1>5. ASSUME LeaseLapses(o) \/ WindowMoves(o)
      PROVE  Rewrites(o, ledger[o].state)
  <2>1. PICK b \in BOOLEAN : ledger' = [ledger EXCEPT ![o] = [ledger[o] EXCEPT !.lapsed = b]]
    <3>1. CASE LeaseLapses(o)
      BY <1>1, <3>1 DEF LeaseLapses
    <3>2. CASE WindowMoves(o)
      <4> DEFINE b == ledger[o].lapsed \/ (window[o] = "closing" /\ ledger[o].state \in InFlight)
      <4>1. b \in BOOLEAN
        BY <1>1 DEF Row
      <4>2. ledger' = [ledger EXCEPT ![o] = [ledger[o] EXCEPT !.lapsed = b]]
        BY <1>1, <3>2 DEF WindowMoves
      <4> QED
        BY <4>1, <4>2
    <3> QED
      BY <1>5, <3>1, <3>2
  <2> DEFINE r == [ledger[o] EXCEPT !.lapsed = b]
  <2>2. r \in Row /\ r.state = ledger[o].state /\ r.attempts = ledger[o].attempts
    BY <1>1 DEF Row
  <2> HIDE DEF r
  <2>3. ledger' = [ledger EXCEPT ![o] = r]
    BY <2>1 DEF r
  <2> QED
    BY <2>2, <2>3 DEF TypeOK, Rewrites
<1> QED
  BY <1>3, <1>4, <1>5

-------------------------------------------------------------------------------
(***************************************************************************)
(* Each part of the invariant is preserved                                 *)
(***************************************************************************)

\* Where the attempts of an operation stay, so do their number and the
\* latest outcome.
LEMMA Frame ==
    ASSUME NEW p, ledger'[p].attempts = ledger[p].attempts
    PROVE  Count(p)' = Count(p) /\ LastOutcome(p)' = LastOutcome(p)
  BY DEF Count, LastOutcome

\* A worker whose process is lost, or whose completion was answered, is idle.
LEMMA WorkerFreed ==
    ASSUME TypeOK, NEW w \in Workers, Complete(w) \/ Crash(w)
    PROVE  /\ worker' \in [Workers -> {Idle} \cup Working \cup Answered]
           /\ \A v \in Workers \ {w} : worker'[v] = worker[v]
           /\ worker'[w].pc = "idle" /\ worker[w].pc # "idle"
<1>1. worker' = [worker EXCEPT ![w] = Idle] /\ worker[w].pc # "idle"
  BY WorkerFields DEF Complete, Crash
<1> QED
  BY <1>1 DEF TypeOK, Idle

\* Types are preserved.
LEMMA NextTypeOK ==
    ASSUME TypeOK, History, People, Ownership, [Next]_vars
    PROVE  TypeOK'
<1>1. ASSUME NEW w \in Workers, NEW o \in Operations, Start(w, o)
      PROVE  TypeOK'
  <2>1. ledger' \in [Operations -> Row] /\ queue' \subseteq Operations
    BY <1>1, StartHistory DEF SyncQueue, TypeOK
  <2>2. worker' \in [Workers -> {Idle} \cup Working \cup Answered]
    BY <1>1, StartWorker
  <2> QED
    BY <1>1, <2>1, <2>2 DEF Start, TypeOK, environment
<1>2. ASSUME NEW w \in Workers, Execute(w)
      PROVE  TypeOK'
  <2>1. PICK outcome \in Outcomes, retryable \in BOOLEAN, e \in {"none", "flying", "done"} :
            Answer(w, outcome, retryable) /\ effect' = [effect EXCEPT ![worker[w].op] = e]
    BY <1>2, ExecuteAnswer
  <2>2. worker' \in [Workers -> {Idle} \cup Working \cup Answered]
    BY <1>2, <2>1, AnswerWorker DEF Execute, Calling
  <2> QED
    BY <1>2, <2>1, <2>2 DEF Execute, TypeOK, environment
<1>3. ASSUME NEW w \in Workers, Reconcile(w)
      PROVE  TypeOK'
  <2>1. worker' \in [Workers -> {Idle} \cup Working \cup Answered]
    BY <1>3, ReconcileAnswer, AnswerWorker DEF Reconcile, Calling
  <2> QED
    BY <1>3, <2>1 DEF Reconcile, TypeOK, environment
<1>4. ASSUME NEW w \in Workers, DeadlineExceeded(w)
      PROVE  TypeOK'
  <2>1. worker' \in [Workers -> {Idle} \cup Working \cup Answered]
    BY <1>4, AnswerWorker DEF DeadlineExceeded, Outcomes
  <2> QED
    BY <1>4, <2>1 DEF DeadlineExceeded, TypeOK, environment
<1>5. ASSUME NEW w \in Workers, Complete(w)
      PROVE  TypeOK'
  <2>1. PICK o \in Operations : worker[w].op = o
    BY <1>5, WorkerFields DEF Complete, Busy
  <2>2. ledger' \in [Operations -> Row] /\ queue' \subseteq Operations
    BY <1>5, <2>1, CompleteHistory DEF SyncQueue, TypeOK
  <2> QED
    BY <1>5, <2>2, WorkerFreed DEF Complete, TypeOK, environment
<1>6. ASSUME NEW w \in Workers, Crash(w)
      PROVE  TypeOK'
  BY <1>6, WorkerFreed DEF Crash, TypeOK, environment
<1>7. ASSUME NEW o \in Operations, RecordAuthorization(o)
      PROVE  TypeOK'
  BY <1>7 DEF RecordAuthorization, TypeOK, environment
<1>8. ASSUME NEW o \in Operations, CancelAuthorization(o)
      PROVE  TypeOK'
  BY <1>8 DEF CancelAuthorization, TypeOK, environment
<1>9. ASSUME NEW o \in Operations, ClaimDrops(o)
      PROVE  TypeOK'
  BY <1>9 DEF ClaimDrops, TypeOK, environment
<1>10. ASSUME NEW o \in Operations, NEW u \in Users, NEW outcome \in {"succeeded", "failed"}, RequestResolution(o, u, outcome)
      PROVE  TypeOK'
  <2>1. ledger' \in [Operations -> Row] /\ queue' \subseteq Operations
    BY <1>10, Rewritten DEF Rewrites, SyncQueue, TypeOK
  <2> QED
    BY <1>10, <2>1 DEF RequestResolution, TypeOK, environment
<1>11. ASSUME NEW o \in Operations, NEW u \in Users, ConfirmResolution(o, u)
      PROVE  TypeOK'
  <2>1. ledger' \in [Operations -> Row] /\ queue' \subseteq Operations
    BY <1>11, Rewritten DEF Rewrites, SyncQueue, TypeOK
  <2> DEFINE Resolution == [state: {"none", "pending", "applied"}, outcome: {"none", "succeeded", "failed"},
                            by: Users \cup {"none"}, confirmer: Users \cup {"none"}]
             r == [[resolution[o] EXCEPT !.state = "applied"] EXCEPT !.confirmer = u]
  <2>2. resolution \in [Operations -> Resolution]
    BY DEF TypeOK
  <2>3. resolution' = [resolution EXCEPT ![o] = r]
    BY <1>11, <2>2 DEF ConfirmResolution
  <2>4. r \in Resolution
    BY <2>2
  <2> HIDE DEF r
  <2>5. resolution' \in [Operations -> Resolution]
    BY <2>2, <2>3, <2>4
  <2> QED
    BY <1>11, <2>1, <2>5 DEF ConfirmResolution, TypeOK, environment
<1>12. ASSUME NEW o \in Operations, LeaseLapses(o)
      PROVE  TypeOK'
  BY <1>12, Rewritten DEF LeaseLapses, Rewrites, TypeOK, environment
<1>13. ASSUME NEW o \in Operations, WindowMoves(o)
      PROVE  TypeOK'
  BY <1>13, Rewritten DEF WindowMoves, Rewrites, TypeOK
<1>14. ASSUME NEW o \in Operations, RunnerEnds(o)
      PROVE  TypeOK'
  BY <1>14 DEF RunnerEnds, TypeOK, environment
<1>15. ASSUME NEW o \in Operations, Supersede(o)
      PROVE  TypeOK'
  BY <1>15 DEF Supersede, TypeOK, environment
<1>16. ASSUME NEW o \in Operations, Revise(o)
      PROVE  TypeOK'
  BY <1>16 DEF Revise, TypeOK, environment
<1>17. ASSUME NEW o \in Operations, Lands(o)
      PROVE  TypeOK'
  BY <1>17 DEF Lands, TypeOK, environment
<1>18. CASE UNCHANGED vars
  BY <1>18 DEF TypeOK, vars, environment
<1> QED
  BY <1>1, <1>2, <1>3, <1>4, <1>5, <1>6, <1>7, <1>8, <1>9, <1>10, <1>11, <1>12, <1>13, <1>14, <1>15, <1>16,
     <1>17, <1>18, Starts
     DEF Next, WorkerStep

\* The ledger goes on agreeing with the history of attempts.
LEMMA NextHistory ==
    ASSUME TypeOK, History, People, Ownership, [Next]_vars
    PROVE  History'
<1>1. ASSUME NEW w \in Workers, NEW o \in Operations, Start(w, o)
      PROVE  History'
  <2>1. \A p \in Operations \ {o} : Count(p)' = Count(p) /\ LastOutcome(p)' = LastOutcome(p)
    BY <1>1, StartHistory, Frame
  <2>2. Count(o) \in Nat /\ \A n \in 1..Count(o) : n = Count(o) => LastOutcome(o) = ledger[o].attempts[n].outcome
    BY LedgerFields DEF LastOutcome
  <2>3. ledger'[o].state \in InFlight /\ Count(o)' = Count(o) + 1 /\ LastOutcome(o)' = "none"
    BY <1>1, StartHistory
  <2>4. \A n \in 1..Count(o) : ledger'[o].attempts[n].outcome # "none"
    BY <1>1, <2>2, StartHistory DEF History, LedgerMatchesAttempts
  <2> QED
    BY <1>1, <2>1, <2>2, <2>3, <2>4, StartHistory DEF History, LedgerMatchesAttempts, InFlight, Outcomes
<1>2. ASSUME NEW w \in Workers, Execute(w)
      PROVE  History'
  BY <1>2, Frame DEF Execute, History, LedgerMatchesAttempts
<1>3. ASSUME NEW w \in Workers, Reconcile(w)
      PROVE  History'
  BY <1>3, Frame DEF Reconcile, History, LedgerMatchesAttempts
<1>4. ASSUME NEW w \in Workers, DeadlineExceeded(w)
      PROVE  History'
  BY <1>4, Frame DEF DeadlineExceeded, History, LedgerMatchesAttempts
<1>5. ASSUME NEW w \in Workers, Complete(w)
      PROVE  History'
  <2>1. PICK o \in Operations : worker[w].op = o /\ worker[w].outcome \in Outcomes
    BY <1>5, WorkerFields DEF Complete, Busy
  <2>2. CASE UNCHANGED ledger
    BY <2>2, Frame DEF History, LedgerMatchesAttempts
  <2>3. CASE Current(w) /\ ledger' # ledger
    <3>1. \A p \in Operations \ {o} : ledger'[p] = ledger[p] /\ Count(p)' = Count(p) /\ LastOutcome(p)' = LastOutcome(p)
      BY <1>5, <2>1, <2>3, CompleteHistory, Frame
    <3>2. /\ Count(o)' = Count(o) /\ LastOutcome(o)' = worker[w].outcome /\ Count(o) \in Nat
          /\ \A n \in 1..Count(o) : ledger'[o].attempts[n].outcome =
                 IF n = Count(o) THEN worker[w].outcome ELSE ledger[o].attempts[n].outcome
          /\ \/ ledger'[o].state = worker[w].outcome
             \/ ledger'[o].state = "retry_wait" /\ worker[w].outcome = "failed"
      BY <1>5, <2>1, <2>3, CompleteHistory, LedgerFields
    <3>3. ledger[o].state \in InFlight
      BY <2>1, <2>3 DEF Current
    <3> QED
      BY <2>1, <3>1, <3>2, <3>3 DEF History, LedgerMatchesAttempts, InFlight, Outcomes
  <2> QED
    BY <1>5, <2>1, <2>2, <2>3, CompleteHistory
<1>6. ASSUME NEW w \in Workers, Crash(w)
      PROVE  History'
  BY <1>6, Frame DEF Crash, History, LedgerMatchesAttempts
<1>7. ASSUME NEW o \in Operations, RecordAuthorization(o)
      PROVE  History'
  BY <1>7, Frame DEF RecordAuthorization, History, LedgerMatchesAttempts
<1>8. ASSUME NEW o \in Operations, CancelAuthorization(o)
      PROVE  History'
  BY <1>8, Frame DEF CancelAuthorization, History, LedgerMatchesAttempts
<1>9. ASSUME NEW o \in Operations, ClaimDrops(o)
      PROVE  History'
  BY <1>9, Frame DEF ClaimDrops, History, LedgerMatchesAttempts
<1>10. ASSUME NEW o \in Operations, NEW u \in Users, NEW outcome \in {"succeeded", "failed"}, RequestResolution(o, u, outcome)
      PROVE  History'
  <2>1. \A p \in Operations : Count(p)' = Count(p) /\ LastOutcome(p)' = LastOutcome(p)
    BY <1>10, Rewritten, Frame DEF Rewrites
  <2>2. \A p \in Operations : ledger'[p].attempts = ledger[p].attempts
    BY <1>10, Rewritten DEF Rewrites
  <2>3. ledger'[o].state = "manual_resolution" /\ \A p \in Operations \ {o} : ledger'[p] = ledger[p]
    BY <1>10, Rewritten DEF Rewrites
  <2>4. ledger[o].state = "unknown"
    BY <1>10 DEF RequestResolution
  <2> QED
    BY <2>1, <2>2, <2>3, <2>4 DEF History, LedgerMatchesAttempts, InFlight, Outcomes
<1>11. ASSUME NEW o \in Operations, NEW u \in Users, ConfirmResolution(o, u)
      PROVE  History'
  <2>1. \A p \in Operations : Count(p)' = Count(p) /\ LastOutcome(p)' = LastOutcome(p)
    BY <1>11, Rewritten, Frame DEF Rewrites
  <2>2. \A p \in Operations : ledger'[p].attempts = ledger[p].attempts
    BY <1>11, Rewritten DEF Rewrites
  <2>3. ledger'[o].state = resolution[o].outcome /\ \A p \in Operations \ {o} : ledger'[p] = ledger[p]
    BY <1>11, Rewritten DEF Rewrites
  <2>4. ledger[o].state = "manual_resolution" /\ resolution[o].outcome \in {"succeeded", "failed"}
    BY <1>11 DEF ConfirmResolution, People
  <2> QED
    BY <2>1, <2>2, <2>3, <2>4 DEF History, LedgerMatchesAttempts, InFlight, Outcomes
<1>12. ASSUME NEW o \in Operations, LeaseLapses(o)
      PROVE  History'
  <2>1. \A p \in Operations : Count(p)' = Count(p) /\ LastOutcome(p)' = LastOutcome(p)
    BY <1>12, Rewritten, Frame DEF Rewrites
  <2>2. \A p \in Operations : ledger'[p].attempts = ledger[p].attempts
    BY <1>12, Rewritten DEF Rewrites
  <2> QED
    BY <1>12, <2>1, <2>2, Rewritten DEF LeaseLapses, Rewrites, History, LedgerMatchesAttempts
<1>13. ASSUME NEW o \in Operations, WindowMoves(o)
      PROVE  History'
  <2>1. \A p \in Operations : Count(p)' = Count(p) /\ LastOutcome(p)' = LastOutcome(p)
    BY <1>13, Rewritten, Frame DEF Rewrites
  <2>2. \A p \in Operations : ledger'[p].attempts = ledger[p].attempts
    BY <1>13, Rewritten DEF Rewrites
  <2> QED
    BY <1>13, <2>1, <2>2, Rewritten DEF WindowMoves, Rewrites, History, LedgerMatchesAttempts
<1>14. ASSUME NEW o \in Operations, RunnerEnds(o)
      PROVE  History'
  BY <1>14, Frame DEF RunnerEnds, History, LedgerMatchesAttempts
<1>15. ASSUME NEW o \in Operations, Supersede(o)
      PROVE  History'
  BY <1>15, Frame DEF Supersede, History, LedgerMatchesAttempts
<1>16. ASSUME NEW o \in Operations, Revise(o)
      PROVE  History'
  BY <1>16, Frame DEF Revise, History, LedgerMatchesAttempts
<1>17. ASSUME NEW o \in Operations, Lands(o)
      PROVE  History'
  BY <1>17, Frame DEF Lands, History, LedgerMatchesAttempts
<1>18. CASE UNCHANGED vars
  BY <1>18, Frame DEF History, LedgerMatchesAttempts, vars, environment
<1> QED
  BY <1>1, <1>2, <1>3, <1>4, <1>5, <1>6, <1>7, <1>8, <1>9, <1>10, <1>11, <1>12, <1>13, <1>14, <1>15, <1>16,
     <1>17, <1>18, Starts
     DEF Next, WorkerStep

\* Two people go on deciding what no attempt has.
LEMMA NextPeople ==
    ASSUME TypeOK, History, People, Ownership, [Next]_vars
    PROVE  People'
<1>1. ASSUME NEW w \in Workers, NEW o \in Operations, Start(w, o)
      PROVE  People'
  <2>1. \A p \in Operations \ {o} : LastOutcome(p)' = LastOutcome(p)
    BY <1>1, StartHistory, Frame
  <2> QED
    BY <1>1, <2>1, StartHistory DEF Start, People, DualControl, InFlight
<1>2. ASSUME NEW w \in Workers, Execute(w)
      PROVE  People'
  BY <1>2, Frame DEF Execute, People, DualControl
<1>3. ASSUME NEW w \in Workers, Reconcile(w)
      PROVE  People'
  BY <1>3, Frame DEF Reconcile, People, DualControl
<1>4. ASSUME NEW w \in Workers, DeadlineExceeded(w)
      PROVE  People'
  BY <1>4, Frame DEF DeadlineExceeded, People, DualControl
<1>5. ASSUME NEW w \in Workers, Complete(w)
      PROVE  People'
  <2>1. PICK o \in Operations : worker[w].op = o /\ worker[w].outcome \in Outcomes
    BY <1>5, WorkerFields DEF Complete, Busy
  <2>2. CASE UNCHANGED ledger
    BY <1>5, <2>2, Frame DEF Complete, People, DualControl
  <2>3. CASE Current(w) /\ ledger' # ledger
    <3>1. \A p \in Operations \ {o} : ledger'[p] = ledger[p] /\ LastOutcome(p)' = LastOutcome(p)
      BY <1>5, <2>1, <2>3, CompleteHistory, Frame
    <3>2. LastOutcome(o)' = worker[w].outcome /\ ledger'[o].state \in {worker[w].outcome, "retry_wait"}
      BY <1>5, <2>1, <2>3, CompleteHistory
    <3>3. ledger[o].state \in InFlight
      BY <2>1, <2>3 DEF Current
    <3> QED
      BY <1>5, <2>1, <3>1, <3>2, <3>3 DEF Complete, People, DualControl, InFlight, Outcomes
  <2> QED
    BY <1>5, <2>1, <2>2, <2>3, CompleteHistory
<1>6. ASSUME NEW w \in Workers, Crash(w)
      PROVE  People'
  BY <1>6, Frame DEF Crash, People, DualControl
<1>7. ASSUME NEW o \in Operations, RecordAuthorization(o)
      PROVE  People'
  BY <1>7, Frame DEF RecordAuthorization, People, DualControl
<1>8. ASSUME NEW o \in Operations, CancelAuthorization(o)
      PROVE  People'
  BY <1>8, Frame DEF CancelAuthorization, People, DualControl
<1>9. ASSUME NEW o \in Operations, ClaimDrops(o)
      PROVE  People'
  BY <1>9, Frame DEF ClaimDrops, People, DualControl
<1>10. ASSUME NEW o \in Operations, NEW u \in Users, NEW outcome \in {"succeeded", "failed"}, RequestResolution(o, u, outcome)
      PROVE  People'
  <2>1. \A p \in Operations : LastOutcome(p)' = LastOutcome(p)
    BY <1>10, Rewritten, Frame DEF Rewrites
  <2>2. ledger'[o].state = "manual_resolution" /\ \A p \in Operations \ {o} : ledger'[p] = ledger[p]
    BY <1>10, Rewritten DEF Rewrites
  <2>3. /\ resolution'[o].state = "pending" /\ resolution'[o].outcome \in {"succeeded", "failed"}
        /\ \A p \in Operations \ {o} : resolution'[p] = resolution[p]
    BY <1>10 DEF RequestResolution, TypeOK
  <2> QED
    BY <2>1, <2>2, <2>3 DEF People, DualControl
<1>11. ASSUME NEW o \in Operations, NEW u \in Users, ConfirmResolution(o, u)
      PROVE  People'
  <2>1. \A p \in Operations : LastOutcome(p)' = LastOutcome(p)
    BY <1>11, Rewritten, Frame DEF Rewrites
  <2>2. ledger'[o].state = resolution[o].outcome /\ \A p \in Operations \ {o} : ledger'[p] = ledger[p]
    BY <1>11, Rewritten DEF Rewrites
  <2>3. resolution[o].outcome \in {"succeeded", "failed"}
    BY <1>11 DEF ConfirmResolution, People
  <2>4. /\ resolution'[o].state = "applied" /\ resolution'[o].outcome = resolution[o].outcome
        /\ resolution'[o].by = resolution[o].by /\ resolution'[o].confirmer = u /\ u # resolution[o].by
        /\ \A p \in Operations \ {o} : resolution'[p] = resolution[p]
    BY <1>11 DEF ConfirmResolution, DistinctConfirmer, TypeOK
  <2> QED
    BY <2>1, <2>2, <2>3, <2>4 DEF People, DualControl
<1>12. ASSUME NEW o \in Operations, LeaseLapses(o)
      PROVE  People'
  <2>1. \A p \in Operations : LastOutcome(p)' = LastOutcome(p)
    BY <1>12, Rewritten, Frame DEF Rewrites
  <2> QED
    BY <1>12, <2>1, Rewritten DEF LeaseLapses, Rewrites, People, DualControl
<1>13. ASSUME NEW o \in Operations, WindowMoves(o)
      PROVE  People'
  <2>1. \A p \in Operations : LastOutcome(p)' = LastOutcome(p)
    BY <1>13, Rewritten, Frame DEF Rewrites
  <2> QED
    BY <1>13, <2>1, Rewritten DEF WindowMoves, Rewrites, People, DualControl
<1>14. ASSUME NEW o \in Operations, RunnerEnds(o)
      PROVE  People'
  BY <1>14, Frame DEF RunnerEnds, People, DualControl
<1>15. ASSUME NEW o \in Operations, Supersede(o)
      PROVE  People'
  BY <1>15, Frame DEF Supersede, People, DualControl
<1>16. ASSUME NEW o \in Operations, Revise(o)
      PROVE  People'
  BY <1>16, Frame DEF Revise, People, DualControl
<1>17. ASSUME NEW o \in Operations, Lands(o)
      PROVE  People'
  BY <1>17, Frame DEF Lands, People, DualControl
<1>18. CASE UNCHANGED vars
  BY <1>18, Frame DEF People, DualControl, vars, environment
<1> QED
  BY <1>1, <1>2, <1>3, <1>4, <1>5, <1>6, <1>7, <1>8, <1>9, <1>10, <1>11, <1>12, <1>13, <1>14, <1>15, <1>16,
     <1>17, <1>18, Starts
     DEF Next, WorkerStep

\* An answer of the handler changes nothing about its worker that the
\* invariant speaks of but the answer itself.
LEMMA Answers ==
    ASSUME TypeOK, NEW w \in Workers, Execute(w) \/ Reconcile(w) \/ DeadlineExceeded(w)
    PROVE  /\ worker[w].pc = "call" /\ worker'[w].pc = "settle"
           /\ worker'[w].op = worker[w].op /\ worker'[w].attempt = worker[w].attempt
           /\ \A v \in Workers \ {w} : worker'[v] = worker[v]
           /\ UNCHANGED <<environment, authorization, ledger, queue, resolution>>
<1>1. worker[w].pc = "call"
  BY DEF Execute, Reconcile, DeadlineExceeded, Calling
<1>2. \E outcome \in Outcomes, retryable \in BOOLEAN : Answer(w, outcome, retryable)
  <2>1. CASE Execute(w)
    BY <2>1, ExecuteAnswer
  <2>2. CASE Reconcile(w)
    BY <2>2, ReconcileAnswer
  <2>3. CASE DeadlineExceeded(w)
    BY <2>3 DEF DeadlineExceeded, Outcomes
  <2> QED
    BY <2>1, <2>2, <2>3
<1>3. UNCHANGED <<environment, authorization, ledger, queue, resolution>>
  BY DEF Execute, Reconcile, DeadlineExceeded
<1> QED
  BY <1>1, <1>2, <1>3, AnswerWorker

\* Nothing is attempted, takes effect or is worked on without its approval.
LEMMA NextApprovals ==
    ASSUME TypeOK, History, People, Ownership, Approvals, [Next]_vars
    PROVE  Approvals'
<1>1. ASSUME NEW w \in Workers, NEW o \in Operations, Start(w, o)
      PROVE  Approvals'
  BY <1>1, StartHistory, StartWorker, WorkerFields DEF Start, Authorized, Approvals, Busy, InFlight
<1>2. ASSUME NEW w \in Workers, Execute(w)
      PROVE  Approvals'
  <2>1. \A p \in Operations : p # worker[w].op => effect'[p] = effect[p]
    BY <1>2, WorkerFields DEF Execute, TypeOK
  <2> QED
    BY <1>2, <2>1, Answers DEF Approvals, Busy
<1>3. ASSUME NEW w \in Workers, Reconcile(w)
      PROVE  Approvals'
  <2>1. UNCHANGED effect
    BY <1>3 DEF Reconcile
  <2> QED
    BY <1>3, <2>1, Answers DEF Approvals, Busy
<1>4. ASSUME NEW w \in Workers, DeadlineExceeded(w)
      PROVE  Approvals'
  <2>1. UNCHANGED effect
    BY <1>4 DEF DeadlineExceeded
  <2> QED
    BY <1>4, <2>1, Answers DEF Approvals, Busy
<1>5. ASSUME NEW w \in Workers, Complete(w)
      PROVE  Approvals'
  <2>1. PICK o \in Operations : worker[w].op = o /\ worker[w].outcome \in Outcomes
    BY <1>5, WorkerFields DEF Complete, Busy
  <2>2. \A p \in Operations : ledger'[p].state = "absent" <=> ledger[p].state = "absent"
    BY <1>5, <2>1, CompleteHistory DEF Current, InFlight, Outcomes
  <2> QED
    BY <1>5, <2>2, WorkerFreed, WorkerFields, ZenonT(40) DEF Complete, Approvals, Busy
<1>6. ASSUME NEW w \in Workers, Crash(w)
      PROVE  Approvals'
  BY <1>6, WorkerFreed DEF Crash, Approvals, Busy
<1>7. ASSUME NEW o \in Operations, RecordAuthorization(o)
      PROVE  Approvals'
  BY <1>7 DEF RecordAuthorization, Approvals, Busy, TypeOK
<1>8. ASSUME NEW o \in Operations, CancelAuthorization(o)
      PROVE  Approvals'
  BY <1>8 DEF CancelAuthorization, Cancelable, Approvals, Busy, TypeOK
<1>9. ASSUME NEW o \in Operations, ClaimDrops(o)
      PROVE  Approvals'
  BY <1>9 DEF ClaimDrops, Approvals, Busy
<1>10. ASSUME NEW o \in Operations, NEW u \in Users, NEW outcome \in {"succeeded", "failed"}, RequestResolution(o, u, outcome)
      PROVE  Approvals'
  <2>1. \A p \in Operations : ledger'[p].state = "absent" <=> ledger[p].state = "absent"
    BY <1>10, Rewritten DEF RequestResolution, Rewrites
  <2> QED
    BY <1>10, <2>1, WorkerFields DEF RequestResolution, Approvals, Busy
<1>11. ASSUME NEW o \in Operations, NEW u \in Users, ConfirmResolution(o, u)
      PROVE  Approvals'
  <2>1. \A p \in Operations : ledger'[p].state = "absent" <=> ledger[p].state = "absent"
    BY <1>11, Rewritten DEF ConfirmResolution, Rewrites, People
  <2> QED
    BY <1>11, <2>1, WorkerFields DEF ConfirmResolution, Approvals, Busy
<1>12. ASSUME NEW o \in Operations, LeaseLapses(o)
      PROVE  Approvals'
  <2>1. \A p \in Operations : ledger'[p].state = "absent" <=> ledger[p].state = "absent"
    BY <1>12, Rewritten DEF LeaseLapses, Rewrites
  <2> QED
    BY <1>12, <2>1, WorkerFields DEF LeaseLapses, Approvals, Busy
<1>13. ASSUME NEW o \in Operations, WindowMoves(o)
      PROVE  Approvals'
  <2>1. \A p \in Operations : ledger'[p].state = "absent" <=> ledger[p].state = "absent"
    BY <1>13, Rewritten DEF WindowMoves, Rewrites
  <2> QED
    BY <1>13, <2>1, WorkerFields DEF WindowMoves, Approvals, Busy
<1>14. ASSUME NEW o \in Operations, RunnerEnds(o)
      PROVE  Approvals'
  BY <1>14 DEF RunnerEnds, Approvals, Busy
<1>15. ASSUME NEW o \in Operations, Supersede(o)
      PROVE  Approvals'
  BY <1>15 DEF Supersede, Approvals, Busy
<1>16. ASSUME NEW o \in Operations, Revise(o)
      PROVE  Approvals'
  BY <1>16 DEF Revise, Approvals, Busy
<1>17. ASSUME NEW o \in Operations, Lands(o)
      PROVE  Approvals'
  BY <1>17 DEF Lands, Approvals, Busy, TypeOK
<1>18. CASE UNCHANGED vars
  BY <1>18 DEF Approvals, Busy, vars, environment
<1> QED
  BY <1>1, <1>2, <1>3, <1>4, <1>5, <1>6, <1>7, <1>8, <1>9, <1>10, <1>11, <1>12, <1>13, <1>14, <1>15, <1>16,
     <1>17, <1>18, Starts
     DEF Next, WorkerStep

\* The queue goes on holding what can make progress by itself.
LEMMA NextQueued ==
    ASSUME TypeOK, History, People, Ownership, UnsettledQueued, [Next]_vars
    PROVE  UnsettledQueued'
<1>1. ASSUME NEW w \in Workers, NEW o \in Operations, Start(w, o)
      PROVE  UnsettledQueued'
  <2>1. \A p \in Operations \ {o} : ledger'[p] = ledger[p] /\ Count(p)' = Count(p)
    BY <1>1, StartHistory, Frame
  <2>2. queue' = queue \cup {o}
    BY <1>1, StartHistory DEF SyncQueue
  <2> QED
    BY <1>1, <2>1, <2>2 DEF Start, UnsettledQueued, Settled, environment
<1>2. ASSUME NEW w \in Workers, Execute(w)
      PROVE  UnsettledQueued'
  BY <1>2, Answers, Frame DEF UnsettledQueued, Settled, environment
<1>3. ASSUME NEW w \in Workers, Reconcile(w)
      PROVE  UnsettledQueued'
  BY <1>3, Answers, Frame DEF UnsettledQueued, Settled, environment
<1>4. ASSUME NEW w \in Workers, DeadlineExceeded(w)
      PROVE  UnsettledQueued'
  BY <1>4, Answers, Frame DEF UnsettledQueued, Settled, environment
<1>5. ASSUME NEW w \in Workers, Complete(w)
      PROVE  UnsettledQueued'
  <2>1. PICK o \in Operations : worker[w].op = o /\ worker[w].outcome \in Outcomes
    BY <1>5, WorkerFields DEF Complete, Busy
  <2>2. UNCHANGED <<authorization, window>>
    BY <1>5 DEF Complete, environment
  <2>3. CASE UNCHANGED <<ledger, queue>>
    BY <2>2, <2>3, Frame DEF UnsettledQueued, Settled
  <2>4. CASE Current(w) /\ ~UNCHANGED <<ledger, queue>>
    <3>1. \A p \in Operations \ {o} : ledger'[p] = ledger[p] /\ Count(p)' = Count(p)
      BY <1>5, <2>1, <2>4, CompleteHistory, Frame
    <3>2. /\ ledger'[o].state \in Outcomes \cup {"retry_wait"} /\ queue' = SyncQueue(o, ledger'[o])
          /\ Count(o)' \in Nat /\ Len(ledger'[o].attempts) = Count(o)'
      BY <1>5, <2>1, <2>4, CompleteHistory, LedgerFields DEF Count
    <3>3. window[o] = "open" => o \in queue' \/ Settled(o)'
      BY <3>2, ConstantsAssumption DEF Settled, SyncQueue, Outcomes
    <3>4. \A p \in Operations \ {o} : p \in queue' <=> p \in queue
      BY <3>2 DEF SyncQueue
    <3> QED
      BY <2>2, <3>1, <3>3, <3>4 DEF UnsettledQueued, Settled
  <2> QED
    BY <1>5, <2>1, <2>3, <2>4, CompleteHistory
<1>6. ASSUME NEW w \in Workers, Crash(w)
      PROVE  UnsettledQueued'
  BY <1>6, Frame DEF Crash, UnsettledQueued, Settled, environment
<1>7. ASSUME NEW o \in Operations, RecordAuthorization(o)
      PROVE  UnsettledQueued'
  BY <1>7, Frame DEF RecordAuthorization, UnsettledQueued, Settled, environment, TypeOK
<1>8. ASSUME NEW o \in Operations, CancelAuthorization(o)
      PROVE  UnsettledQueued'
  BY <1>8, Frame DEF CancelAuthorization, UnsettledQueued, Settled, environment, TypeOK
<1>9. ASSUME NEW o \in Operations, ClaimDrops(o)
      PROVE  UnsettledQueued'
  BY <1>9, Frame DEF ClaimDrops, Authorized, UnsettledQueued, Settled, environment
<1>10. ASSUME NEW o \in Operations, NEW u \in Users, NEW outcome \in {"succeeded", "failed"}, RequestResolution(o, u, outcome)
      PROVE  UnsettledQueued'
  <2>1. \A p \in Operations \ {o} : ledger'[p] = ledger[p] /\ Count(p)' = Count(p)
    BY <1>10, Rewritten, Frame DEF Rewrites
  <2>2. ledger'[o].state = "manual_resolution" /\ queue' = SyncQueue(o, ledger'[o])
    BY <1>10, Rewritten DEF Rewrites
  <2>3. Settled(o)'
    BY <1>10, <2>2 DEF RequestResolution, People, Settled
  <2>4. \A p \in Operations \ {o} : p \in queue' <=> p \in queue
    BY <2>2 DEF SyncQueue
  <2> QED
    BY <1>10, <2>1, <2>3, <2>4 DEF RequestResolution, UnsettledQueued, Settled, environment
<1>11. ASSUME NEW o \in Operations, NEW u \in Users, ConfirmResolution(o, u)
      PROVE  UnsettledQueued'
  <2>1. \A p \in Operations \ {o} : ledger'[p] = ledger[p] /\ Count(p)' = Count(p)
    BY <1>11, Rewritten, Frame DEF Rewrites
  <2>2. ledger'[o].state = resolution[o].outcome /\ queue' = SyncQueue(o, ledger'[o])
    BY <1>11, Rewritten DEF Rewrites
  <2>3. Settled(o)'
    BY <1>11, <2>2 DEF ConfirmResolution, People, Settled
  <2>4. \A p \in Operations \ {o} : p \in queue' <=> p \in queue
    BY <2>2 DEF SyncQueue
  <2> QED
    BY <1>11, <2>1, <2>3, <2>4 DEF ConfirmResolution, UnsettledQueued, Settled, environment
<1>12. ASSUME NEW o \in Operations, LeaseLapses(o)
      PROVE  UnsettledQueued'
  <2>1. \A p \in Operations : ledger'[p].state = ledger[p].state /\ Count(p)' = Count(p)
    BY <1>12, Rewritten, Frame DEF Rewrites
  <2> QED
    BY <1>12, <2>1 DEF LeaseLapses, UnsettledQueued, Settled, environment
<1>13. ASSUME NEW o \in Operations, WindowMoves(o)
      PROVE  UnsettledQueued'
  <2>1. \A p \in Operations : ledger'[p].state = ledger[p].state /\ Count(p)' = Count(p)
    BY <1>13, Rewritten, Frame DEF Rewrites
  <2>2. window'[o] # "open" /\ \A p \in Operations \ {o} : window'[p] = window[p]
    BY <1>13 DEF WindowMoves, TypeOK
  <2> QED
    BY <1>13, <2>1, <2>2 DEF WindowMoves, UnsettledQueued, Settled
<1>14. ASSUME NEW o \in Operations, RunnerEnds(o)
      PROVE  UnsettledQueued'
  BY <1>14, Frame DEF RunnerEnds, UnsettledQueued, Settled, environment
<1>15. ASSUME NEW o \in Operations, Supersede(o)
      PROVE  UnsettledQueued'
  BY <1>15, Frame DEF Supersede, UnsettledQueued, Settled, environment
<1>16. ASSUME NEW o \in Operations, Revise(o)
      PROVE  UnsettledQueued'
  BY <1>16, Frame DEF Revise, UnsettledQueued, Settled, environment
<1>17. ASSUME NEW o \in Operations, Lands(o)
      PROVE  UnsettledQueued'
  BY <1>17, Frame DEF Lands, UnsettledQueued, Settled, environment
<1>18. CASE UNCHANGED vars
  BY <1>18, Frame DEF UnsettledQueued, Settled, vars, environment
<1> QED
  BY <1>1, <1>2, <1>3, <1>4, <1>5, <1>6, <1>7, <1>8, <1>9, <1>10, <1>11, <1>12, <1>13, <1>14, <1>15, <1>16,
     <1>17, <1>18, Starts
     DEF Next, WorkerStep

\* Each attempt goes on belonging to one worker.
LEMMA NextOwnership ==
    ASSUME TypeOK, History, People, Ownership, [Next]_vars
    PROVE  Ownership'
<1>1. ASSUME NEW w \in Workers, NEW o \in Operations, Start(w, o)
      PROVE  Ownership'
  <2>1. \A p \in Operations \ {o} : ledger'[p] = ledger[p] /\ Count(p)' = Count(p)
    BY <1>1, StartHistory, Frame
  <2>2. ledger'[o].state \in InFlight /\ Count(o)' = Count(o) + 1 /\ Count(o) \in Nat
    BY <1>1, StartHistory, LedgerFields
  <2>3. /\ \A v \in Workers \ {w} : worker'[v] = worker[v]
        /\ worker'[w].op = o /\ worker'[w].attempt = Count(o) + 1
    BY <1>1, StartWorker
  <2>4. \A v \in Workers : Busy(v) => /\ worker[v].op \in Operations /\ worker[v].attempt \in 1..Count(worker[v].op)
                                      /\ worker[v].op = o => worker[v].attempt # Count(o) + 1
    BY <2>2, WorkerFields DEF Ownership
  <2>5. \A v \in Workers \ {w} : Busy(v)' => Busy(v) /\ worker'[v].op \in Operations
    BY <2>3, <2>4 DEF Busy
  <2>6. ASSUME NEW v \in Workers \ {w}, Busy(v)'
        PROVE  /\ worker'[v].attempt \in 1..(Count(worker[v].op)')
               /\ Latest(v)' => ledger'[worker'[v].op].state \in InFlight
    <3>1. CASE worker[v].op = o
      BY <2>2, <2>3, <2>4, <2>5, <2>6, <3>1 DEF Latest
    <3>2. CASE worker[v].op # o
      BY <2>1, <2>3, <2>4, <2>5, <2>6, <3>2 DEF Latest, Ownership
    <3> QED
      BY <3>1, <3>2
  <2>7. /\ worker'[w].attempt \in 1..(Count(worker[w].op)')
        /\ ledger'[worker'[w].op].state \in InFlight
    BY <2>2, <2>3
  <2>8. ASSUME NEW v \in Workers, NEW x \in Workers, Busy(v)', Busy(x)',
               worker'[v].op = worker'[x].op, worker'[v].attempt = worker'[x].attempt
        PROVE  v = x
    BY <2>3, <2>4, <2>5, <2>8 DEF Ownership
  <2> QED
    BY <2>6, <2>7, <2>8 DEF Ownership
<1>2. ASSUME NEW w \in Workers, Execute(w)
      PROVE  Ownership'
  BY <1>2, Answers, Frame, WorkerFields DEF Ownership, Busy, Latest
<1>3. ASSUME NEW w \in Workers, Reconcile(w)
      PROVE  Ownership'
  BY <1>3, Answers, Frame, WorkerFields DEF Ownership, Busy, Latest
<1>4. ASSUME NEW w \in Workers, DeadlineExceeded(w)
      PROVE  Ownership'
  BY <1>4, Answers, Frame, WorkerFields DEF Ownership, Busy, Latest
<1>5. ASSUME NEW w \in Workers, Complete(w)
      PROVE  Ownership'
  <2>1. PICK o \in Operations : worker[w].op = o /\ Busy(w)
    BY <1>5, WorkerFields DEF Complete, Busy
  <2>2. \A p \in Operations : /\ Count(p)' = Count(p)
                              /\ p # o \/ ~Current(w) => ledger'[p].state = ledger[p].state
    BY <1>5, <2>1, CompleteHistory, Frame
  <2>3. ASSUME NEW v \in Workers \ {w}, Busy(v), worker[v].op = o, Latest(v)
        PROVE  ~Current(w)
    BY <2>1, <2>3 DEF Ownership, Current, Latest, Count
  <2> QED
    BY <1>5, <2>1, <2>2, <2>3, WorkerFreed, WorkerFields DEF Ownership, Busy, Latest
<1>6. ASSUME NEW w \in Workers, Crash(w)
      PROVE  Ownership'
  <2>1. UNCHANGED ledger
    BY <1>6 DEF Crash
  <2> QED
    BY <1>6, <2>1, WorkerFreed, Frame, WorkerFields DEF Ownership, Busy, Latest
<1>7. ASSUME NEW o \in Operations, RecordAuthorization(o)
      PROVE  Ownership'
  BY <1>7, Frame, WorkerFields DEF RecordAuthorization, Ownership, Busy, Latest
<1>8. ASSUME NEW o \in Operations, CancelAuthorization(o)
      PROVE  Ownership'
  BY <1>8, Frame, WorkerFields DEF CancelAuthorization, Ownership, Busy, Latest
<1>9. ASSUME NEW o \in Operations, ClaimDrops(o)
      PROVE  Ownership'
  BY <1>9, Frame, WorkerFields DEF ClaimDrops, Ownership, Busy, Latest
<1>10. ASSUME NEW o \in Operations, NEW u \in Users, NEW outcome \in {"succeeded", "failed"}, RequestResolution(o, u, outcome)
      PROVE  Ownership'
  <2>1. \A p \in Operations : Count(p)' = Count(p) /\ (p # o => ledger'[p] = ledger[p])
    BY <1>10, Rewritten, Frame DEF Rewrites
  <2>2. ledger[o].state \notin InFlight /\ UNCHANGED worker
    BY <1>10 DEF RequestResolution, InFlight
  <2> QED
    BY <2>1, <2>2, WorkerFields DEF Ownership, Busy, Latest
<1>11. ASSUME NEW o \in Operations, NEW u \in Users, ConfirmResolution(o, u)
      PROVE  Ownership'
  <2>1. \A p \in Operations : Count(p)' = Count(p) /\ (p # o => ledger'[p] = ledger[p])
    BY <1>11, Rewritten, Frame DEF Rewrites
  <2>2. ledger[o].state \notin InFlight /\ UNCHANGED worker
    BY <1>11 DEF ConfirmResolution, InFlight
  <2> QED
    BY <2>1, <2>2, WorkerFields DEF Ownership, Busy, Latest
<1>12. ASSUME NEW o \in Operations, LeaseLapses(o)
      PROVE  Ownership'
  <2>1. \A p \in Operations : ledger'[p].state = ledger[p].state /\ Count(p)' = Count(p)
    BY <1>12, Rewritten, Frame DEF Rewrites
  <2>2. UNCHANGED worker
    BY <1>12 DEF LeaseLapses
  <2> QED
    BY <2>1, <2>2, WorkerFields DEF Ownership, Busy, Latest
<1>13. ASSUME NEW o \in Operations, WindowMoves(o)
      PROVE  Ownership'
  <2>1. \A p \in Operations : ledger'[p].state = ledger[p].state /\ Count(p)' = Count(p)
    BY <1>13, Rewritten, Frame DEF Rewrites
  <2>2. UNCHANGED worker
    BY <1>13 DEF WindowMoves
  <2> QED
    BY <2>1, <2>2, WorkerFields DEF Ownership, Busy, Latest
<1>14. ASSUME NEW o \in Operations, RunnerEnds(o)
      PROVE  Ownership'
  BY <1>14, Frame, WorkerFields DEF RunnerEnds, Ownership, Busy, Latest
<1>15. ASSUME NEW o \in Operations, Supersede(o)
      PROVE  Ownership'
  BY <1>15, Frame, WorkerFields DEF Supersede, Ownership, Busy, Latest
<1>16. ASSUME NEW o \in Operations, Revise(o)
      PROVE  Ownership'
  BY <1>16, Frame, WorkerFields DEF Revise, Ownership, Busy, Latest
<1>17. ASSUME NEW o \in Operations, Lands(o)
      PROVE  Ownership'
  BY <1>17, Frame, WorkerFields DEF Lands, Ownership, Busy, Latest
<1>18. CASE UNCHANGED vars
  BY <1>18, Frame, WorkerFields DEF Ownership, Busy, Latest, vars, environment
<1> QED
  BY <1>1, <1>2, <1>3, <1>4, <1>5, <1>6, <1>7, <1>8, <1>9, <1>10, <1>11, <1>12, <1>13, <1>14, <1>15, <1>16,
     <1>17, <1>18, Starts
     DEF Next, WorkerStep

\* Truth depends on the attempts, the world and the workers alone, and on the
\* state of what has failed.
LEMMA TruthKept ==
    ASSUME TypeOK, Truth, UNCHANGED <<capability, revised, effect, worker>>,
           \A p \in Operations : /\ ledger'[p].attempts = ledger[p].attempts
                                 /\ Count(p)' = Count(p) /\ LastOutcome(p)' = LastOutcome(p)
                                 /\ LastOutcome(p) = "failed" => ledger'[p].state = ledger[p].state
    PROVE  Truth'
<1>1. OutcomesTruthful'
  BY DEF Truth, OutcomesTruthful
<1>2. \A v \in Workers : Busy(v) => (Latest(v)' <=> Latest(v))
  BY WorkerFields DEF Latest
<1> QED
  BY <1>1, <1>2 DEF Truth, Calling, Busy

\* What has been reported, or is about to be, stays true.
LEMMA NextTruth ==
    ASSUME TypeOK, History, People, Approvals, Ownership, Truth, [Next]_vars
    PROVE  Truth'
<1>1. ASSUME NEW w \in Workers, NEW o \in Operations, Start(w, o)
      PROVE  Truth'
  <2>1. \A p \in Operations \ {o} : ledger'[p] = ledger[p] /\ Count(p)' = Count(p) /\ LastOutcome(p)' = LastOutcome(p)
    BY <1>1, StartHistory, Frame
  <2>2. /\ Count(o)' = Count(o) + 1 /\ Count(o) \in Nat /\ LastOutcome(o)' = "none"
        /\ ledger'[o].attempts[Count(o) + 1].outcome = "none"
        /\ \A n \in 1..Count(o) : ledger'[o].attempts[n].outcome \in {"unknown", ledger[o].attempts[n].outcome}
    BY <1>1, StartHistory, LedgerFields DEF LastOutcome
  <2>3. UNCHANGED <<capability, revised, effect>>
    BY <1>1 DEF Start, environment
  <2>4. OutcomesTruthful'
    BY <2>1, <2>2, <2>3 DEF Truth, OutcomesTruthful
  <2>5. SelectedMode(o) = "execute" => effect[o] = "none"
    BY DEF SelectedMode, History, LedgerMatchesAttempts, Truth, OutcomesTruthful, Approvals
  <2>6. /\ worker'[w].pc = "call" /\ worker'[w].op = o /\ worker'[w].mode = SelectedMode(o)
        /\ \A v \in Workers \ {w} : worker'[v] = worker[v]
    BY <1>1, StartWorker
  <2>7. ASSUME NEW v \in Workers \ {w}, Busy(v), Latest(v)'
        PROVE  worker[v].op \in Operations \ {o} /\ Latest(v)
    BY <2>1, <2>2, <2>6, <2>7, WorkerFields DEF Ownership, Latest
  <2> QED
    BY <2>3, <2>4, <2>5, <2>6, <2>7 DEF Truth, Calling, Busy
<1>2. ASSUME NEW w \in Workers, Execute(w)
      PROVE  Truth'
  <2>1. PICK o \in Operations : worker[w].op = o
    BY <1>2, WorkerFields DEF Execute, Calling, Busy
  <2>2. Calling(w, "execute") /\ Busy(w) /\ Latest(w) /\ effect[o] = "none" /\ ledger[o].state \in InFlight
    BY <1>2, <2>1 DEF Execute, WithinDeadline, Latest, Truth, Ownership, Calling, Busy
  <2>3. PICK outcome \in Outcomes, retryable \in BOOLEAN, e \in {"none", "flying", "done"} :
            /\ Answer(w, outcome, retryable) /\ effect' = [effect EXCEPT ![o] = e]
            /\ outcome = "succeeded" => e = "done"
            /\ outcome = "failed" => e = effect[o]
            /\ capability[o] # "provider" => e \in {"done", effect[o]}
    BY <1>2, <2>1, ExecuteAnswer
  <2>4. effect'[o] = e /\ \A p \in Operations \ {o} : effect'[p] = effect[p]
    BY <2>3 DEF TypeOK
  <2>5. UNCHANGED <<capability, revised, ledger>> /\ \A p \in Operations : Count(p)' = Count(p) /\ LastOutcome(p)' = LastOutcome(p)
    BY <1>2, Answers, Frame DEF environment
  <2>6. OutcomesTruthful'
    BY <2>2, <2>4, <2>5 DEF Truth, OutcomesTruthful, History, LedgerMatchesAttempts
  <2>7. /\ \A v \in Workers \ {w} : worker'[v] = worker[v]
        /\ worker'[w].pc = "settle" /\ worker'[w].op = o /\ worker'[w].outcome = outcome
    BY <2>1, <2>2, <2>3, AnswerWorker DEF Calling
  <2>8. ASSUME NEW v \in Workers \ {w}, Busy(v)
        PROVE  worker[v].op \in Operations /\ (Latest(v) => worker[v].op # o)
    BY <2>1, <2>2, <2>8, WorkerFields DEF Ownership, Latest
  <2>9. ASSUME NEW v \in Workers \ {w}, Busy(v)
        PROVE  Latest(v)' <=> Latest(v)
    BY <2>5, <2>7, <2>8, <2>9 DEF Latest
  <2> QED
    BY <2>1, <2>2, <2>3, <2>4, <2>5, <2>6, <2>7, <2>8, <2>9 DEF Truth, Calling, Busy
<1>3. ASSUME NEW w \in Workers, Reconcile(w)
      PROVE  Truth'
  <2>1. /\ \A p \in Operations : Count(p)' = Count(p) /\ LastOutcome(p)' = LastOutcome(p)
        /\ UNCHANGED <<capability, revised, ledger>>
    BY <1>3, Answers, Frame DEF environment
  <2>2. UNCHANGED effect
    BY <1>3 DEF Reconcile
  <2>3. OutcomesTruthful'
    BY <2>1, <2>2 DEF Truth, OutcomesTruthful
  <2>4. worker[w].pc = "call" /\ worker[w].op \in Operations /\ worker[w].mode = "reconcile"
    BY <1>3, WorkerFields DEF Reconcile, Calling, Busy
  <2>5. PICK outcome \in Outcomes :
            /\ Answer(w, outcome, FALSE)
            /\ outcome = "succeeded" => effect[worker[w].op] = "done"
            /\ outcome = "failed" => effect[worker[w].op] = "none" \/ revised[worker[w].op]
    <3>1. effect[worker[w].op] \in {"none", "flying", "done"}
      BY <2>4 DEF TypeOK
    <3>2. capability[worker[w].op] # "provider" => effect[worker[w].op] # "flying"
      BY <2>4 DEF Truth
    <3>3. PICK outcome \in Outcomes :
              /\ Answer(w, outcome, FALSE)
              /\ outcome = "succeeded" => effect[worker[w].op] = "done"
              /\ outcome = "failed" => /\ effect[worker[w].op] # "done" \/ revised[worker[w].op]
                                       /\ capability[worker[w].op] # "provider"
      BY <1>3, ReconcileAnswer
    <3> QED
      BY <3>1, <3>2, <3>3
  <2>6. /\ \A v \in Workers \ {w} : worker'[v] = worker[v]
        /\ worker'[w].pc = "settle" /\ worker'[w].op = worker[w].op /\ worker'[w].outcome = outcome
        /\ worker'[w].mode = "reconcile"
    BY <2>4, <2>5, AnswerWorker
  <2>7. \A v \in Workers \ {w} : Busy(v) => (Latest(v)' <=> Latest(v))
    BY <2>1, <2>6, WorkerFields DEF Latest
  <2> QED
    BY <2>1, <2>2, <2>3, <2>5, <2>6, <2>7 DEF Truth, Calling, Busy
<1>4. ASSUME NEW w \in Workers, DeadlineExceeded(w)
      PROVE  Truth'
  <2>1. /\ \A p \in Operations : Count(p)' = Count(p) /\ LastOutcome(p)' = LastOutcome(p)
        /\ UNCHANGED <<capability, revised, ledger>>
    BY <1>4, Answers, Frame DEF environment
  <2>2. UNCHANGED effect
    BY <1>4 DEF DeadlineExceeded
  <2>3. OutcomesTruthful'
    BY <2>1, <2>2 DEF Truth, OutcomesTruthful
  <2>4. /\ \A v \in Workers \ {w} : worker'[v] = worker[v]
        /\ worker'[w].pc = "settle" /\ worker'[w].outcome = "unknown"
    BY <1>4, AnswerWorker DEF DeadlineExceeded, Outcomes
  <2>5. \A v \in Workers \ {w} : Busy(v) => (Latest(v)' <=> Latest(v))
    BY <2>1, <2>4, WorkerFields DEF Latest
  <2> QED
    BY <2>1, <2>2, <2>3, <2>4, <2>5 DEF Truth, Calling, Busy
<1>5. ASSUME NEW w \in Workers, Complete(w)
      PROVE  Truth'
  <2>1. PICK o \in Operations : worker[w].op = o /\ worker[w].outcome \in Outcomes
    BY <1>5, WorkerFields DEF Complete, Busy
  <2>2. UNCHANGED <<capability, revised, effect>> /\ worker[w].pc = "settle"
    BY <1>5 DEF Complete, environment
  <2>3. \A p \in Operations : Count(p)' = Count(p)
    BY <1>5, <2>1, CompleteHistory, Frame
  <2>4. OutcomesTruthful'
    <3>1. CASE UNCHANGED ledger
      BY <2>2, <3>1, Frame DEF Truth, OutcomesTruthful
    <3>2. CASE Current(w) /\ ledger' # ledger
      <4>1. \A p \in Operations \ {o} : ledger'[p] = ledger[p] /\ LastOutcome(p)' = LastOutcome(p)
        BY <1>5, <2>1, <3>2, CompleteHistory, Frame
      <4>2. /\ LastOutcome(o)' = worker[w].outcome
            /\ \A n \in 1..Count(o) : ledger'[o].attempts[n].outcome \in {worker[w].outcome, ledger[o].attempts[n].outcome}
            /\ worker[w].outcome = "failed" /\ worker[w].mode # "execute" => ledger'[o].state = "failed"
        BY <1>5, <2>1, <3>2, CompleteHistory
      <4>3. Latest(w)
        BY <3>2 DEF Current, Latest, Count
      <4> QED
        BY <2>1, <2>2, <2>3, <4>1, <4>2, <4>3 DEF Truth, OutcomesTruthful
    <3> QED
      BY <1>5, <2>1, <3>1, <3>2, CompleteHistory
  <2>5. worker'[w].pc = "idle" /\ \A v \in Workers \ {w} : worker'[v] = worker[v]
    BY <1>5, WorkerFreed
  <2>6. \A v \in Workers \ {w} : Busy(v) => (Latest(v)' <=> Latest(v))
    BY <2>3, <2>5, WorkerFields DEF Latest
  <2> QED
    BY <2>2, <2>4, <2>5, <2>6 DEF Truth, Calling, Busy
<1>6. ASSUME NEW w \in Workers, Crash(w)
      PROVE  Truth'
  <2>1. UNCHANGED <<capability, revised, ledger, effect>>
    BY <1>6 DEF Crash, environment
  <2>2. OutcomesTruthful'
    BY <2>1, Frame DEF Truth, OutcomesTruthful
  <2>3. worker'[w].pc = "idle" /\ \A v \in Workers \ {w} : worker'[v] = worker[v]
    BY <1>6, WorkerFreed
  <2>4. \A v \in Workers \ {w} : Busy(v) => (Latest(v)' <=> Latest(v))
    BY <2>1, <2>3, Frame, WorkerFields DEF Latest
  <2> QED
    BY <2>1, <2>2, <2>3, <2>4 DEF Truth, Calling, Busy
<1>7. ASSUME NEW o \in Operations, RecordAuthorization(o)
      PROVE  Truth'
  BY <1>7, TruthKept, Frame DEF RecordAuthorization, environment
<1>8. ASSUME NEW o \in Operations, CancelAuthorization(o)
      PROVE  Truth'
  BY <1>8, TruthKept, Frame DEF CancelAuthorization, environment
<1>9. ASSUME NEW o \in Operations, ClaimDrops(o)
      PROVE  Truth'
  BY <1>9, TruthKept, Frame DEF ClaimDrops, environment
<1>10. ASSUME NEW o \in Operations, NEW u \in Users, NEW outcome \in {"succeeded", "failed"}, RequestResolution(o, u, outcome)
      PROVE  Truth'
  <2>1. \A p \in Operations : /\ ledger'[p].attempts = ledger[p].attempts
                              /\ Count(p)' = Count(p) /\ LastOutcome(p)' = LastOutcome(p)
                              /\ LastOutcome(p) = "failed" => ledger'[p].state = ledger[p].state
    BY <1>10, Rewritten, Frame DEF Rewrites, History, LedgerMatchesAttempts, Outcomes, RequestResolution
  <2>2. UNCHANGED <<capability, revised, effect, worker>>
    BY <1>10 DEF RequestResolution, environment
  <2> QED
    BY <2>1, <2>2, TruthKept
<1>11. ASSUME NEW o \in Operations, NEW u \in Users, ConfirmResolution(o, u)
      PROVE  Truth'
  <2>1. \A p \in Operations : /\ ledger'[p].attempts = ledger[p].attempts
                              /\ Count(p)' = Count(p) /\ LastOutcome(p)' = LastOutcome(p)
                              /\ LastOutcome(p) = "failed" => ledger'[p].state = ledger[p].state
    BY <1>11, Rewritten, Frame DEF Rewrites, History, LedgerMatchesAttempts, Outcomes, ConfirmResolution
  <2>2. UNCHANGED <<capability, revised, effect, worker>>
    BY <1>11 DEF ConfirmResolution, environment
  <2> QED
    BY <2>1, <2>2, TruthKept
<1>12. ASSUME NEW o \in Operations, LeaseLapses(o)
      PROVE  Truth'
  <2>1. \A p \in Operations : /\ ledger'[p].attempts = ledger[p].attempts
                              /\ Count(p)' = Count(p) /\ LastOutcome(p)' = LastOutcome(p)
                              /\ ledger'[p].state = ledger[p].state
    BY <1>12, Rewritten, Frame DEF Rewrites
  <2>2. UNCHANGED <<capability, revised, effect, worker>>
    BY <1>12 DEF LeaseLapses, environment
  <2> QED
    BY <2>1, <2>2, TruthKept
<1>13. ASSUME NEW o \in Operations, WindowMoves(o)
      PROVE  Truth'
  <2>1. \A p \in Operations : /\ ledger'[p].attempts = ledger[p].attempts
                              /\ Count(p)' = Count(p) /\ LastOutcome(p)' = LastOutcome(p)
                              /\ ledger'[p].state = ledger[p].state
    BY <1>13, Rewritten, Frame DEF Rewrites
  <2>2. UNCHANGED <<capability, revised, effect, worker>>
    BY <1>13 DEF WindowMoves, environment
  <2> QED
    BY <2>1, <2>2, TruthKept
<1>14. ASSUME NEW o \in Operations, RunnerEnds(o)
      PROVE  Truth'
  BY <1>14, TruthKept, Frame DEF RunnerEnds, environment
<1>15. ASSUME NEW o \in Operations, Supersede(o)
      PROVE  Truth'
  BY <1>15, TruthKept, Frame DEF Supersede, environment
<1>16. ASSUME NEW o \in Operations, Revise(o)
      PROVE  Truth'
  <2>1. UNCHANGED <<capability, ledger, effect, worker>>
    BY <1>16 DEF Revise
  <2>2. effect[o] = "done" /\ revised'[o] /\ \A p \in Operations \ {o} : revised'[p] = revised[p]
    BY <1>16 DEF Revise, TypeOK
  <2>3. \A p \in Operations : revised[p] => revised'[p]
    BY <2>2
  <2>4. OutcomesTruthful'
    BY <2>1, <2>3, Frame DEF Truth, OutcomesTruthful
  <2>5. \A v \in Workers : Busy(v) => (Latest(v)' <=> Latest(v)) /\ worker[v].op \in Operations
    BY <2>1, Frame, WorkerFields DEF Latest
  <2> QED
    BY <2>1, <2>2, <2>3, <2>4, <2>5 DEF Truth, Calling, Busy
<1>17. ASSUME NEW o \in Operations, Lands(o)
      PROVE  Truth'
  <2>1. /\ effect[o] = "flying"
        /\ \A p \in Operations \ {o} : effect'[p] = effect[p]
        /\ effect'[o] \in {"none", "done"}
    BY <1>17 DEF Lands, TypeOK
  <2>2. UNCHANGED <<capability, revised, ledger, worker>>
    BY <1>17 DEF Lands, environment
  <2>3. OutcomesTruthful'
    BY <2>1, <2>2, Frame DEF Truth, OutcomesTruthful
  <2>4. \A v \in Workers : Busy(v) => (Latest(v)' <=> Latest(v)) /\ worker[v].op \in Operations
    BY <2>2, Frame, WorkerFields DEF Latest
  <2>5. ~revised[o] /\ effect[o] # "none" /\ effect[o] # "done"
    BY <2>1 DEF Truth
  <2>6. \A p \in Operations : /\ capability[p] # "provider" => effect'[p] # "flying"
                              /\ revised[p] => effect'[p] = "done"
    BY <2>1, <2>5 DEF Truth
  <2>7. ASSUME NEW v \in Workers, Busy(v)
        PROVE  worker[v].op # o => effect'[worker[v].op] = effect[worker[v].op]
    BY <2>1, <2>4, <2>7
  <2>8. \A v \in Workers :
            /\ Calling(v, "execute") /\ Latest(v) => effect'[worker[v].op] = "none"
            /\ worker[v].pc = "settle" /\ worker[v].outcome = "succeeded" => effect'[worker[v].op] = "done"
            /\ worker[v].pc = "settle" /\ worker[v].outcome = "failed" /\ Latest(v) =>
                  effect'[worker[v].op] = "none" \/ (revised[worker[v].op] /\ worker[v].mode = "reconcile")
    BY <2>5, <2>7 DEF Truth, Calling, Busy
  <2> QED
    BY <2>2, <2>3, <2>4, <2>6, <2>8 DEF Truth, Calling, Busy
<1>18. CASE UNCHANGED vars
  BY <1>18, TruthKept, Frame DEF vars, environment
<1> QED
  BY <1>1, <1>2, <1>3, <1>4, <1>5, <1>6, <1>7, <1>8, <1>9, <1>10, <1>11, <1>12, <1>13, <1>14, <1>15, <1>16,
     <1>17, <1>18, Starts
     DEF Next, WorkerStep

-------------------------------------------------------------------------------
(***************************************************************************)
(* The theorems                                                            *)
(***************************************************************************)

\* Nothing has been approved, attempted or done.
LEMMA InitIInv ==
    ASSUME Init
    PROVE  IInv
<1>1. \A o \in Operations : /\ Count(o) = 0 /\ LastOutcome(o) = "none" /\ ledger[o].state = "absent"
                            /\ resolution[o].state = "none" /\ effect[o] = "none" /\ authorization[o] = "none"
                            /\ ~revised[o]
  BY DEF Init, NoRow, NoResolution, Count, LastOutcome
<1>2. \A w \in Workers : worker[w] = Idle /\ worker[w].pc = "idle"
  BY DEF Init, Idle
<1>3. TypeOK
  BY DEF Init, TypeOK, NoRow, NoResolution, Row, LedgerStates
<1>4. History /\ People /\ UnsettledQueued
  BY <1>1 DEF History, LedgerMatchesAttempts, InFlight, Outcomes, People, DualControl, UnsettledQueued
<1>5. Approvals /\ Ownership /\ Truth
  BY <1>1, <1>2 DEF Approvals, Ownership, Truth, OutcomesTruthful, Busy, Calling
<1> QED
  BY <1>3, <1>4, <1>5 DEF IInv

\* The invariant holds throughout: it is what the ledger, its history, the
\* people, the workers and the world keep of each other.
THEOREM Inductive == Spec => []IInv
<1>1. Init => IInv
  BY InitIInv
<1>2. IInv /\ [Next]_vars => IInv'
  BY NextTypeOK, NextHistory, NextPeople, NextApprovals, NextQueued, NextOwnership, NextTruth DEF IInv
<1> QED
  BY <1>1, <1>2, PTL DEF Spec

\* Every variable keeps its type, whatever the handlers answer and whoever
\* takes over from whom.
THEOREM TypeCorrect == Spec => []TypeOK
<1>1. IInv => TypeOK
  BY DEF IInv
<1> QED
  BY <1>1, Inductive, PTL

\* What an attempt reports is true of the world and stays true: an executor
\* that outlives its lease is refused both by its deadline and by the
\* completion, and a lost answer is reported as unknown.  The one exception is
\* named: an action that is over as failed although it had created a schedule,
\* which was changed before the lookup.
THEOREM ReportsTrue == Spec => []OutcomesTruthful
<1>1. IInv => OutcomesTruthful
  BY DEF IInv, Truth
<1> QED
  BY <1>1, Inductive, PTL

\* The ledger agrees with its attempts, the manual resolutions, the
\* authorization and the queue.
THEOREM TablesAgree == Spec => []LedgerConsistent
<1>1. IInv => CanceledNeverExecutes
  BY DEF IInv, Approvals, CanceledNeverExecutes
<1>2. IInv => LedgerConsistent
  BY <1>1 DEF IInv, History, People, LedgerConsistent
<1> QED
  BY <1>2, Inductive, PTL

\* A worker that stops being idle has started an attempt.
LEMMA OnlyStarts ==
    ASSUME TypeOK, [Next]_vars, NEW w \in Workers, worker[w] = Idle, worker'[w] # Idle
    PROVE  \E o \in Operations : Start(w, o)
<1>1. worker[w].pc = "idle" /\ worker' # worker
  BY DEF Idle
<1>2. ASSUME NEW v \in Workers, NEW o \in Operations, Start(v, o)
      PROVE  v = w
  BY <1>1, <1>2, StartWorker
<1>3. ASSUME NEW v \in Workers
      PROVE  ~WorkerStep(v) /\ ~Crash(v)
  <2>1. CASE Execute(v) \/ Reconcile(v) \/ DeadlineExceeded(v)
    BY <1>1, <2>1, Answers
  <2>2. CASE Complete(v) \/ Crash(v)
    <3>1. worker'[v].pc = "idle" /\ worker' = [worker EXCEPT ![v] = Idle]
      BY <2>2, WorkerFreed DEF Complete, Crash
    <3> QED
      BY <3>1 DEF TypeOK
  <2> QED
    BY <2>1, <2>2 DEF WorkerStep
<1>4. \A o \in Operations : /\ ~RecordAuthorization(o) /\ ~CancelAuthorization(o) /\ ~ClaimDrops(o)
                            /\ ~LeaseLapses(o) /\ ~WindowMoves(o) /\ ~RunnerEnds(o) /\ ~Supersede(o)
                            /\ ~Revise(o) /\ ~Lands(o)
                            /\ \A u, outcome : ~RequestResolution(o, u, outcome) /\ ~ConfirmResolution(o, u)
  BY DEF RecordAuthorization, CancelAuthorization, ClaimDrops, LeaseLapses, WindowMoves, RunnerEnds,
              Supersede, Revise, Lands, RequestResolution, ConfirmResolution
<1> QED
  BY <1>1, <1>2, <1>3, <1>4, Starts DEF Next, vars

\* An execution is admitted only when no earlier one has had an effect, is on
\* its way or can still be started: the mode a claim selects, the deadline of
\* the handler and the attempt it carries together exclude a second effect.
THEOREM ExecutionsExclude == Spec => SafeExecute
<1>1. IInv /\ [Next]_vars => ExecutionsExclusive
  <2> SUFFICES ASSUME IInv, [Next]_vars, NEW w \in Workers,
                      worker[w] = Idle, worker'[w] # Idle, worker'[w].mode = "execute"
               PROVE  LET o == worker'[w].op IN
                      /\ effect[o] = "none"
                      /\ \A v \in Workers : worker[v] # Idle /\ worker[v].op = o /\ Calling(v, "execute")
                                              => ~WithinDeadline(v)
    BY DEF ExecutionsExclusive
  <2>1. PICK o \in Operations : Start(w, o)
    BY OnlyStarts DEF IInv
  <2>2. worker'[w].op = o /\ SelectedMode(o) = "execute"
    BY <2>1, StartWorker DEF IInv
  <2>3. ledger[o].state \in {"absent", "retry_wait"}
    BY <2>2 DEF SelectedMode
  <2>4. effect[o] = "none"
    BY <2>3 DEF IInv, Approvals, History, LedgerMatchesAttempts, Truth, OutcomesTruthful
  <2>5. \A v \in Workers : worker[v].op = o /\ Calling(v, "execute") => ~WithinDeadline(v)
    BY <2>3 DEF IInv, Ownership, Calling, Busy, Latest, WithinDeadline, InFlight
  <2> QED
    BY <2>2, <2>4, <2>5
<1> QED
  BY <1>1, Inductive, PTL DEF Spec, SafeExecute

===============================================================================
