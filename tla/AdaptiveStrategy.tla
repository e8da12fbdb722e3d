------------------------------ MODULE AdaptiveStrategy ----------------------------
(***********************************************************************************)
(* redress.strategies.AdaptiveStrategy: a window of outcomes, shared by all the    *)
(* executions of the policies that use the strategy, and the factor by which their *)
(* backoff is stretched.  Both the recording and the question read the clock before *)
(* they take the lock.  What is recorded is up to the retry loop: a failure for    *)
(* which the strategy is selected, and a success of an execution whose latest      *)
(* failure selected it.  A history variable keeps when each outcome was recorded.  *)
(***********************************************************************************)
EXTENDS Integers, Sequences, FiniteSets, RollingWindow

CONSTANTS
    Callers,        \* the threads, each with an execution at a time
    WindowS,        \* window_s
    TargetNum,      \* target_success is TargetNum / TargetDen
    TargetDen,
    MinMultiplier,  \* min_multiplier
    MaxMultiplier,  \* max_multiplier
    MaxStall,       \* how long a caller may wait between the clock and the lock
    MaxRecorded,    \* bound on the outcomes recorded
    MaxTime         \* bound on the clock

\* What adaptive() accepts, for whole multipliers.
ASSUME AdaptiveAssumption ==
    /\ WindowS \in Nat \ {0}
    /\ TargetNum \in Nat \ {0} /\ TargetDen \in Nat /\ TargetNum <= TargetDen
    /\ MinMultiplier \in Nat \ {0} /\ MaxMultiplier \in Nat /\ MinMultiplier <= MaxMultiplier
    /\ MaxStall \in Nat /\ MaxRecorded \in Nat /\ MaxTime \in Nat

VARIABLES
    now,      \* clock()
    events,   \* _events
    step,     \* where each caller's execution is
    reading,  \* the clock as it read it
    chosen,   \* whether its _last_strategy is this one
    answer,   \* the multiplier its next attempt was delayed by
    recorded  \* history: what was recorded, by whom and when

vars == <<now, events, step, reading, chosen, answer, recorded>>

Multipliers == [num : Nat, den : Nat \ {0}]

Baseline == [num |-> MinMultiplier, den |-> 1]

Steps == {"running", "failing", "succeeding", "failed", "asking"}

\* Between the clock and the lock.
Waits == {"failing", "succeeding", "asking"}

Events == [at : Nat, ok : BOOLEAN]

Outcomes == [at : Nat, ok : BOOLEAN, by : Callers]

TypeOK ==
    /\ now \in 0..MaxTime
    /\ events \in Seq(Events)
    /\ step \in [Callers -> Steps]
    /\ reading \in [Callers -> Nat]
    /\ chosen \in [Callers -> BOOLEAN]
    /\ answer \in [Callers -> Multipliers]
    /\ recorded \in Seq(Outcomes)

Init ==
    /\ now = 0
    /\ events = <<>>
    /\ step = [c \in Callers |-> "running"]
    /\ reading = [c \in Callers |-> 0]
    /\ chosen = [c \in Callers |-> FALSE]
    /\ answer = [c \in Callers |-> Baseline]
    /\ recorded = <<>>

\* No caller waits for the lock for more than MaxStall.
Tick ==
    /\ now < MaxTime
    /\ \A c \in Callers : step[c] \in Waits => now < reading[c] + MaxStall
    /\ now' = now + 1
    /\ UNCHANGED <<events, step, reading, chosen, answer, recorded>>

Move(c, from, to) == step[c] = from /\ step' = [step EXCEPT ![c] = to]

\* The next attempt, after a delay of any length.
Attempt(c, multiplier) ==
    /\ step' = [step EXCEPT ![c] = "running"]
    /\ answer' = [answer EXCEPT ![c] = multiplier]

\* Towards the lock.
ReadClock(c) ==
    /\ reading' = [reading EXCEPT ![c] = now]
    /\ answer' = [answer EXCEPT ![c] = Baseline]

Locked(c) == reading' = [reading EXCEPT ![c] = 0]

-----------------------------------------------------------------------------------
(* The execution, as far as the strategy hears of it.                              *)

\* A failure selects the strategy and reports to it.
Fail(c) ==
    /\ Move(c, "running", "failing")
    /\ chosen' = [chosen EXCEPT ![c] = TRUE]
    /\ ReadClock(c)
    /\ UNCHANGED <<now, events, recorded>>

\* A failure of a class with another strategy, which is retried.
FailElsewhere(c) ==
    /\ step[c] = "running"
    /\ Attempt(c, Baseline)
    /\ chosen' = [chosen EXCEPT ![c] = FALSE]
    /\ UNCHANGED <<now, events, reading, recorded>>

\* Faulty: every success is reported.
FaultySucceed(c) ==
    /\ Move(c, "running", "succeeding")
    /\ ReadClock(c)
    /\ UNCHANGED <<now, events, chosen, recorded>>

\* record_success() of the state: without a strategy, nobody hears of it.
Succeed(c) ==
    /\ chosen[c]
    /\ Move(c, "running", "succeeding")
    /\ ReadClock(c)
    /\ UNCHANGED <<now, events, chosen, recorded>>

\* The execution ends without a word to the strategy, and the caller begins another:
\* it succeeds at once, its failure is final, its attempts or its time are spent, or
\* it is cancelled.
Leave(c) ==
    /\ Attempt(c, Baseline)
    /\ chosen' = [chosen EXCEPT ![c] = FALSE]
    /\ Locked(c)
    /\ UNCHANGED <<now, events, recorded>>

-----------------------------------------------------------------------------------
(* The strategy.                                                                   *)

Newest(s, n) == SubSeq(s, Len(s) - n + 1, Len(s))

Dates(s) == [i \in 1..Len(s) |-> s[i].at]

\* _prune(now)
Pruned(s, at) == Newest(s, Len(DropExpired(Dates(s), at - WindowS)))

\* _record, under the lock: the outcome enters at the right whatever its date.  A
\* success ends the execution.
Record(c) ==
    LET ok == step[c] = "succeeding"
    IN  /\ step[c] \in {"failing", "succeeding"}
        /\ Len(recorded) < MaxRecorded
        /\ step' = [step EXCEPT ![c] = IF ok THEN "running" ELSE "failed"]
        /\ chosen' = [chosen EXCEPT ![c] = ~ok]
        /\ Locked(c)
        /\ events' = Pruned(Append(events, [at |-> reading[c], ok |-> ok]), reading[c])
        /\ recorded' = Append(recorded, [at |-> now, ok |-> ok, by |-> c])
        /\ UNCHANGED <<now, answer>>

\* __call__: the fallback answers, then the clock is read.
Ask(c) ==
    /\ Move(c, "failed", "asking")
    /\ ReadClock(c)
    /\ UNCHANGED <<now, events, chosen, recorded>>

Failures(s) == Cardinality({i \in 1..Len(s) : ~s[i].ok})

\* Faulty: a rate within the target is not told apart.
FaultyMultiplier(s) ==
    [num |-> MinMultiplier * (Len(s) * TargetNum)
             + (Failures(s) * TargetDen - (TargetDen - TargetNum) * Len(s))
               * (MaxMultiplier - MinMultiplier),
     den |-> Len(s) * TargetNum]

\* min + (rate - target_failure) / (1 - target_failure) * (max - min), of a rate above
\* the target; over the rationals the clamps of the code change nothing.
Multiplier(s) ==
    IF Failures(s) * TargetDen <= (TargetDen - TargetNum) * Len(s)
    THEN Baseline
    ELSE [num |-> MinMultiplier * (Len(s) * TargetNum)
                  + (Failures(s) * TargetDen - (TargetDen - TargetNum) * Len(s))
                    * (MaxMultiplier - MinMultiplier),
          den |-> Len(s) * TargetNum]

\* Faulty: only recording prunes.
FaultyAnswer(c) ==
    /\ step[c] = "asking"
    /\ Attempt(c, Multiplier(events))
    /\ Locked(c)
    /\ UNCHANGED <<now, events, chosen, recorded>>

\* _multiplier, under the lock.
Answer(c) ==
    /\ step[c] = "asking"
    /\ events' = Pruned(events, reading[c])
    /\ Attempt(c, Multiplier(Pruned(events, reading[c])))
    /\ Locked(c)
    /\ UNCHANGED <<now, chosen, recorded>>

Next ==
    \/ Tick
    \/ \E c \in Callers :
          \/ Fail(c) \/ FailElsewhere(c) \/ Succeed(c) \/ Leave(c)
          \/ Record(c) \/ Ask(c) \/ Answer(c)

Spec == Init /\ [][Next]_vars

-----------------------------------------------------------------------------------
(* Properties.                                                                     *)

\* A window s is the latest of a history r, each dated at most MaxStall early, and at
\* time t those before it are as old as the window less the stall.
DatedTail(s, r, t) ==
    LET gone == Len(r) - Len(s)
    IN  /\ gone >= 0
        /\ \A i \in 1..Len(s) :
              /\ s[i].ok = r[gone + i].ok
              /\ s[i].at <= r[gone + i].at
              /\ r[gone + i].at <= s[i].at + MaxStall
        /\ \A j \in 1..gone : r[j].at <= t - WindowS + MaxStall

\* The deque is the end of the history of outcomes.
Window == DatedTail(events, recorded, now)

\* The history is in order, none of it from the future, and no caller waits for the
\* lock for longer than MaxStall.
Bounds ==
    /\ \A j \in 1..Len(recorded) : recorded[j].at <= now
    /\ \A i, j \in 1..Len(recorded) : i <= j => recorded[i].at <= recorded[j].at
    /\ \A c \in Callers : step[c] \in Waits =>
          reading[c] <= now /\ now <= reading[c] + MaxStall

\* A multiplier of the recent past: of the latest n outcomes, all of the last window_s
\* less the longest wait among them, none older than window_s plus the longest wait.
OfRecentPast(m) ==
    \E n \in 0..Len(recorded) :
        /\ m = Multiplier(Newest(recorded, n))
        /\ \A j \in 1..(Len(recorded) - n) : recorded[j].at <= now - WindowS + MaxStall
        /\ \A j \in (Len(recorded) - n + 1)..Len(recorded) :
              recorded[j].at > now - WindowS - MaxStall

Answered(c) == step[c] = "asking" /\ step'[c] = "running" /\ chosen'[c]

\* "Adaptive backoff wrapper that scales a fallback strategy": whoever waits for the
\* lock and in whatever order the outcomes enter the window, the factor a caller is
\* given is that of the outcomes of the last window_s, up to the longest wait.
MultiplierOfWindow == [][\A c \in Callers : Answered(c) => OfRecentPast(answer'[c])]_vars

\* Of the first n of a history, the caller's latest is a failure.
HeardFail(r, c, n) ==
    \E j \in 1..n :
        /\ r[j].by = c /\ ~r[j].ok
        /\ \A k \in j..n : r[k].by = c => ~r[k].ok

\* What the strategy hears is not the success rate of the operation: every success it
\* hears of ends an execution that it heard fail, and after the caller's last success.
SuccessEndsFailures ==
    \A i \in 1..Len(recorded) : recorded[i].ok => HeardFail(recorded, recorded[i].by, i - 1)

\* An execution that has selected the strategy has told it so.
ChosenHeard ==
    \A c \in Callers :
        /\ step[c] # "running" => chosen[c]
        /\ chosen[c] /\ step[c] # "failing" => HeardFail(recorded, c, Len(recorded))
====================================================================================
